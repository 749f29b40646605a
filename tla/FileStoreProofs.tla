--------------------------- MODULE FileStoreProofs ---------------------------
(***************************************************************************)
(* Proofs about FileStore, for every set of names, slugs, tags, requests    *)
(* and permissions, and any number of failures and restarts.               *)
(***************************************************************************)
EXTENDS FileStore, TLAPS

\* Every handler starts from, and answers into, well-typed local variables.
LEMMA IdleType == Idle \in Request
  BY FileStoreAssumption DEF Idle, Request, PC

\* The updates handlers make of their local variables keep their types.
LEMMA RequestUpdates ==
  ASSUME NEW q \in Request
  PROVE  /\ \A pc \in PC : [q EXCEPT !.pc = pc] \in Request
         /\ \A pc \in PC, s \in Slugs, old \in Slugs \cup {None} :
              [q EXCEPT !.pc = pc, !.slug = s, !.repl = old] \in Request
         /\ \A pc \in PC, T \in SUBSET Tags : [q EXCEPT !.pc = pc, !.todo = T] \in Request
         /\ \A pc \in PC, m \in 0..MaxTime : [q EXCEPT !.pc = pc, !.since = m] \in Request
         /\ \A T \in SUBSET Tags, b \in BOOLEAN :
              [q EXCEPT !.todo = T, !.moves = b] \in Request
         /\ \A pc \in PC, n \in Names, T \in SUBSET Tags, P \in SUBSET Permission,
               S \in SUBSET Slugs :
              [q EXCEPT !.pc = pc, !.name = n, !.tags = T, !.perms = P, !.seen = S] \in Request
         /\ \A pc \in PC, s \in Slugs, T \in SUBSET Tags, P \in SUBSET Permission :
              [q EXCEPT !.pc = pc, !.slug = s, !.tags = T, !.todo = T, !.perms = P] \in Request
         /\ \A pc \in PC, s \in Slugs : [q EXCEPT !.pc = pc, !.slug = s] \in Request
  BY DEF Request

LEMMA ContinueType ==
  ASSUME TypeOK, NEW r \in Reqs, NEW q \in Request, Continue(r, q)
  PROVE  req' \in [Reqs -> Request]
  BY DEF TypeOK, Continue

LEMMA GotoType ==
  ASSUME TypeOK, NEW r \in Reqs, NEW pc \in PC, Goto(r, pc)
  PROVE  req' \in [Reqs -> Request]
<1>1. req[r] \in Request
  BY DEF TypeOK
<1>2. [req[r] EXCEPT !.pc = pc] \in Request
  BY <1>1, RequestUpdates
<1>3. QED
  BY <1>2, ContinueType DEF Goto

LEMMA AnswerType ==
  ASSUME TypeOK, NEW r \in Reqs, Answer(r)
  PROVE  req' \in [Reqs -> Request]
BY IdleType, ContinueType DEF Answer

\* A request that has just arrived has well-typed local variables.
LEMMA ArriveRequestType ==
  ASSUME TypeOK, NEW r \in Reqs, Arrive(r)
  PROVE  req' \in [Reqs -> Request]
<1> USE IdleType
<1>0. {"reserve", "deleteBlob", "addPerms", "open"} \subseteq PC
  BY DEF PC
<1>1. CASE UploadCheck(r)
  <2>1. PICK n \in Names, T \in SUBSET Tags, P \in PermSets :
          Continue(r, [Idle EXCEPT !.pc = "reserve", !.name = n, !.tags = T, !.perms = P,
                         !.seen = LiveNamed(n)])
    BY <1>1 DEF UploadCheck
  <2> DEFINE S == LiveNamed(n)
  <2>2. S \in SUBSET Slugs /\ P \in SUBSET Permission
    BY FileStoreAssumption DEF LiveNamed, LiveSlugs, Permission
  <2>3. Continue(r, [Idle EXCEPT !.pc = "reserve", !.name = n, !.tags = T, !.perms = P,
                       !.seen = S])
    BY <2>1
  <2> HIDE DEF S
  <2>4. [Idle EXCEPT !.pc = "reserve", !.name = n, !.tags = T, !.perms = P, !.seen = S]
          \in Request
    BY <1>0, <2>2, RequestUpdates
  <2>5. QED
    BY <2>3, <2>4, ContinueType
<1>2. CASE AddTagsCheck(r)
  <2>1. PICK s \in LiveSlugs, T \in SUBSET Tags, P \in PermSets :
          Continue(r, [Idle EXCEPT !.pc = "addPerms", !.slug = s,
                         !.tags = T, !.todo = T, !.perms = P])
    BY <1>2 DEF AddTagsCheck
  <2>2. s \in Slugs /\ P \in SUBSET Permission
    BY FileStoreAssumption DEF LiveSlugs, Permission
  <2>3. [Idle EXCEPT !.pc = "addPerms", !.slug = s, !.tags = T, !.todo = T, !.perms = P]
          \in Request
    BY <1>0, <2>2, RequestUpdates
  <2>4. QED
    BY <2>1, <2>3, ContinueType
<1>3. CASE DeleteFile(r)
  <2>1. PICK s \in LiveSlugs : Continue(r, [Idle EXCEPT !.pc = "deleteBlob", !.slug = s])
    BY <1>3 DEF DeleteFile
  <2>2. [Idle EXCEPT !.pc = "deleteBlob", !.slug = s] \in Request
    BY <1>0, RequestUpdates DEF LiveSlugs
  <2>3. QED
    BY <2>1, <2>2, ContinueType
<1>4. CASE ShortLink(r) \/ FilenameURL(r) \/ TagDownload(r)
  <2>1. PICK s \in LiveSlugs : Resolved(r, s)
    BY <1>4 DEF ShortLink, FilenameURL, TagDownload, Latest, LiveNamed
  <2>2. [Idle EXCEPT !.pc = "open", !.slug = s] \in Request
    BY <1>0, RequestUpdates DEF LiveSlugs
  <2>3. QED
    BY <2>1, <2>2, ContinueType DEF Resolved
<1>5. CASE RemoveTag(r)
  BY <1>5 DEF RemoveTag, TypeOK
<1>6. QED
  BY <1>1, <1>2, <1>3, <1>4, <1>5 DEF Arrive

\* So has one that goes on or answers.
LEMMA StepRequestType ==
  ASSUME TypeOK, NEW r \in Reqs, Step(r)
  PROVE  req' \in [Reqs -> Request]
<1>0. /\ req[r] \in Request
      /\ {"idle", "reserve", "put", "putting", "tagPerms", "finalize", "apply",
          "reclaim", "discard", "abort", "untag"} \subseteq PC
  BY DEF TypeOK, PC
<1>1. CASE UploadReserve(r)
  <2>1. PICK s \in UniqueSlugs, old \in Replaceable(req[r].name) :
          Continue(r, [req[r] EXCEPT !.pc = "put", !.slug = s, !.repl = old])
    BY <1>1 DEF UploadReserve
  <2>2. s \in Slugs /\ old \in Slugs \cup {None}
    BY DEF UniqueSlugs, Replaceable, LiveNamed, LiveSlugs
  <2>3. [req[r] EXCEPT !.pc = "put", !.slug = s, !.repl = old] \in Request
    BY <1>0, <2>2, RequestUpdates
  <2>4. QED
    BY <2>1, <2>3, ContinueType
<1>2. CASE UploadPutDone(r)
  <2>1. req[r].tags \in SUBSET Tags
    BY <1>0 DEF Request
  <2>2. [req[r] EXCEPT !.pc = "tagPerms", !.todo = req[r].tags] \in Request
    BY <1>0, <2>1, RequestUpdates
  <2>3. QED
    BY <1>2, <2>2, ContinueType DEF UploadPutDone
<1>3. CASE ReadTagOwner(r)
  <2>1. PICK t \in req[r].todo :
          Continue(r, [req[r] EXCEPT !.todo = req[r].todo \ {t},
                         !.moves = req[r].moves \/ OwnedByAnotherFile(r, t)])
    BY <1>3 DEF ReadTagOwner
  <2> DEFINE T == req[r].todo \ {t}
             b == req[r].moves \/ OwnedByAnotherFile(r, t)
  <2>2. T \in SUBSET Tags /\ b \in BOOLEAN
    BY <1>0 DEF Request
  <2>3. Continue(r, [req[r] EXCEPT !.todo = T, !.moves = b])
    BY <2>1
  <2> HIDE DEF T, b
  <2>4. [req[r] EXCEPT !.todo = T, !.moves = b] \in Request
    BY <1>0, <2>2, RequestUpdates
  <2>5. QED
    BY <2>3, <2>4, ContinueType
<1>4. CASE UploadAuthorised(r)
  <2>1. [req[r] EXCEPT !.pc = "finalize", !.since = clock] \in Request
    BY <1>0, RequestUpdates DEF TypeOK
  <2>2. QED
    BY <1>4, <2>1, ContinueType DEF UploadAuthorised
<1>5. ASSUME \E pc \in PC : Goto(r, pc) PROVE req' \in [Reqs -> Request]
  BY <1>5, GotoType
<1>6. ASSUME Answer(r) PROVE req' \in [Reqs -> Request]
  BY <1>6, AnswerType
<1>7. QED
  BY <1>0, <1>1, <1>2, <1>3, <1>4, <1>5, <1>6
     DEF Step, Upload, UploadReserveFails, UploadPutStart, UploadPutFails,
         UploadPutLeaves, UploadRejected, UploadFinalize,
         UploadFinalizeFails, UploadFinalizeUnread, UploadApply, UploadApplyFails,
         UploadReclaim, UploadReclaimFails, UploadDiscardBlob, UploadDiscardBlobFails,
         UploadAbort, UploadUntag, UploadAbortFails, DeleteBlob, DeleteBlobFails,
         AddTags, AddTagsRefused, ServeFile

\* The steps that write to the blob store.
LEMMA BlobWriters ==
  ASSUME [Next]_vars
  PROVE  \/ UNCHANGED blob
         \/ \E r \in Reqs : \/ UploadPutStart(r) \/ UploadPutDone(r) \/ UploadPutFails(r)
                            \/ UploadPutLeaves(r) \/ UploadReclaim(r)
                            \/ UploadDiscardBlob(r) \/ DeleteBlob(r)
  BY DEF Next, vars, Arrive, Step, Upload, Restart, Tick, 
         UploadCheck, DeleteFile, AddTagsCheck, RemoveTag, ShortLink, FilenameURL, TagDownload,
         UploadReserve, UploadReserveFails, UploadPutStart, UploadPutDone, UploadPutFails,
         UploadPutLeaves, UploadRejected, UploadAuthorised, UploadFinalize,
         UploadFinalizeFails, UploadFinalizeUnread, UploadApply, UploadApplyFails,
         UploadReclaim, UploadReclaimFails, UploadDiscardBlob, UploadDiscardBlobFails,
         UploadAbort, UploadUntag, UploadAbortFails, DeleteBlob, DeleteBlobFails,
         ReadTagOwner, AddTags, AddTagsRefused, ServeFile

\* The steps that write to the database.
LEMMA RowWriters ==
  ASSUME [Next]_vars
  PROVE  \/ UNCHANGED db
         \/ \E r \in Reqs : \/ UploadReserve(r) \/ UploadFinalize(r) \/ UploadFinalizeUnread(r)
                            \/ UploadApply(r) \/ UploadAbort(r) \/ UploadUntag(r)
                            \/ DeleteFile(r) \/ AddTags(r) \/ RemoveTag(r)
<1>1. CASE Restart \/ Tick \/ UNCHANGED vars
  BY <1>1 DEF Restart, Tick, vars, db
<1>2. ASSUME NEW r \in Reqs, Arrive(r)
      PROVE  UNCHANGED db \/ DeleteFile(r) \/ RemoveTag(r)
  BY <1>2 DEF Arrive, UploadCheck, AddTagsCheck, ShortLink, FilenameURL, TagDownload
<1>3. ASSUME NEW r \in Reqs, Step(r)
      PROVE  \/ UNCHANGED db
             \/ UploadReserve(r) \/ UploadFinalize(r) \/ UploadFinalizeUnread(r)
             \/ UploadApply(r) \/ UploadAbort(r) \/ UploadUntag(r) \/ AddTags(r)
  BY <1>3
     DEF Step, Upload, UploadReserveFails, UploadPutStart, UploadPutDone, UploadPutFails,
         UploadPutLeaves, UploadRejected, UploadAuthorised, UploadFinalizeFails,
         UploadApplyFails, UploadReclaim, UploadReclaimFails, UploadDiscardBlob,
         UploadDiscardBlobFails, UploadAbortFails, DeleteBlob, DeleteBlobFails,
         ReadTagOwner, AddTagsRefused, ServeFile
<1>4. QED
  BY <1>1, <1>2, <1>3 DEF Next

\* The clock only ticks, and a failure is always counted.
LEMMA CounterSteps ==
  ASSUME [Next]_vars
  PROVE  (UNCHANGED clock \/ Tick) /\ (UNCHANGED faults \/ Fault)
<1>1. CASE Restart \/ Tick \/ UNCHANGED vars
  BY <1>1 DEF Restart, Tick, vars
<1>2. ASSUME NEW r \in Reqs, Arrive(r)
      PROVE  UNCHANGED <<clock, faults>>
  BY <1>2 DEF Arrive, UploadCheck, DeleteFile, AddTagsCheck, RemoveTag, ShortLink,
              FilenameURL, TagDownload
<1>3. ASSUME NEW r \in Reqs, Step(r)
      PROVE  UNCHANGED clock /\ (UNCHANGED faults \/ Fault)
  BY <1>3
     DEF Step, Upload, UploadReserve, UploadReserveFails, UploadPutStart, UploadPutDone,
         UploadPutFails, UploadPutLeaves, UploadRejected, UploadAuthorised,
         UploadFinalize, UploadFinalizeFails, UploadFinalizeUnread, UploadApply,
         UploadApplyFails, UploadReclaim, UploadReclaimFails, UploadDiscardBlob,
         UploadDiscardBlobFails, UploadAbort, UploadUntag, UploadAbortFails,
         DeleteBlob, DeleteBlobFails, ReadTagOwner, AddTags, AddTagsRefused, ServeFile
<1>4. QED
  BY <1>1, <1>2, <1>3 DEF Next

\* The mode is read when the process starts.
LEMMA ModeSteps ==
  ASSUME [Next]_vars
  PROVE  UNCHANGED appendOnly \/ Restart
  BY DEF Next, Arrive, Step, Tick, vars

\* Every step leaves every variable of the two stores, and of the handlers, in its
\* range.
LEMMA TypeStep == TypeOK /\ [Next]_vars => TypeOK'
<1> SUFFICES ASSUME TypeOK, [Next]_vars PROVE TypeOK'
  OBVIOUS
<1>1. req' \in [Reqs -> Request]
  BY ArriveRequestType, StepRequestType, IdleType
     DEF Next, vars, TypeOK, Restart, Tick
<1>2. clock' \in 0..MaxTime /\ faults' \in 0..MaxFaults /\ appendOnly' \in BOOLEAN
  BY CounterSteps, ModeSteps, FileStoreAssumption DEF TypeOK, Tick, Fault, Restart
<1>3. blob' \in [Slugs -> Blob]
  BY BlobWriters
     DEF TypeOK, Blob, UploadPutStart, UploadPutDone, UploadPutFails, UploadPutLeaves,
         UploadReclaim, UploadDiscardBlob, DeleteBlob
<1>4. /\ status' \in [Slugs -> Status]
      /\ nameOf' \in [Slugs -> Names \cup {None}]
      /\ modified' \in [Slugs -> 0..MaxTime]
  <2>1. ASSUME NEW r \in Reqs, UploadReserve(r)
        PROVE  status' \in [Slugs -> Status] /\ nameOf' \in [Slugs -> Names \cup {None}]
    BY <2>1 DEF TypeOK, UploadReserve, UniqueSlugs, Status, Request
  <2>2. ASSUME NEW r \in Reqs, UploadFinalize(r) \/ UploadFinalizeUnread(r)
        PROVE  /\ status' \in [Slugs -> Status]
               /\ modified' \in [Slugs -> 0..MaxTime]
               /\ UNCHANGED nameOf
    <3>1. req[r].since..clock \subseteq 0..MaxTime
      BY FileStoreAssumption DEF TypeOK, Request
    <3>2. PICK m \in 0..MaxTime : FinalizeUpload(req[r].slug, m)
      BY <2>2, <3>1 DEF UploadFinalize, UploadFinalizeUnread
    <3>3. QED
      BY <3>2 DEF TypeOK, FinalizeUpload, Status
  <2>3. ASSUME NEW r \in Reqs,
               \/ UploadApply(r) \/ UploadAbort(r) \/ UploadUntag(r)
               \/ DeleteFile(r) \/ AddTags(r) \/ RemoveTag(r)
        PROVE  status' \in [Slugs -> Status] /\ UNCHANGED <<nameOf, modified>>
    BY <2>3 DEF TypeOK, UploadApply, ApplyUploadTags, UploadAbort, UploadUntag, DeleteFile,
                AddTags, RemoveTag, Status
  <2>4. ASSUME NEW r \in Reqs, UploadReserve(r)
        PROVE  UNCHANGED modified
    BY <2>4 DEF UploadReserve
  <2>5. QED
    BY <2>1, <2>2, <2>3, <2>4, RowWriters DEF TypeOK, db
<1>5. tagOf' \in [Tags -> Slugs \cup {None}] /\ successor' \in [Slugs -> Slugs \cup {None}]
  <2>1. ASSUME NEW r \in Reqs, UploadApply(r)
        PROVE  /\ tagOf' \in [Tags -> Slugs \cup {None}]
               /\ successor' \in [Slugs -> Slugs \cup {None}]
    <3>1. req[r].slug \in Slugs \cup {None}
      BY DEF TypeOK, Request
    <3>2. QED
      BY <2>1, <3>1 DEF TypeOK, UploadApply, ApplyUploadTags
  <2>2. ASSUME NEW r \in Reqs, AddTags(r) \/ UploadUntag(r) \/ DeleteFile(r) \/ RemoveTag(r)
        PROVE  tagOf' \in [Tags -> Slugs \cup {None}] /\ UNCHANGED successor
    BY <2>2 DEF TypeOK, AddTags, UploadUntag, DeleteFile, RemoveTag, Request
  <2>3. QED
    BY <2>1, <2>2, RowWriters
       DEF TypeOK, db, UploadReserve, UploadFinalize, UploadFinalizeUnread, FinalizeUpload,
           UploadAbort
<1>9. QED
  BY <1>1, <1>2, <1>3, <1>4, <1>5 DEF TypeOK

\* Type correctness: every handler leaves every variable in its range.
THEOREM TypeCorrect == Spec => []TypeOK
<1>1. Init => TypeOK
  BY FileStoreAssumption, IdleType DEF Init, TypeOK, Status, Blob
<1>2. QED
  BY <1>1, TypeStep, PTL DEF Spec

-----------------------------------------------------------------------------
\* The inductive invariant.
Inv ==
  /\ TypeOK
  /\ HandlerState
  /\ LiveIsWhole
  /\ DownloadIsWhole
  /\ TagsOnPublished
  /\ UnprivilegedKeepsFiles

\* Removing a replaced file's bytes touches no upload in progress.
LEMMA ReclaimEffect ==
  ASSUME TypeOK, HandlerState, NEW r \in Reqs, UploadReclaim(r)
  PROVE  \A s \in Slugs : status[s] # "deleted" => blob'[s] = blob[s]
<1>1. req[r].repl # None => status[req[r].repl] = "deleted"
  BY DEF HandlerState, UploadReclaim
<1>2. QED
  BY <1>1, FileStoreAssumption DEF TypeOK, UploadReclaim

\* What applyUploadTags does to the rows.
LEMMA ApplyEffect ==
  ASSUME TypeOK, HandlerState, NEW r \in Reqs, UploadApply(r)
  PROVE  /\ \A s \in Slugs : status[s] = "pending" => status'[s] = "pending"
         /\ \A s \in Slugs : Published(s) => status'[s] \in {"live", "deleted"}
         /\ \A s \in Slugs : status[s] = "deleted" => status'[s] = "deleted"
         /\ req[r].repl # None => status'[req[r].repl] = "deleted"
         /\ UNCHANGED <<nameOf, blob>>
<1>1. req[r].repl # None => req[r].repl \in Slugs /\ Published(req[r].repl)
  BY DEF HandlerState, TypeOK, Request
<1>2. status' = [s \in Slugs |-> IF s = req[r].repl THEN "deleted" ELSE status[s]]
  BY DEF UploadApply, ApplyUploadTags
<1>3. UNCHANGED <<nameOf, blob>>
  BY DEF UploadApply, ApplyUploadTags
<1>4. QED
  BY <1>1, <1>2, <1>3, FileStoreAssumption DEF Published

\* Each step keeps what the handlers rely on between their calls.
LEMMA HandlerStep == Inv /\ [Next]_vars => HandlerState'
<1> SUFFICES ASSUME Inv, [Next]_vars PROVE HandlerState'
  OBVIOUS
<1> USE DEF Inv, TypeOK, HandlerState, Reserved, Holds, Published, Request, Continue, Goto,
            Answer, Idle, MaySupersede, db
<1>0. CASE Restart
  BY <1>0 DEF Restart
<1> SUFFICES ASSUME UNCHANGED appendOnly PROVE HandlerState'
  BY <1>0, ModeSteps
<1>1. CASE Tick \/ UNCHANGED vars
  BY <1>1 DEF Tick, vars
<1>2. ASSUME NEW r \in Reqs, UploadCheck(r) PROVE HandlerState'
  BY <1>2 DEF UploadCheck, MayUpload, LiveNamed, LiveSlugs
<1>3. ASSUME NEW r \in Reqs, AddTagsCheck(r) PROVE HandlerState'
  BY <1>3 DEF AddTagsCheck, LiveSlugs
<1>4. ASSUME NEW r \in Reqs, DeleteFile(r) PROVE HandlerState'
  BY <1>4 DEF DeleteFile, LiveSlugs
<1>5. ASSUME NEW r \in Reqs, RemoveTag(r) PROVE HandlerState'
  BY <1>5 DEF RemoveTag
<1>6. ASSUME NEW r \in Reqs, ShortLink(r) PROVE HandlerState'
  BY <1>6 DEF ShortLink, Resolved, LiveSlugs
<1>7. ASSUME NEW r \in Reqs, FilenameURL(r) PROVE HandlerState'
  BY <1>7 DEF FilenameURL, Resolved, Latest, LiveNamed, LiveSlugs
<1>8. ASSUME NEW r \in Reqs, TagDownload(r) PROVE HandlerState'
  BY <1>8 DEF TagDownload, Resolved, LiveSlugs
<1>9. ASSUME NEW r \in Reqs, UploadReserve(r) PROVE HandlerState'
  BY <1>9 DEF UploadReserve, UniqueSlugs, Replaceable, LiveNamed, LiveSlugs
<1>10. ASSUME NEW r \in Reqs, UploadPutStart(r) PROVE HandlerState'
  BY <1>10 DEF UploadPutStart
<1>11. ASSUME NEW r \in Reqs, UploadPutDone(r) PROVE HandlerState'
  BY <1>11 DEF UploadPutDone
<1>12. ASSUME NEW r \in Reqs, UploadPutFails(r) PROVE HandlerState'
  BY <1>12 DEF UploadPutFails
<1>13. ASSUME NEW r \in Reqs, UploadPutLeaves(r) PROVE HandlerState'
  BY <1>13 DEF UploadPutLeaves
<1>14. ASSUME NEW r \in Reqs, UploadRejected(r) PROVE HandlerState'
  BY <1>14 DEF UploadRejected
<1>15. ASSUME NEW r \in Reqs, UploadAuthorised(r) PROVE HandlerState'
  BY <1>15 DEF UploadAuthorised
<1>16. ASSUME NEW r \in Reqs, ReadTagOwner(r) PROVE HandlerState'
  BY <1>16 DEF ReadTagOwner
<1>17. ASSUME NEW r \in Reqs, UploadFinalize(r) PROVE HandlerState'
  BY <1>17 DEF UploadFinalize, FinalizeUpload
<1>18. ASSUME NEW r \in Reqs, UploadFinalizeUnread(r) PROVE HandlerState'
  BY <1>18 DEF UploadFinalizeUnread, FinalizeUpload
<1>19. ASSUME NEW r \in Reqs, UploadApply(r) PROVE HandlerState'
  <2>1. /\ \A s \in Slugs : status[s] = "pending" => status'[s] = "pending"
        /\ \A s \in Slugs : Published(s) => status'[s] \in {"live", "deleted"}
        /\ \A s \in Slugs : status[s] = "deleted" => status'[s] = "deleted"
        /\ req[r].repl # None => status'[req[r].repl] = "deleted"
        /\ UNCHANGED <<nameOf, blob>>
    BY <1>19, ApplyEffect
  <2>2. /\ req' = [req EXCEPT ![r] = [req[r] EXCEPT !.pc = "reclaim"]]
        /\ req[r].pc = "apply"
    BY <1>19 DEF UploadApply
  <2>3. QED
    BY <2>1, <2>2
<1>20. ASSUME NEW r \in Reqs, UploadReclaim(r) PROVE HandlerState'
  <2>1. \A s \in Slugs : status[s] = "pending" => blob'[s] = blob[s]
    BY <1>20, ReclaimEffect
  <2>2. \A q \in Reqs : req[q].pc \in {"tagPerms", "finalize"} => blob'[req[q].slug] = "whole"
    BY <2>1
  <2>3. QED
    BY <1>20, <2>2 DEF UploadReclaim
<1>21. ASSUME NEW r \in Reqs, UploadDiscardBlob(r) PROVE HandlerState'
  BY <1>21 DEF UploadDiscardBlob
<1>22. ASSUME NEW r \in Reqs, UploadDiscardBlobFails(r) PROVE HandlerState'
  BY <1>22 DEF UploadDiscardBlobFails
<1>23. ASSUME NEW r \in Reqs, DeleteBlob(r) PROVE HandlerState'
  BY <1>23 DEF DeleteBlob
<1>24. ASSUME NEW r \in Reqs, UploadAbort(r) PROVE HandlerState'
  BY <1>24 DEF UploadAbort
<1>25. ASSUME NEW r \in Reqs, UploadUntag(r) PROVE HandlerState'
  BY <1>25 DEF UploadUntag
<1>26. ASSUME NEW r \in Reqs, AddTags(r) PROVE HandlerState'
  BY <1>26 DEF AddTags
<1>27. ASSUME NEW r \in Reqs,
              \/ UploadReserveFails(r) \/ UploadFinalizeFails(r) \/ UploadApplyFails(r) \/ UploadReclaimFails(r)
              \/ UploadAbortFails(r) \/ DeleteBlobFails(r) \/ AddTagsRefused(r) \/ ServeFile(r)
       PROVE  HandlerState'
  <2>1. Answer(r) /\ UNCHANGED <<db, blob>>
    BY <1>27 DEF UploadReserveFails, UploadFinalizeFails, UploadApplyFails,
                 UploadReclaimFails, UploadAbortFails, DeleteBlobFails, AddTagsRefused,
                 ServeFile
  <2>2. req' = [req EXCEPT ![r] = Idle] /\ UNCHANGED <<status, nameOf, blob>>
    BY <2>1
  <2>3. QED
    BY <2>2
<1>28. QED
  BY <1>0, <1>1, <1>2, <1>3, <1>4, <1>5, <1>6, <1>7, <1>8, <1>9, <1>10, <1>11, <1>12, <1>13, <1>14, <1>15,
     <1>16, <1>17, <1>18, <1>19, <1>20, <1>21, <1>22, <1>23, <1>24, <1>25, <1>26, <1>27
     DEF Next, Arrive, Step, Upload

-----------------------------------------------------------------------------
\* A row never goes back, keeps its name, and goes live only with its bytes stored.
LEMMA RowsOneWay ==
  ASSUME Inv, [Next]_vars, NEW s \in Slugs
  PROVE  /\ status[s] = "deleted" => status'[s] = "deleted"
         /\ Published(s) => status'[s] \in {"live", "deleted"}
         /\ status[s] # "free" => status'[s] # "free" /\ nameOf'[s] = nameOf[s]
         /\ status[s] # "live" /\ status'[s] = "live" => blob[s] = "whole" /\ UNCHANGED blob
<1> USE DEF Inv, TypeOK, HandlerState, Reserved, Holds, Published, db
<1>1. CASE UNCHANGED db
  BY <1>1
<1>2. ASSUME NEW r \in Reqs, UploadReserve(r)
      PROVE  \A u \in Slugs : status[u] # "free" => UNCHANGED <<status[u], nameOf[u]>>
  BY <1>2 DEF UploadReserve, UniqueSlugs
<1>3. ASSUME NEW r \in Reqs, UploadReserve(r)
      PROVE  \A u \in Slugs : status[u] # "live" => status'[u] # "live"
  BY <1>3 DEF UploadReserve, UniqueSlugs
<1>4. CASE \E r \in Reqs : UploadFinalize(r) \/ UploadFinalizeUnread(r)
  BY <1>4 DEF UploadFinalize, UploadFinalizeUnread, FinalizeUpload
<1>5. CASE \E r \in Reqs : UploadApply(r)
  <2>1. PICK r \in Reqs : UploadApply(r)
    BY <1>5
  <2>2. status' = [u \in Slugs |-> IF u = req[r].repl THEN "deleted" ELSE status[u]]
    BY <2>1 DEF UploadApply, ApplyUploadTags
  <2>3. QED
    BY <2>1, <2>2, ApplyEffect
<1>6. CASE \E r \in Reqs : UploadAbort(r)
  BY <1>6 DEF UploadAbort
<1>7. CASE \E r \in Reqs : DeleteFile(r)
  BY <1>7 DEF DeleteFile, LiveSlugs
<1>8. CASE \E r \in Reqs : UploadUntag(r) \/ AddTags(r) \/ RemoveTag(r)
  BY <1>8 DEF UploadUntag, AddTags, RemoveTag
<1>9. QED
  BY <1>1, <1>2, <1>3, <1>4, <1>5, <1>6, <1>7, <1>8, RowWriters

\* A published file's bytes are either left alone or removed, and a live one's kept.
LEMMA PublishedBytes ==
  ASSUME Inv, [Next]_vars, NEW s \in Slugs, Published(s)
  PROVE  /\ blob'[s] \in {blob[s], "none"}
         /\ status[s] = "live" => blob'[s] = blob[s]
<1> USE DEF Inv, TypeOK, HandlerState, Reserved, Published
<1>1. CASE UNCHANGED blob
  BY <1>1
<1>2. CASE \E r \in Reqs : UploadPutStart(r) \/ UploadPutDone(r) \/ UploadPutFails(r)
                             \/ UploadPutLeaves(r) \/ UploadDiscardBlob(r)
  BY <1>2 DEF UploadPutStart, UploadPutDone, UploadPutFails, UploadPutLeaves,
              UploadDiscardBlob
<1>3. CASE \E r \in Reqs : DeleteBlob(r)
  BY <1>3 DEF DeleteBlob
<1>4. CASE \E r \in Reqs : UploadReclaim(r)
  BY <1>4, ReclaimEffect DEF UploadReclaim
<1>5. QED
  BY <1>1, <1>2, <1>3, <1>4, BlobWriters

\* A file goes live with its bytes, and a live file's bytes are not touched.
LEMMA LiveIsWholeStep == Inv /\ [Next]_vars => LiveIsWhole'
<1> SUFFICES ASSUME Inv, [Next]_vars, NEW s \in Slugs, status'[s] = "live"
             PROVE  blob'[s] = "whole"
  BY DEF LiveIsWhole
<1>1. CASE status[s] = "live"
  BY <1>1, PublishedBytes DEF Inv, LiveIsWhole, Published
<1>2. CASE status[s] # "live"
  BY <1>2, RowsOneWay
<1>3. QED
  BY <1>1, <1>2

\* How a handler's local variables evolve: most calls move on or answer.
LEMMA HandlerMoves ==
  ASSUME [Next]_vars
  PROVE  \/ UNCHANGED req
         \/ Restart
         \/ \E r \in Reqs :
              \/ UploadCheck(r) \/ DeleteFile(r) \/ AddTagsCheck(r)
              \/ ShortLink(r) \/ FilenameURL(r) \/ TagDownload(r)
              \/ UploadReserve(r) \/ UploadPutDone(r) \/ UploadAuthorised(r)
              \/ ReadTagOwner(r)
              \/ Answer(r)
              \/ \E pc \in PC \ {"open", "reserve"} : Goto(r, pc)
<1>1. CASE Tick \/ UNCHANGED vars
  BY <1>1 DEF Tick, vars
<1>2. ASSUME NEW r \in Reqs, RemoveTag(r) PROVE UNCHANGED req
  BY <1>2 DEF RemoveTag
<1>3. ASSUME NEW r \in Reqs, Upload(r)
      PROVE  \/ UploadReserve(r) \/ UploadPutDone(r) \/ UploadAuthorised(r) \/ Answer(r)
             \/ \E pc \in PC \ {"open", "reserve"} : Goto(r, pc)
  <2>1. {"putting", "discard", "apply", "reclaim", "abort", "untag"}
          \subseteq PC \ {"open", "reserve"}
    BY DEF PC
  <2>2. QED
    BY <1>3, <2>1
       DEF Upload, UploadReserveFails, UploadPutStart, UploadPutFails, UploadPutLeaves,
           UploadRejected, UploadFinalize, UploadFinalizeFails,
           UploadFinalizeUnread, UploadApply, UploadApplyFails, UploadReclaim,
           UploadReclaimFails, UploadDiscardBlob, UploadDiscardBlobFails, UploadAbort,
           UploadUntag, UploadAbortFails
<1>4. ASSUME NEW r \in Reqs,
             \/ DeleteBlob(r) \/ DeleteBlobFails(r) \/ AddTags(r) \/ AddTagsRefused(r)
             \/ ServeFile(r)
      PROVE  Answer(r)
  BY <1>4 DEF DeleteBlob, DeleteBlobFails, AddTags, AddTagsRefused, ServeFile
<1>5. QED
  BY <1>1, <1>2, <1>3, <1>4 DEF Next, Arrive, Step

\* A request that becomes a download has just found its record live.
LEMMA NewDownloads ==
  ASSUME TypeOK, [Next]_vars, NEW q \in Reqs, req'[q].pc = "open"
  PROVE  \/ req'[q] = req[q]
         \/ req'[q].slug \in LiveSlugs /\ UNCHANGED blob
<1> USE DEF TypeOK, Request, Continue
<1>1. CASE Restart
  BY <1>1 DEF Restart, Idle
<1>2. ASSUME NEW r \in Reqs, ShortLink(r) \/ FilenameURL(r) \/ TagDownload(r)
      PROVE  \/ req'[q] = req[q]
             \/ req'[q].slug \in LiveSlugs /\ UNCHANGED blob
  <2>1. PICK s \in LiveSlugs : Resolved(r, s)
    BY <1>2 DEF ShortLink, FilenameURL, TagDownload, Latest, LiveNamed
  <2>2. QED
    BY <1>2, <2>1 DEF Resolved, Idle, ShortLink, FilenameURL, TagDownload
<1>3. ASSUME NEW r \in Reqs, UploadCheck(r) \/ DeleteFile(r) \/ AddTagsCheck(r) \/ Answer(r)
      PROVE  req'[q] = req[q]
  <2>1. CASE UploadCheck(r)
    BY <2>1 DEF UploadCheck, Idle
  <2>2. CASE DeleteFile(r)
    BY <2>2 DEF DeleteFile, Idle
  <2>3. CASE AddTagsCheck(r)
    BY <2>3 DEF AddTagsCheck, Idle
  <2>4. CASE Answer(r)
    BY <2>4 DEF Answer, Idle
  <2>5. QED
    BY <1>3, <2>1, <2>2, <2>3, <2>4
<1>4. ASSUME NEW r \in Reqs,
             UploadReserve(r) \/ UploadPutDone(r) \/ UploadAuthorised(r) \/ ReadTagOwner(r)
      PROVE  req'[q] = req[q]
  <2>1. CASE UploadReserve(r)
    BY <2>1 DEF UploadReserve
  <2>2. CASE UploadPutDone(r)
    BY <2>2 DEF UploadPutDone
  <2>3. CASE ReadTagOwner(r)
    BY <2>3 DEF ReadTagOwner
  <2>4. CASE UploadAuthorised(r)
    BY <2>4 DEF UploadAuthorised
  <2>5. QED
    BY <1>4, <2>1, <2>2, <2>3, <2>4
<1>5. ASSUME NEW r \in Reqs, NEW pc \in PC \ {"open", "reserve"}, Goto(r, pc)
      PROVE  req'[q] = req[q]
  BY <1>5 DEF Goto
<1>6. QED
  BY <1>1, <1>2, <1>3, <1>4, <1>5, HandlerMoves

\* A download's record was published, and only a pending record's key is written to.
LEMMA DownloadIsWholeStep == Inv /\ [Next]_vars => DownloadIsWhole'
<1> SUFFICES ASSUME Inv, [Next]_vars, NEW q \in Reqs, req'[q].pc = "open"
             PROVE  blob'[req'[q].slug] # "partial"
  BY DEF DownloadIsWhole
<1>1. CASE req'[q] = req[q]
  <2>1. req[q].slug \in Slugs /\ Published(req[q].slug) /\ blob[req[q].slug] # "partial"
    BY <1>1 DEF Inv, HandlerState, Holds, DownloadIsWhole
  <2>2. QED
    BY <1>1, <2>1, PublishedBytes
<1>2. CASE req'[q].slug \in LiveSlugs /\ UNCHANGED blob
  BY <1>2 DEF Inv, LiveIsWhole, LiveSlugs
<1>3. QED
  BY <1>1, <1>2, NewDownloads DEF Inv

\* A tag is only ever pointed at a published record, and a published record stays one.
LEMMA TagsOnPublishedStep == Inv /\ [Next]_vars => TagsOnPublished'
<1> SUFFICES ASSUME Inv, [Next]_vars, NEW t \in Tags, tagOf'[t] # None
             PROVE  status'[tagOf'[t]] \in {"live", "deleted"}
  BY DEF TagsOnPublished
<1>1. CASE tagOf'[t] = tagOf[t]
  BY <1>1, RowsOneWay DEF Inv, TypeOK, TagsOnPublished, Published
<1>2. ASSUME NEW r \in Reqs, UploadApply(r) \/ AddTags(r), tagOf'[t] # tagOf[t]
      PROVE  tagOf'[t] \in Slugs /\ Published(tagOf'[t])
  <2>1. req[r].slug \in Slugs /\ Published(req[r].slug)
    BY <1>2 DEF Inv, HandlerState, Holds, UploadApply, AddTags
  <2>2. tagOf'[t] \in {tagOf[t], None, req[r].slug}
    BY <1>2 DEF UploadApply, ApplyUploadTags, AddTags
  <2>3. QED
    BY <1>2, <2>1, <2>2
<1>3. CASE tagOf'[t] # tagOf[t]
  <2>1. PICK r \in Reqs : UploadApply(r) \/ AddTags(r)
    BY <1>3, RowWriters
       DEF Inv, TypeOK, db, UploadReserve, UploadFinalize, UploadFinalizeUnread,
           FinalizeUpload, UploadAbort, UploadUntag, DeleteFile, RemoveTag
  <2>2. QED
    BY <1>2, <1>3, <2>1, RowsOneWay
<1>4. QED
  BY <1>1, <1>3

\* An upload that may not supersede a file has seen none of its name, and supersedes
\* none of those it has seen.
LEMMA UnprivilegedStep == Inv /\ [Next]_vars => UnprivilegedKeepsFiles'
<1> SUFFICES ASSUME Inv, [Next]_vars, NEW q \in Reqs,
                    "file:delete" \notin req'[q].perms
             PROVE  req'[q].repl \notin req'[q].seen
  BY DEF UnprivilegedKeepsFiles
<1> USE DEF Inv, TypeOK, Request, Continue, UnprivilegedKeepsFiles
<1>1. CASE UNCHANGED req
  BY <1>1
<1>2. CASE Restart
  BY <1>2 DEF Restart, Idle
<1>3. ASSUME NEW r \in Reqs, ShortLink(r) \/ FilenameURL(r) \/ TagDownload(r)
      PROVE  req'[q].repl \notin req'[q].seen
  <2>1. PICK s \in LiveSlugs : Resolved(r, s)
    BY <1>3 DEF ShortLink, FilenameURL, TagDownload, Latest, LiveNamed
  <2>2. QED
    BY <2>1 DEF Resolved, Idle
<1>4. ASSUME NEW r \in Reqs, DeleteFile(r) \/ AddTagsCheck(r) \/ Answer(r)
      PROVE  req'[q].repl \notin req'[q].seen
  <2>1. CASE DeleteFile(r)
    BY <2>1 DEF DeleteFile, Idle
  <2>2. CASE AddTagsCheck(r)
    BY <2>2 DEF AddTagsCheck, Idle
  <2>3. CASE Answer(r)
    BY <2>3 DEF Answer, Idle
  <2>4. QED
    BY <1>4, <2>1, <2>2, <2>3
<1>5. ASSUME NEW r \in Reqs, UploadCheck(r)
      PROVE  req'[q].repl \notin req'[q].seen
  BY <1>5, FileStoreAssumption DEF UploadCheck, Idle, LiveNamed, LiveSlugs
<1>6. ASSUME NEW r \in Reqs, UploadReserve(r)
      PROVE  req'[q].repl \notin req'[q].seen
  BY <1>6, FileStoreAssumption
     DEF HandlerState, MaySupersede, UploadReserve, Replaceable, LiveNamed, LiveSlugs
<1>7. ASSUME NEW r \in Reqs, UploadPutDone(r) \/ UploadAuthorised(r) \/ ReadTagOwner(r)
      PROVE  req'[q].repl \notin req'[q].seen
  <2>1. CASE UploadPutDone(r)
    BY <2>1 DEF UploadPutDone
  <2>2. CASE ReadTagOwner(r)
    BY <2>2 DEF ReadTagOwner
  <2>3. CASE UploadAuthorised(r)
    BY <2>3 DEF UploadAuthorised
  <2>4. QED
    BY <1>7, <2>1, <2>2, <2>3
<1>8. ASSUME NEW r \in Reqs, NEW pc \in PC \ {"open", "reserve"}, Goto(r, pc)
      PROVE  req'[q].repl \notin req'[q].seen
  BY <1>8 DEF Goto
<1>9. QED
  BY <1>1, <1>2, <1>3, <1>4, <1>5, <1>6, <1>7, <1>8, HandlerMoves

-----------------------------------------------------------------------------

\* The invariant is inductive.
LEMMA InvHolds == Spec => []Inv
<1>1. Init => Inv
  BY FileStoreAssumption, IdleType
     DEF Init, Inv, TypeOK, Status, Blob, HandlerState, Reserved, Holds, LiveIsWhole,
         DownloadIsWhole, TagsOnPublished, UnprivilegedKeepsFiles, Idle
<1>2. Inv /\ [Next]_vars => Inv'
  BY TypeStep, HandlerStep, LiveIsWholeStep, DownloadIsWholeStep, TagsOnPublishedStep,
     UnprivilegedStep DEF Inv
<1>3. QED
  BY <1>1, <1>2, PTL DEF Spec

\* Whatever the interleaving, the failures and the restarts: a file shown as live has
\* all its bytes.
THEOREM LiveFilesAreWhole == Spec => []LiveIsWhole
<1>1. Inv => LiveIsWhole
  BY DEF Inv
<1>2. QED
  BY <1>1, InvHolds, PTL

\* A download serves the complete file or answers 404.
THEOREM DownloadsAreWhole == Spec => []DownloadIsWhole
<1>1. Inv => DownloadIsWhole
  BY DEF Inv
<1>2. QED
  BY <1>1, InvHolds, PTL

\* No tag points at a file whose upload was never published.
THEOREM TagsPointAtPublishedFiles == Spec => []TagsOnPublished
<1>1. Inv => TagsOnPublished
  BY DEF Inv
<1>2. QED
  BY <1>1, InvHolds, PTL

\* An upload without file:delete never retires a file of its name that was live when it
\* was asked for.
THEOREM UnprivilegedUploadsKeepFiles == Spec => []UnprivilegedKeepsFiles
<1>1. Inv => UnprivilegedKeepsFiles
  BY DEF Inv
<1>2. QED
  BY <1>1, InvHolds, PTL

\* What each handler relies on between two of its calls holds whatever the others do.
THEOREM HandlersKeepTheirState == Spec => []HandlerState
<1>1. Inv => HandlerState
  BY DEF Inv
<1>2. QED
  BY <1>1, InvHolds, PTL

-----------------------------------------------------------------------------
(* FileStore implements Catalogue. *)

\* Bytes that go away, or are being written over, under a slug that is not live.
LEMMA ReclaimRefines ==
  ASSUME TypeOK, UNCHANGED db,
         NEW s \in Slugs, status[s] # "live",
         NEW b \in {"none", "partial"}, blob' = [blob EXCEPT ![s] = b]
  PROVE  Promise!Next
<1>1. Promise!Reclaim(s)
  BY DEF Promise!Reclaim, TypeOK, Stored, db
<1>2. QED
  BY <1>1 DEF Promise!Next

\* A database write is a step of the catalogue, or none of its business.
LEMMA RowStepRefines ==
  ASSUME Inv, [Next]_vars, UNCHANGED blob
  PROVE  [Promise!Next]_(Promise!vars)
<1>1. CASE UNCHANGED db
  BY <1>1 DEF db, Promise!vars, Stored
<1>2. ASSUME NEW r \in Reqs, UploadReserve(r)
      PROVE  Promise!Next
  <2>1. req[r].name \in Names
    BY <1>2 DEF Inv, HandlerState, UploadReserve
  <2>2. PICK s \in Slugs : /\ status[s] = "free"
                           /\ status' = [status EXCEPT ![s] = "pending"]
                           /\ nameOf' = [nameOf EXCEPT ![s] = req[r].name]
    BY <1>2 DEF UploadReserve, UniqueSlugs
  <2>3. UNCHANGED <<Stored, successor>>
    BY <1>2 DEF UploadReserve, Stored
  <2>4. Promise!Reserve(s, req[r].name)
    BY <2>2, <2>3 DEF Promise!Reserve
  <2>5. QED
    BY <2>1, <2>4 DEF Promise!Next
<1>3. ASSUME NEW r \in Reqs, UploadFinalize(r) \/ UploadFinalizeUnread(r)
      PROVE  Promise!Next
  <2>1. /\ req[r].slug \in Slugs
        /\ status[req[r].slug] = "pending"
        /\ blob[req[r].slug] = "whole"
    BY <1>3 DEF Inv, HandlerState, Reserved, UploadFinalize, UploadFinalizeUnread
  <2>2. Promise!Publish(req[r].slug)
    BY <1>3, <2>1 DEF Inv, TypeOK, Stored, UploadFinalize, UploadFinalizeUnread, FinalizeUpload,
                      Promise!Publish
  <2>3. QED
    BY <2>1, <2>2 DEF Promise!Next
<1>4. ASSUME NEW r \in Reqs, UploadApply(r)
      PROVE  [Promise!Next]_(Promise!vars)
  <2> DEFINE new == req[r].slug
             old == req[r].repl
  <2>1. new \in Slugs /\ Published(new)
    BY <1>4 DEF Inv, HandlerState, Holds, UploadApply
  <2>2. old # None => /\ old \in Slugs /\ old # new /\ Published(old)
                      /\ nameOf[old] = nameOf[new]
    BY <1>4 DEF Inv, TypeOK, HandlerState, Request
  <2>3. /\ status' = [s \in Slugs |-> IF s = old THEN "deleted" ELSE status[s]]
        /\ successor' = [s \in Slugs |-> IF s = old /\ status[s] = "live" THEN new
                                         ELSE successor[s]]
        /\ UNCHANGED <<nameOf, Stored>>
    BY <1>4 DEF UploadApply, ApplyUploadTags, Stored
  <2> HIDE DEF new, old
  <2>4. CASE old # None /\ status[old] = "live"
    <3>1. new \in Stored \/ status[new] = "deleted"
      BY <2>1 DEF Inv, LiveIsWhole, Published, Stored
    <3>2. Promise!Supersede(old, new)
      BY <2>1, <2>2, <2>3, <2>4, <3>1 DEF Inv, TypeOK, Promise!Supersede, Published
    <3>3. QED
      BY <2>1, <2>2, <2>4, <3>2 DEF Promise!Next
  <2>5. CASE ~(old # None /\ status[old] = "live")
    <3>1. \A s \in Slugs : s = old => status[s] = "deleted"
      BY <2>2, <2>5, FileStoreAssumption DEF Published
    <3>2. status' = status /\ successor' = successor
      BY <2>3, <3>1 DEF Inv, TypeOK
    <3>3. QED
      BY <2>3, <3>2 DEF Promise!vars
  <2>6. QED
    BY <2>4, <2>5
<1>5. ASSUME NEW r \in Reqs, UploadAbort(r)
      PROVE  Promise!Next
  <2>1. req[r].slug \in Slugs /\ status[req[r].slug] = "pending"
    BY <1>5 DEF Inv, HandlerState, Reserved, UploadAbort
  <2>2. Promise!Abandon(req[r].slug)
    BY <1>5, <2>1 DEF UploadAbort, Stored, Promise!Abandon
  <2>3. QED
    BY <2>1, <2>2 DEF Promise!Next
<1>6. ASSUME NEW r \in Reqs, DeleteFile(r)
      PROVE  Promise!Next
  <2>1. PICK s \in LiveSlugs : status' = [status EXCEPT ![s] = "deleted"]
    BY <1>6 DEF DeleteFile
  <2>2. Promise!Delete(s)
    BY <1>6, <2>1 DEF DeleteFile, LiveSlugs, Stored, Promise!Delete
  <2>3. QED
    BY <2>2 DEF LiveSlugs, Promise!Next
<1>7. ASSUME NEW r \in Reqs, UploadUntag(r) \/ AddTags(r) \/ RemoveTag(r)
      PROVE  UNCHANGED Promise!vars
  BY <1>7 DEF UploadUntag, AddTags, RemoveTag, Stored, Promise!vars
<1>8. QED
  BY <1>1, <1>2, <1>3, <1>4, <1>5, <1>6, <1>7, RowWriters

\* So is a write to the blob store.
LEMMA BlobStepRefines ==
  ASSUME Inv, [Next]_vars, UNCHANGED db
  PROVE  [Promise!Next]_(Promise!vars)
<1>1. CASE UNCHANGED blob
  BY <1>1 DEF db, Promise!vars, Stored
<1>2. ASSUME NEW r \in Reqs, UploadPutDone(r)
      PROVE  Promise!Next
  <2>1. req[r].slug \in Slugs /\ status[req[r].slug] = "pending"
    BY <1>2 DEF Inv, HandlerState, Reserved, UploadPutDone
  <2>2. Promise!Store(req[r].slug)
    BY <1>2, <2>1 DEF Inv, TypeOK, Stored, db, UploadPutDone, Promise!Store
  <2>3. QED
    BY <2>1, <2>2 DEF Promise!Next
<1>3. ASSUME NEW r \in Reqs, UploadPutStart(r) \/ UploadPutFails(r) \/ UploadDiscardBlob(r)
      PROVE  Promise!Next
  <2>1. /\ req[r].slug \in Slugs
        /\ status[req[r].slug] = "pending"
    BY <1>3 DEF Inv, HandlerState, Reserved, UploadPutStart, UploadPutFails, UploadDiscardBlob
  <2>2. PICK b \in {"none", "partial"} : blob' = [blob EXCEPT ![req[r].slug] = b]
    BY <1>3 DEF UploadPutStart, UploadPutFails, UploadDiscardBlob
  <2>3. status[req[r].slug] # "live"
    BY <2>1
  <2>4. QED
    BY <2>1, <2>2, <2>3, ReclaimRefines DEF Inv
<1>4. ASSUME NEW r \in Reqs, DeleteBlob(r)
      PROVE  Promise!Next
  <2>1. /\ req[r].slug \in Slugs
        /\ status[req[r].slug] # "live"
    BY <1>4 DEF Inv, HandlerState, Holds, DeleteBlob
  <2>2. blob' = [blob EXCEPT ![req[r].slug] = "none"]
    BY <1>4 DEF DeleteBlob
  <2>3. QED
    BY <2>1, <2>2, ReclaimRefines DEF Inv
<1>5. ASSUME NEW r \in Reqs, UploadReclaim(r)
      PROVE  [Promise!Next]_(Promise!vars)
  <2>1. blob' = [s \in Slugs |-> IF s = req[r].repl THEN "none" ELSE blob[s]]
    BY <1>5 DEF UploadReclaim
  <2>2. CASE req[r].repl = None
    <3>1. blob' = blob
      BY <2>1, <2>2, FileStoreAssumption DEF Inv, TypeOK
    <3>2. QED
      BY <1>1, <3>1
  <2>3. CASE req[r].repl # None
    <3>1. /\ req[r].repl \in Slugs
          /\ status[req[r].repl] # "live"
      BY <1>5, <2>3 DEF Inv, TypeOK, HandlerState, Request, UploadReclaim
    <3>2. blob' = [blob EXCEPT ![req[r].repl] = "none"]
      BY <2>1 DEF Inv, TypeOK
    <3>3. QED
      BY <3>1, <3>2, ReclaimRefines DEF Inv
  <2>4. QED
    BY <2>2, <2>3
<1>6. ASSUME NEW r \in Reqs, UploadPutLeaves(r)
      PROVE  Promise!Next
  <2>1. /\ req[r].slug \in Slugs
        /\ status[req[r].slug] = "pending"
    BY <1>6 DEF Inv, HandlerState, Reserved, UploadPutLeaves
  <2>2. CASE blob' = [blob EXCEPT ![req[r].slug] = "partial"]
    BY <2>1, <2>2, ReclaimRefines DEF Inv
  <2>3. CASE blob' = [blob EXCEPT ![req[r].slug] = "whole"]
    <3>1. Promise!Store(req[r].slug)
      BY <2>1, <2>3 DEF Inv, TypeOK, Stored, db, Promise!Store
    <3>2. QED
      BY <2>1, <3>1 DEF Promise!Next
  <2>4. QED
    BY <1>6, <2>2, <2>3 DEF UploadPutLeaves
<1>7. QED
  BY <1>1, <1>2, <1>3, <1>4, <1>5, <1>6, BlobWriters

\* No handler writes to both stores in one step.
LEMMA OneStoreAtATime ==
  ASSUME [Next]_vars
  PROVE  UNCHANGED db \/ UNCHANGED blob
<1>1. ASSUME NEW r \in Reqs,
             \/ UploadReserve(r) \/ UploadFinalize(r) \/ UploadFinalizeUnread(r)
             \/ UploadApply(r) \/ UploadAbort(r) \/ UploadUntag(r)
             \/ DeleteFile(r) \/ AddTags(r) \/ RemoveTag(r)
      PROVE  UNCHANGED blob
  BY <1>1 DEF UploadReserve, UploadFinalize, UploadFinalizeUnread, UploadApply, UploadAbort,
              UploadUntag, DeleteFile, AddTags, RemoveTag
<1>2. QED
  BY <1>1, RowWriters

\* The handlers keep the promise made to the holder of a short link: slugs are never
\* reused, published files keep their bytes, and a file is superseded only by a
\* published file of its name.
THEOREM ImplementsCatalogue == Spec => CatalogueSpec
<1>1. Init => Promise!Init
  BY DEF Init, Promise!Init, Stored
<1>2. Inv /\ [Next]_vars => [Promise!Next]_(Promise!vars)
  BY RowStepRefines, BlobStepRefines, OneStoreAtATime
<1>3. QED
  BY <1>1, <1>2, InvHolds, PTL DEF Spec, CatalogueSpec, Promise!Spec
=============================================================================
