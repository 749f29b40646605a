------------------------- MODULE FileStoreKeepProofs -------------------------
(***************************************************************************)
(* What FileStore's handlers keep and what they clear away, for every set   *)
(* of names, slugs, tags, requests and permissions: append-only mode loses  *)
(* no file, no interleaving leaves bytes or a pending row behind, what      *)
(* failures and crashes leave behind is counted, a file that goes takes its *)
(* tags along, and an upload outranks the files it found.                  *)
(***************************************************************************)
EXTENDS FileStoreProofs, FiniteSetTheorems

\* Only the request that acts changes its local variables.
LEMMA ActsAlone ==
  ASSUME NEW r \in Reqs, Arrive(r) \/ Step(r)
  PROVE  UNCHANGED req \/ \E q : Continue(r, q)
<1>1. ASSUME Arrive(r) PROVE UNCHANGED req \/ \E q : Continue(r, q)
  BY <1>1 DEF Arrive, UploadCheck, DeleteFile, AddTagsCheck, RemoveTag, ShortLink, FilenameURL,
              TagDownload, Resolved
<1>2. (\E pc : Goto(r, pc)) \/ Answer(r) => \E q : Continue(r, q)
  BY DEF Goto, Answer
<1>3. ASSUME Upload(r)
      PROVE  (\E q : Continue(r, q)) \/ (\E pc : Goto(r, pc)) \/ Answer(r)
  BY <1>3
     DEF Upload, UploadReserve, UploadReserveFails, UploadPutStart, UploadPutDone,
         UploadPutFails, UploadPutLeaves, UploadRejected, UploadAuthorised,
         UploadFinalize, UploadFinalizeFails, UploadFinalizeUnread, UploadApply,
         UploadApplyFails, UploadReclaim, UploadReclaimFails, UploadDiscardBlob,
         UploadDiscardBlobFails, UploadAbort, UploadUntag, UploadAbortFails
<1>4. ASSUME Step(r), ~Upload(r)
      PROVE  (\E q : Continue(r, q)) \/ Answer(r)
  BY <1>4 DEF Step, DeleteBlob, DeleteBlobFails, ReadTagOwner, AddTags, AddTagsRefused, ServeFile
<1>5. QED
  BY <1>1, <1>2, <1>3, <1>4

\* A request whose local variables change took the step, or died with the process.
LEMMA WhoseStep ==
  ASSUME TypeOK, [Next]_vars, NEW q \in Reqs, req'[q] # req[q]
  PROVE  Restart \/ Arrive(q) \/ Step(q)
<1>1. CASE Tick \/ UNCHANGED vars
  BY <1>1 DEF Tick, vars
<1>2. ASSUME NEW r \in Reqs, Arrive(r) \/ Step(r)
      PROVE  r = q
  <2>1. PICK e : Continue(r, e)
    BY <1>2, ActsAlone
  <2>2. QED
    BY <2>1 DEF TypeOK, Continue
<1>3. QED
  BY <1>1, <1>2 DEF Next

-----------------------------------------------------------------------------
(* Nothing is left behind *)

\* A request that accounts for bytes goes on to do so until they are live or gone, unless
\* a call fails.
LEMMA AccountStays ==
  ASSUME Inv, [Next]_vars, ~Fault, NEW q \in Reqs, NEW s \in Slugs,
         Accounts(q, s), blob'[s] # "none", status'[s] # "live"
  PROVE  Accounts(q, s)'
<1> USE DEF Inv, TypeOK, Accounts, Request, Continue, Goto, Answer, Idle
<1>1. CASE req'[q] = req[q]
  BY <1>1
<1>2. CASE Restart \/ Arrive(q)
  BY <1>2 DEF Restart, Arrive, UploadCheck, DeleteFile, AddTagsCheck, RemoveTag,
                    ShortLink, FilenameURL, TagDownload
<1>3. CASE UploadPutDone(q)
  BY <1>3 DEF UploadPutDone
<1>4. CASE UploadPutFails(q) \/ UploadRejected(q)
  BY <1>4 DEF UploadPutFails, UploadRejected
<1>5. CASE UploadAuthorised(q)
  BY <1>5 DEF UploadAuthorised
<1>6. CASE ReadTagOwner(q)
  BY <1>6 DEF ReadTagOwner
<1>7. CASE UploadFinalize(q)
  <2>1. req[q].slug = s /\ status[s] = "pending"
    BY <1>7 DEF UploadFinalize, HandlerState, Reserved
  <2>2. QED
    BY <1>7, <2>1 DEF UploadFinalize, FinalizeUpload
<1>8. CASE UploadReclaim(q)
  BY <1>8 DEF UploadReclaim
<1>9. CASE UploadDiscardBlob(q) \/ DeleteBlob(q)
  BY <1>9 DEF UploadDiscardBlob, DeleteBlob
<1>10. CASE \/ UploadPutLeaves(q) \/ UploadFinalizeFails(q) \/ UploadFinalizeUnread(q)
            \/ UploadReclaimFails(q) \/ UploadDiscardBlobFails(q) \/ DeleteBlobFails(q)
            \/ UploadApplyFails(q) \/ UploadAbortFails(q)
  BY <1>10 DEF UploadPutLeaves, UploadFinalizeFails, UploadFinalizeUnread,
                     UploadReclaimFails, UploadDiscardBlobFails, DeleteBlobFails,
                     UploadApplyFails, UploadAbortFails
<1>11. CASE \/ UploadReserve(q) \/ UploadReserveFails(q) \/ UploadPutStart(q)
            \/ UploadApply(q) \/ UploadAbort(q) \/ UploadUntag(q)
            \/ AddTags(q) \/ AddTagsRefused(q) \/ ServeFile(q)
  BY <1>11 DEF UploadReserve, UploadReserveFails, UploadPutStart, UploadApply, UploadAbort,
               UploadUntag, AddTags, AddTagsRefused, ServeFile
<1>12. QED
  BY <1>1, <1>2, <1>3, <1>4, <1>5, <1>6, <1>7, <1>8, <1>9, <1>10, <1>11, WhoseStep
     DEF Step, Upload

\* Bytes appear under an uploader's key, and a live file is retired by a request that
\* takes its bytes away next.
LEMMA NewlyAccounted ==
  ASSUME Inv, [Next]_vars, NEW s \in Slugs,
         blob[s] = "none" \/ status[s] = "live",
         blob'[s] # "none", status'[s] # "live"
  PROVE  \E q \in Reqs : Accounts(q, s)'
<1> USE DEF Inv, TypeOK, Accounts, Request, Continue, Goto
<1>1. CASE blob[s] = "none"
  <2>1. PICK r \in Reqs : \/ UploadPutStart(r) \/ UploadPutDone(r) \/ UploadPutFails(r)
                          \/ UploadPutLeaves(r) \/ UploadReclaim(r)
                          \/ UploadDiscardBlob(r) \/ DeleteBlob(r)
    BY <1>1, BlobWriters
  <2>2. CASE UploadPutStart(r)
    BY <1>1, <2>2 DEF UploadPutStart
  <2>3. CASE UploadPutDone(r)
    BY <1>1, <2>3 DEF UploadPutDone
  <2>4. CASE UploadPutFails(r) \/ UploadReclaim(r) \/ UploadDiscardBlob(r) \/ DeleteBlob(r)
    BY <1>1, <2>4 DEF UploadPutFails, UploadReclaim, UploadDiscardBlob, DeleteBlob
  <2>5. CASE UploadPutLeaves(r)
    BY <1>1, <2>5 DEF UploadPutLeaves
  <2>6. QED
    BY <2>1, <2>2, <2>3, <2>4, <2>5
<1>2. CASE status[s] = "live"
  <2>1. PICK r \in Reqs : \/ UploadReserve(r) \/ UploadFinalize(r) \/ UploadFinalizeUnread(r)
                          \/ UploadApply(r) \/ UploadAbort(r) \/ UploadUntag(r)
                          \/ DeleteFile(r) \/ AddTags(r) \/ RemoveTag(r)
    BY <1>2, RowWriters DEF db
  <2>2. CASE UploadApply(r)
    BY <1>2, <2>2 DEF UploadApply, ApplyUploadTags
  <2>3. CASE DeleteFile(r)
    BY <1>2, <2>3 DEF DeleteFile, Idle
  <2>4. CASE UploadReserve(r)
    BY <1>2, <2>4 DEF UploadReserve, UniqueSlugs
  <2>5. CASE UploadFinalize(r) \/ UploadFinalizeUnread(r)
    BY <1>2, <2>5 DEF UploadFinalize, UploadFinalizeUnread, FinalizeUpload
  <2>6. CASE UploadAbort(r)
    BY <1>2, <2>6 DEF UploadAbort, HandlerState, Reserved
  <2>7. CASE UploadUntag(r) \/ AddTags(r) \/ RemoveTag(r)
    BY <1>2, <2>7 DEF UploadUntag, AddTags, RemoveTag
  <2>8. QED
    BY <2>1, <2>2, <2>3, <2>4, <2>5, <2>6, <2>7
<1>3. QED
  BY <1>1, <1>2

\* The slug request r works on: the one whose bytes, or row, it may leave behind.
WorksOn == [r \in Reqs |-> IF req[r].pc = "reclaim" THEN req[r].repl ELSE req[r].slug]
WorkedOn == {WorksOn[r] : r \in Reqs}

LEMMA WorkedOnFinite ==
  /\ IsFiniteSet(WorkedOn) /\ Cardinality(WorkedOn) \in Nat
  /\ Cardinality(WorkedOn) <= Cardinality(Reqs)
<1>1. WorksOn \in Surjection(Reqs, WorkedOn)
  BY DEF WorkedOn, WorksOn, Surjection
<1>2. IsFiniteSet(Reqs)
  BY FileStoreAssumption
<1>3. QED
  BY <1>1, <1>2, FS_Surjection, FS_CardinalityType

\* What was left behind stays counted when nothing more is, or when a failure leaves at
\* most what the requests were working on.
LEMMA LeftBehind ==
  ASSUME NEW L, NEW M, NEW n \in Nat, IsFiniteSet(L), Cardinality(L) <= n * Cardinality(Reqs)
  PROVE  /\ M \subseteq L => IsFiniteSet(M) /\ Cardinality(M) <= n * Cardinality(Reqs)
         /\ M \subseteq L \cup WorkedOn =>
              IsFiniteSet(M) /\ Cardinality(M) <= (n + 1) * Cardinality(Reqs)
<1> DEFINE k == Cardinality(Reqs)
           u == Cardinality(L \cup WorkedOn)
<1>1. k \in Nat /\ Cardinality(L) \in Nat
  BY FileStoreAssumption, FS_CardinalityType
<1>2. IsFiniteSet(L \cup WorkedOn) /\ u <= Cardinality(L) + Cardinality(WorkedOn)
  <2>1. /\ IsFiniteSet(L \cup WorkedOn)
        /\ u = Cardinality(L) + Cardinality(WorkedOn) - Cardinality(L \cap WorkedOn)
    BY WorkedOnFinite, FS_Union
  <2>2. Cardinality(L \cap WorkedOn) \in Nat
    BY FS_Intersection, FS_CardinalityType
  <2> HIDE DEF u
  <2>3. QED
    BY <1>1, <2>1, <2>2, WorkedOnFinite
<1>3. (n + 1) * k = n * k + k /\ n * k \in Nat
  BY <1>1
<1>4. u \in Nat
  BY <1>2, FS_CardinalityType
<1> HIDE DEF k, u
<1>5. ASSUME M \subseteq L
      PROVE  IsFiniteSet(M) /\ Cardinality(M) <= n * Cardinality(Reqs)
  <2>1. IsFiniteSet(M) /\ Cardinality(M) <= Cardinality(L) /\ Cardinality(M) \in Nat
    BY <1>5, FS_Subset, FS_CardinalityType
  <2>2. QED
    BY <1>1, <1>3, <2>1 DEF k
<1>6. ASSUME M \subseteq L \cup WorkedOn
      PROVE  IsFiniteSet(M) /\ Cardinality(M) <= (n + 1) * Cardinality(Reqs)
  <2>1. IsFiniteSet(M) /\ Cardinality(M) <= u /\ Cardinality(M) \in Nat
    BY <1>2, <1>6, FS_Subset, FS_CardinalityType DEF u
  <2>2. u <= n * k + k
    BY <1>1, <1>2, <1>3, <1>4, WorkedOnFinite DEF k
  <2>3. QED
    BY <1>1, <1>3, <1>4, <2>1, <2>2 DEF k
<1>7. QED
  BY <1>5, <1>6

\* Bytes left behind were left so before, or by the failure of a request that worked on
\* them.
LEMMA LeakedGrowth ==
  ASSUME Inv, [Next]_vars
  PROVE  /\ ~Fault => Leaked' \subseteq Leaked
         /\ Leaked' \subseteq Leaked \cup WorkedOn
<1> SUFFICES ASSUME NEW s \in Slugs, blob'[s] # "none", status'[s] # "live",
                    \A r \in Reqs : ~Accounts(r, s)', s \notin Leaked
             PROVE  Fault /\ s \in WorkedOn
  BY DEF Leaked
<1>1. PICK q \in Reqs : Accounts(q, s)
  BY NewlyAccounted DEF Leaked
<1>2. Fault
  BY <1>1, AccountStays
<1>3. WorksOn[q] = s
  BY <1>1 DEF Accounts, WorksOn
<1>4. QED
  BY <1>2, <1>3 DEF WorkedOn

\* A pending row is its uploader's until it is published or given up, unless a
\* call fails.
LEMMA PendingStays ==
  ASSUME Inv, [Next]_vars, ~Fault, NEW q \in Reqs, NEW s \in Slugs,
         Reserved(q), req[q].slug = s, status'[s] = "pending"
  PROVE  Reserved(q)' /\ req'[q].slug = s
<1> USE DEF Inv, TypeOK, Reserved, Request, Continue, Goto, Answer, Idle
<1>0. status[s] = "pending"
  BY DEF HandlerState
<1>1. CASE req'[q] = req[q]
  BY <1>1
<1>2. CASE Restart \/ Arrive(q)
  BY <1>2 DEF Restart, Arrive, UploadCheck, DeleteFile, AddTagsCheck, RemoveTag,
                    ShortLink, FilenameURL, TagDownload
<1>3. CASE UploadPutStart(q) \/ UploadPutFails(q) \/ UploadRejected(q) \/ UploadDiscardBlob(q)
  BY <1>3 DEF UploadPutStart, UploadPutFails, UploadRejected, UploadDiscardBlob
<1>4. CASE UploadPutDone(q)
  BY <1>4 DEF UploadPutDone
<1>5. CASE UploadAuthorised(q)
  BY <1>5 DEF UploadAuthorised
<1>6. CASE ReadTagOwner(q)
  BY <1>6 DEF ReadTagOwner
<1>7. CASE UploadFinalize(q)
  BY <1>0, <1>7 DEF UploadFinalize, FinalizeUpload
<1>8. CASE UploadAbort(q)
  BY <1>8 DEF UploadAbort
<1>9. CASE \/ UploadPutLeaves(q) \/ UploadFinalizeFails(q) \/ UploadFinalizeUnread(q)
           \/ UploadReclaimFails(q) \/ UploadDiscardBlobFails(q) \/ DeleteBlobFails(q)
           \/ UploadApplyFails(q) \/ UploadAbortFails(q)
  BY <1>9 DEF UploadPutLeaves, UploadFinalizeFails, UploadFinalizeUnread,
                    UploadReclaimFails, UploadDiscardBlobFails, DeleteBlobFails,
                    UploadApplyFails, UploadAbortFails
<1>10. CASE \/ UploadReserve(q) \/ UploadReserveFails(q) \/ UploadApply(q) \/ UploadReclaim(q)
            \/ UploadUntag(q) \/ DeleteBlob(q) \/ AddTags(q) \/ AddTagsRefused(q)
            \/ ServeFile(q)
  BY <1>10 DEF UploadReserve, UploadReserveFails, UploadApply, UploadReclaim, UploadUntag,
               DeleteBlob, AddTags, AddTagsRefused, ServeFile
<1>11. QED
  BY <1>1, <1>2, <1>3, <1>4, <1>5, <1>6, <1>7, <1>8, <1>9, <1>10, WhoseStep DEF Step, Upload

\* Only reserveUpload inserts a pending row.
LEMMA NewlyPending ==
  ASSUME Inv, [Next]_vars, NEW s \in Slugs, status[s] # "pending", status'[s] = "pending"
  PROVE  \E q \in Reqs : Reserved(q)' /\ req'[q].slug = s
<1> USE DEF Inv, TypeOK, Request
<1>1. PICK r \in Reqs : \/ UploadReserve(r) \/ UploadFinalize(r) \/ UploadFinalizeUnread(r)
                        \/ UploadApply(r) \/ UploadAbort(r) \/ UploadUntag(r)
                        \/ DeleteFile(r) \/ AddTags(r) \/ RemoveTag(r)
  BY RowWriters DEF db
<1>2. CASE UploadReserve(r)
  BY <1>2 DEF UploadReserve, UniqueSlugs, Reserved, Continue
<1>3. CASE UploadFinalize(r) \/ UploadFinalizeUnread(r)
  BY <1>3 DEF UploadFinalize, UploadFinalizeUnread, FinalizeUpload
<1>4. CASE UploadApply(r)
  BY <1>4 DEF UploadApply, ApplyUploadTags
<1>5. CASE UploadAbort(r) \/ DeleteFile(r)
  BY <1>5 DEF UploadAbort, DeleteFile
<1>6. CASE UploadUntag(r) \/ AddTags(r) \/ RemoveTag(r)
  BY <1>6 DEF UploadUntag, AddTags, RemoveTag
<1>7. QED
  BY <1>1, <1>2, <1>3, <1>4, <1>5, <1>6

\* So were rows.
LEMMA StuckGrowth ==
  ASSUME Inv, [Next]_vars
  PROVE  /\ ~Fault => Stuck' \subseteq Stuck
         /\ Stuck' \subseteq Stuck \cup WorkedOn
<1> SUFFICES ASSUME NEW s \in Slugs, status'[s] = "pending",
                    \A r \in Reqs : Reserved(r)' => req'[r].slug # s, s \notin Stuck
             PROVE  Fault /\ s \in WorkedOn
  BY DEF Stuck
<1>1. PICK q \in Reqs : Reserved(q) /\ req[q].slug = s
  BY NewlyPending DEF Stuck
<1>2. Fault
  BY <1>1, PendingStays
<1>3. WorksOn[q] = s
  BY <1>1 DEF Reserved, WorksOn
<1>4. QED
  BY <1>2, <1>3 DEF WorkedOn

\* The invariant: what is left behind is finite, and counted.
AccountInv ==
  /\ IsFiniteSet(Leaked) /\ BlobsAccounted
  /\ IsFiniteSet(Stuck) /\ PendingAccounted

LEMMA AccountHolds == Spec => []AccountInv
<1>1. Init => AccountInv
  <2> SUFFICES ASSUME Init PROVE AccountInv
    OBVIOUS
  <2>1. Leaked = {} /\ Stuck = {} /\ faults = 0
    BY DEF Init, Leaked, Stuck
  <2>2. Cardinality(Reqs) \in Nat
    BY FileStoreAssumption, FS_CardinalityType
  <2>3. 0 <= 0 * Cardinality(Reqs)
    BY <2>2
  <2>4. QED
    BY <2>1, <2>3, FS_EmptySet DEF AccountInv, BlobsAccounted, PendingAccounted
<1>2. Inv /\ AccountInv /\ [Next]_vars => AccountInv'
  <2> SUFFICES ASSUME Inv, AccountInv, [Next]_vars PROVE AccountInv'
    OBVIOUS
  <2>1. faults \in Nat
    BY FileStoreAssumption DEF Inv, TypeOK
  <2>2. CASE faults' = faults
    <3>1. ~Fault
      BY <2>1, <2>2 DEF Fault
    <3>2. Leaked' \subseteq Leaked /\ Stuck' \subseteq Stuck
      BY <3>1, LeakedGrowth, StuckGrowth
    <3>3. IsFiniteSet(Leaked') /\ Cardinality(Leaked') <= faults * Cardinality(Reqs)
      BY <2>1, <3>2, LeftBehind DEF AccountInv, BlobsAccounted
    <3>4. IsFiniteSet(Stuck') /\ Cardinality(Stuck') <= faults * Cardinality(Reqs)
      BY <2>1, <3>2, LeftBehind DEF AccountInv, PendingAccounted
    <3>5. QED
      BY <2>2, <3>3, <3>4 DEF AccountInv, BlobsAccounted, PendingAccounted
  <2>3. CASE faults' = faults + 1
    <3>1. Leaked' \subseteq Leaked \cup WorkedOn /\ Stuck' \subseteq Stuck \cup WorkedOn
      BY LeakedGrowth, StuckGrowth
    <3>2. IsFiniteSet(Leaked') /\ Cardinality(Leaked') <= (faults + 1) * Cardinality(Reqs)
      BY <2>1, <3>1, LeftBehind DEF AccountInv, BlobsAccounted
    <3>3. IsFiniteSet(Stuck') /\ Cardinality(Stuck') <= (faults + 1) * Cardinality(Reqs)
      BY <2>1, <3>1, LeftBehind DEF AccountInv, PendingAccounted
    <3>4. QED
      BY <2>3, <3>2, <3>3 DEF AccountInv, BlobsAccounted, PendingAccounted
  <2>4. QED
    BY <2>2, <2>3, CounterSteps DEF Fault
<1>3. QED
  BY <1>1, <1>2, InvHolds, PTL DEF Spec

\* Whatever the interleaving, the bytes left behind are at most one slug's for each
\* request that may be under way and each failure or crash there has been.
THEOREM LeaksAreCounted == Spec => []BlobsAccounted
<1>1. AccountInv => BlobsAccounted
  BY DEF AccountInv
<1>2. QED
  BY <1>1, AccountHolds, PTL

\* And so are the pending rows left behind.
THEOREM StuckRowsAreCounted == Spec => []PendingAccounted
<1>1. AccountInv => PendingAccounted
  BY DEF AccountInv
<1>2. QED
  BY <1>1, AccountHolds, PTL

\* What the two stores owe each other at rest: exactly the live files have bytes, all of
\* them, and no row is pending.
StoresAgree ==
  faults = 0 /\ Quiescent =>
    \A s \in Slugs : /\ status[s] = "live" <=> blob[s] = "whole"
                     /\ status[s] # "live" => blob[s] = "none"
                     /\ status[s] # "pending"

\* Until something fails, database and blob store agree whenever no request is under way,
\* whatever ran concurrently before.
THEOREM AtRestStoresAgree == Spec => []StoresAgree
<1>1. Inv /\ AccountInv => StoresAgree
  <2> SUFFICES ASSUME Inv, AccountInv, faults = 0, Quiescent, NEW s \in Slugs
               PROVE  /\ status[s] = "live" <=> blob[s] = "whole"
                      /\ status[s] # "live" => blob[s] = "none"
                      /\ status[s] # "pending"
    BY DEF StoresAgree
  <2>1. Cardinality(Reqs) \in Nat /\ Cardinality(Leaked) \in Nat /\ Cardinality(Stuck) \in Nat
    BY FileStoreAssumption, FS_CardinalityType DEF AccountInv
  <2>2. Cardinality(Leaked) = 0 /\ Cardinality(Stuck) = 0
    BY <2>1 DEF AccountInv, BlobsAccounted, PendingAccounted
  <2>3. Leaked = {} /\ Stuck = {}
    BY <2>2, FS_EmptySet DEF AccountInv
  <2>4. status[s] = "live" => blob[s] = "whole"
    BY DEF Inv, LiveIsWhole
  <2>5. status[s] # "live" => blob[s] = "none"
    BY <2>3 DEF Leaked, Accounts, Quiescent
  <2>6. status[s] # "pending"
    BY <2>3 DEF Stuck, Reserved, Quiescent
  <2>7. QED
    BY <2>4, <2>5, <2>6
<1>2. QED
  BY <1>1, AccountHolds, InvHolds, PTL

-----------------------------------------------------------------------------
(* Append-only mode *)

\* In append-only mode no upload has a record to supersede.
NothingSuperseded == appendOnly => \A r \in Reqs : req[r].repl = None

\* A request takes a record to supersede from reserveUpload, which offers none.
LEMMA NothingSupersededStep ==
  Inv /\ NothingSuperseded /\ [Next]_vars => NothingSuperseded'
<1> SUFFICES ASSUME Inv, NothingSuperseded, [Next]_vars, appendOnly', NEW q \in Reqs
             PROVE  req'[q].repl = None
  BY DEF NothingSuperseded
<1> USE DEF Inv, TypeOK, Request, Continue, Goto, Answer, Idle, NothingSuperseded
<1>0. CASE Restart
  BY <1>0 DEF Restart
<1> SUFFICES ASSUME appendOnly PROVE req'[q].repl = None
  BY <1>0, ModeSteps
<1>1. CASE UNCHANGED req
  BY <1>1
<1>2. ASSUME NEW r \in Reqs, ShortLink(r) \/ FilenameURL(r) \/ TagDownload(r)
      PROVE  req'[q].repl = None
  <2>1. PICK s \in LiveSlugs : Resolved(r, s)
    BY <1>2 DEF ShortLink, FilenameURL, TagDownload, Latest, LiveNamed
  <2>2. QED
    BY <2>1 DEF Resolved
<1>3. ASSUME NEW r \in Reqs, UploadCheck(r) \/ AddTagsCheck(r) \/ DeleteFile(r)
      PROVE  req'[q].repl = None
  <2>1. CASE UploadCheck(r)
    BY <2>1 DEF UploadCheck
  <2>2. CASE AddTagsCheck(r)
    BY <2>2 DEF AddTagsCheck
  <2>3. CASE DeleteFile(r)
    BY <2>3 DEF DeleteFile
  <2>4. QED
    BY <1>3, <2>1, <2>2, <2>3
<1>4. ASSUME NEW r \in Reqs, UploadReserve(r)
      PROVE  req'[q].repl = None
  BY <1>4 DEF UploadReserve, Replaceable
<1>5. ASSUME NEW r \in Reqs, UploadPutDone(r) \/ UploadAuthorised(r)
      PROVE  req'[q].repl = None
  <2>1. CASE UploadPutDone(r)
    BY <2>1 DEF UploadPutDone
  <2>2. CASE UploadAuthorised(r)
    BY <2>2 DEF UploadAuthorised
  <2>3. QED
    BY <1>5, <2>1, <2>2
<1>6. ASSUME NEW r \in Reqs, ReadTagOwner(r)
      PROVE  req'[q].repl = None
  BY <1>6 DEF ReadTagOwner
<1>7. ASSUME NEW r \in Reqs, Answer(r) \/ \E pc \in PC \ {"open", "reserve"} : Goto(r, pc)
      PROVE  req'[q].repl = None
  BY <1>7
<1>8. QED
  BY <1>0, <1>1, <1>2, <1>3, <1>4, <1>5, <1>6, <1>7, HandlerMoves

\* A file stops being live in two ways: an upload that supersedes it applies, or it is
\* deleted.
LEMMA WhatRetires ==
  ASSUME Inv, [Next]_vars, NEW s \in Slugs, status[s] = "live", status'[s] # "live"
  PROVE  \E r \in Reqs : \/ UploadApply(r) /\ req[r].repl = s
                         \/ DeleteFile(r)
<1> USE DEF Inv, TypeOK
<1>1. PICK r \in Reqs : \/ UploadReserve(r) \/ UploadFinalize(r) \/ UploadFinalizeUnread(r)
                        \/ UploadApply(r) \/ UploadAbort(r) \/ UploadUntag(r)
                        \/ DeleteFile(r) \/ AddTags(r) \/ RemoveTag(r)
  BY RowWriters DEF db
<1>2. CASE UploadReserve(r)
  BY <1>2 DEF UploadReserve, UniqueSlugs
<1>3. CASE UploadFinalize(r) \/ UploadFinalizeUnread(r)
  BY <1>3 DEF UploadFinalize, UploadFinalizeUnread, FinalizeUpload
<1>4. CASE UploadApply(r)
  BY <1>4 DEF UploadApply, ApplyUploadTags
<1>5. CASE UploadAbort(r)
  BY <1>5 DEF UploadAbort, HandlerState, Reserved
<1>6. CASE UploadUntag(r) \/ AddTags(r) \/ RemoveTag(r)
  BY <1>6 DEF UploadUntag, AddTags, RemoveTag
<1>7. QED
  BY <1>1, <1>2, <1>3, <1>4, <1>5, <1>6

\* Append-only mode never takes a published file away, whatever fails, and whichever mode
\* the process was in before.
THEOREM AppendOnlyLosesNothing == Spec => AppendOnlyKeepsFiles
<1>1. Init => NothingSuperseded
  BY DEF Init, NothingSuperseded, Idle
<1>2. Inv /\ NothingSuperseded /\ [Next]_vars
        => [appendOnly => LiveSlugs \subseteq LiveSlugs']_vars
  <2> SUFFICES ASSUME Inv, NothingSuperseded, [Next]_vars, appendOnly,
                      NEW s \in Slugs, status[s] = "live"
               PROVE  status'[s] = "live"
    BY DEF LiveSlugs
  <2>1. ASSUME NEW r \in Reqs PROVE ~DeleteFile(r) /\ req[r].repl # s
    BY FileStoreAssumption DEF DeleteFile, NothingSuperseded
  <2>2. QED
    BY <2>1, WhatRetires
<1>3. QED
  BY <1>1, <1>2, NothingSupersededStep, InvHolds, PTL DEF Spec, AppendOnlyKeepsFiles

-----------------------------------------------------------------------------
(* Tags and the files they describe *)

\* A file that stops being live has no tag left.
LEMMA RetiredUntagged ==
  ASSUME Inv, [Next]_vars, NEW t \in Tags, NEW s \in Slugs,
         status[s] = "live", status'[s] # "live"
  PROVE  tagOf'[t] # s
<1> USE DEF Inv, TypeOK
<1>1. ASSUME NEW r \in Reqs, UploadApply(r), req[r].repl = s
      PROVE  tagOf'[t] # s
  <2>1. req[r].slug # s /\ s # None
    BY <1>1, FileStoreAssumption DEF HandlerState
  <2>2. QED
    BY <1>1, <2>1 DEF UploadApply, ApplyUploadTags
<1>2. ASSUME NEW r \in Reqs, DeleteFile(r)
      PROVE  tagOf'[t] # s
  <2>1. PICK u \in LiveSlugs :
          /\ status' = [status EXCEPT ![u] = "deleted"]
          /\ tagOf' = [x \in Tags |-> IF tagOf[x] = u THEN None ELSE tagOf[x]]
    BY <1>2 DEF DeleteFile
  <2>2. u = s /\ s # None
    BY <2>1, FileStoreAssumption
  <2>3. QED
    BY <2>1, <2>2
<1>3. QED
  BY <1>1, <1>2, WhatRetires

\* A tag is pointed at a file by a request that works on that file and asked for the tag.
LEMMA WhoTags ==
  ASSUME Inv, [Next]_vars, NEW t \in Tags, tagOf'[t] # None, tagOf'[t] # tagOf[t]
  PROVE  \E r \in Reqs : /\ req'[r] # req[r]
                         /\ req[r].pc \in {"apply", "addPerms"}
                         /\ req[r].slug = tagOf'[t] /\ t \in req[r].tags
<1> USE DEF Inv, TypeOK, Request, Continue, Goto, Answer, Idle
<1>1. PICK r \in Reqs : UploadApply(r) \/ AddTags(r)
  BY RowWriters
     DEF db, UploadReserve, UploadFinalize, UploadFinalizeUnread, FinalizeUpload,
         UploadAbort, UploadUntag, DeleteFile, RemoveTag
<1>2. CASE UploadApply(r)
  <2>1. req[r].slug = tagOf'[t] /\ t \in req[r].tags
    BY <1>2 DEF UploadApply, ApplyUploadTags
  <2>2. req[r].pc = "apply" /\ req'[r].pc = "reclaim"
    BY <1>2 DEF UploadApply
  <2>3. QED
    BY <2>1, <2>2
<1>3. CASE AddTags(r)
  <2>1. req[r].slug = tagOf'[t] /\ t \in req[r].tags
    BY <1>3 DEF AddTags
  <2>2. req[r].pc = "addPerms" /\ req'[r].pc = "idle"
    BY <1>3 DEF AddTags
  <2>3. QED
    BY <2>1, <2>2
<1>4. QED
  BY <1>1, <1>2, <1>3

\* Whatever retires a file takes its tags along in the same step: only a request that had
\* seen the file live, or published it, can put a tag on it afterwards.
THEOREM TagsLeaveWithTheirFile == Spec => TagsGoWithFiles
<1>1. Inv /\ [Next]_vars =>
        [\A t \in Tags : tagOf'[t] # None /\ status'[tagOf'[t]] # "live" =>
           /\ status[tagOf'[t]] # "live"
           /\ tagOf[t] # tagOf'[t] =>
                \E r \in Reqs : /\ req'[r] # req[r]
                               /\ req[r].pc \in {"apply", "addPerms"}
                               /\ req[r].slug = tagOf'[t] /\ t \in req[r].tags]_vars
  <2> SUFFICES ASSUME Inv, [Next]_vars, NEW t \in Tags,
                      tagOf'[t] # None, status'[tagOf'[t]] # "live"
               PROVE  /\ status[tagOf'[t]] # "live"
                      /\ tagOf[t] # tagOf'[t] =>
                           \E r \in Reqs : /\ req'[r] # req[r]
                                          /\ req[r].pc \in {"apply", "addPerms"}
                                          /\ req[r].slug = tagOf'[t] /\ t \in req[r].tags
    OBVIOUS
  <2>1. tagOf'[t] \in Slugs
    BY TypeStep DEF Inv, TypeOK
  <2>2. QED
    BY <2>1, RetiredUntagged, WhoTags
<1>2. QED
  BY <1>1, InvHolds, PTL DEF Spec, TagsGoWithFiles

-----------------------------------------------------------------------------
(* Which upload is the latest *)

\* modified is stamped with a time read before; an upload about to be stamped has read
\* its time after everything it has seen was stamped.
StampInv ==
  /\ \A s \in Slugs : modified[s] <= clock
  /\ \A r \in Reqs : req[r].pc = "finalize" =>
       \A u \in req[r].seen : modified[u] <= req[r].since

\* The only step that stamps rows stamps its own pending one.
LEMMA WhatStamps ==
  ASSUME Inv, [Next]_vars
  PROVE  \/ UNCHANGED modified
         \/ \E r \in Reqs, m \in 0..MaxTime :
              /\ UploadFinalize(r) \/ UploadFinalizeUnread(r)
              /\ req[r].since <= m /\ m <= clock
              /\ modified' = [modified EXCEPT ![req[r].slug] = m]
<1>1. ASSUME NEW r \in Reqs, UploadFinalize(r) \/ UploadFinalizeUnread(r)
      PROVE  \E m \in 0..MaxTime :
               /\ req[r].since <= m /\ m <= clock
               /\ modified' = [modified EXCEPT ![req[r].slug] = m]
  <2>1. PICK m \in req[r].since..clock : FinalizeUpload(req[r].slug, m)
    BY <1>1 DEF UploadFinalize, UploadFinalizeUnread
  <2>2. req[r].since \in 0..MaxTime /\ clock \in 0..MaxTime
    BY DEF Inv, TypeOK, Request
  <2>3. m \in 0..MaxTime /\ req[r].since <= m /\ m <= clock
    BY <2>1, <2>2, FileStoreAssumption
  <2>4. QED
    BY <2>1, <2>3 DEF FinalizeUpload
<1>2. ASSUME NEW r \in Reqs,
             \/ UploadReserve(r) \/ UploadApply(r) \/ UploadAbort(r) \/ UploadUntag(r)
             \/ DeleteFile(r) \/ AddTags(r) \/ RemoveTag(r)
      PROVE  UNCHANGED modified
  BY <1>2 DEF UploadReserve, UploadApply, ApplyUploadTags, UploadAbort, UploadUntag,
              DeleteFile, AddTags, RemoveTag
<1>3. QED
  BY <1>1, <1>2, RowWriters DEF db

\* A published row keeps its stamp.
LEMMA PublishedStamps ==
  ASSUME Inv, [Next]_vars, NEW s \in Slugs, Published(s)
  PROVE  modified'[s] = modified[s]
<1>1. ASSUME NEW r \in Reqs, UploadFinalize(r) \/ UploadFinalizeUnread(r)
      PROVE  req[r].slug # s
  BY <1>1 DEF Inv, HandlerState, Reserved, Published, UploadFinalize, UploadFinalizeUnread
<1>2. QED
  BY <1>1, WhatStamps DEF Inv, TypeOK

\* A request about to be stamped was so before, or has just been authorised.
LEMMA AboutToStamp ==
  ASSUME Inv, [Next]_vars, NEW q \in Reqs, req'[q].pc = "finalize", req'[q] # req[q]
  PROVE  UploadAuthorised(q)
<1> USE DEF Inv, TypeOK, Request, Continue, Goto, Answer, Idle
<1>1. ~Restart
  BY DEF Restart
<1>2. ASSUME Arrive(q) PROVE FALSE
  <2>1. CASE UploadCheck(q)
    BY <2>1 DEF UploadCheck
  <2>2. CASE AddTagsCheck(q)
    BY <2>2 DEF AddTagsCheck
  <2>3. CASE DeleteFile(q)
    BY <2>3 DEF DeleteFile
  <2>4. CASE ShortLink(q) \/ FilenameURL(q) \/ TagDownload(q)
    BY <2>4 DEF ShortLink, FilenameURL, TagDownload, Resolved
  <2>5. CASE RemoveTag(q)
    BY <2>5 DEF RemoveTag
  <2>6. QED
    BY <1>2, <2>1, <2>2, <2>3, <2>4, <2>5 DEF Arrive
<1>3. ASSUME UploadReserve(q) \/ UploadPutDone(q) PROVE FALSE
  <2>1. CASE UploadReserve(q)
    BY <2>1 DEF UploadReserve
  <2>2. CASE UploadPutDone(q)
    BY <2>2 DEF UploadPutDone
  <2>3. QED
    BY <1>3, <2>1, <2>2
<1>4. ASSUME ReadTagOwner(q) PROVE FALSE
  BY <1>4 DEF ReadTagOwner
<1>5. ASSUME \/ UploadPutStart(q) \/ UploadPutFails(q) \/ UploadPutLeaves(q)
             \/ UploadRejected(q) \/ UploadFinalize(q) \/ UploadApply(q)
             \/ UploadDiscardBlob(q) \/ UploadDiscardBlobFails(q) \/ UploadAbort(q)
      PROVE  FALSE
  BY <1>5 DEF UploadPutStart, UploadPutFails, UploadPutLeaves, UploadRejected,
              UploadFinalize, UploadApply, UploadDiscardBlob, UploadDiscardBlobFails,
              UploadAbort
<1>6. ASSUME \/ UploadReserveFails(q) \/ UploadFinalizeFails(q) \/ UploadFinalizeUnread(q)
             \/ UploadApplyFails(q) \/ UploadReclaim(q) \/ UploadReclaimFails(q)
             \/ UploadUntag(q) \/ UploadAbortFails(q) \/ DeleteBlob(q)
             \/ DeleteBlobFails(q) \/ AddTags(q) \/ AddTagsRefused(q) \/ ServeFile(q)
      PROVE  FALSE
  BY <1>6 DEF UploadReserveFails, UploadFinalizeFails, UploadFinalizeUnread,
              UploadApplyFails, UploadReclaim, UploadReclaimFails, UploadUntag,
              UploadAbortFails, DeleteBlob, DeleteBlobFails, AddTags, AddTagsRefused,
              ServeFile
<1>7. QED
  BY <1>1, <1>2, <1>3, <1>4, <1>5, <1>6, WhoseStep DEF Step, Upload

LEMMA StampStep == Inv /\ StampInv /\ [Next]_vars => StampInv'
<1> SUFFICES ASSUME Inv, StampInv, [Next]_vars PROVE StampInv'
  OBVIOUS
<1>1. ASSUME NEW s \in Slugs PROVE modified'[s] <= clock'
  <2>1. modified[s] \in Nat /\ clock \in Nat /\ modified[s] <= clock
    BY FileStoreAssumption DEF Inv, TypeOK, StampInv
  <2>2. clock' = clock \/ clock' = clock + 1
    BY CounterSteps DEF Tick
  <2>3. modified'[s] = modified[s] \/ \E m \in 0..MaxTime : m <= clock /\ modified'[s] = m
    BY WhatStamps DEF Inv, TypeOK
  <2>4. QED
    BY <2>1, <2>2, <2>3, FileStoreAssumption
<1>2. ASSUME NEW q \in Reqs, req'[q].pc = "finalize", NEW u \in req'[q].seen
      PROVE  modified'[u] <= req'[q].since
  <2>1. CASE req'[q] = req[q]
    <3>1. u \in Slugs /\ Published(u) /\ modified[u] <= req[q].since
      BY <1>2, <2>1 DEF Inv, TypeOK, HandlerState, Request, StampInv
    <3>2. QED
      BY <2>1, <3>1, PublishedStamps
  <2>2. CASE req'[q] # req[q]
    <3>1. /\ UNCHANGED modified
          /\ req' = [req EXCEPT ![q] = [req[q] EXCEPT !.pc = "finalize", !.since = clock]]
      BY <1>2, <2>2, AboutToStamp DEF UploadAuthorised, Continue, db
    <3>2. req'[q].since = clock /\ u \in req[q].seen
      BY <1>2, <3>1 DEF Inv, TypeOK, Request
    <3>3. u \in Slugs
      BY <3>2 DEF Inv, TypeOK, Request
    <3>4. QED
      BY <3>1, <3>2, <3>3 DEF StampInv
  <2>3. QED
    BY <2>1, <2>2
<1>3. QED
  BY <1>1, <1>2 DEF StampInv

\* The row of an upload about to be stamped is published by that upload alone.
LEMMA OwnPublication ==
  ASSUME Inv, [Next]_vars, NEW r \in Reqs, req[r].pc = "finalize",
         status'[req[r].slug] # status[req[r].slug]
  PROVE  UploadFinalize(r) \/ UploadFinalizeUnread(r)
<1> USE DEF Inv, TypeOK, HandlerState, Reserved
<1>1. /\ req[r].slug \in Slugs /\ status[req[r].slug] = "pending"
      /\ \A q \in Reqs : Reserved(q) /\ req[q].slug = req[r].slug => q = r
  OBVIOUS
<1>2. PICK q \in Reqs : \/ UploadReserve(q) \/ UploadFinalize(q) \/ UploadFinalizeUnread(q)
                        \/ UploadApply(q) \/ UploadAbort(q) \/ UploadUntag(q)
                        \/ DeleteFile(q) \/ AddTags(q) \/ RemoveTag(q)
  BY RowWriters DEF db
<1>3. CASE UploadReserve(q)
  BY <1>1, <1>3 DEF UploadReserve, UniqueSlugs
<1>4. CASE UploadFinalize(q) \/ UploadFinalizeUnread(q)
  BY <1>1, <1>4 DEF UploadFinalize, UploadFinalizeUnread, FinalizeUpload
<1>5. CASE UploadApply(q)
  BY <1>1, <1>5, ApplyEffect
<1>6. CASE UploadAbort(q)
  BY <1>1, <1>6 DEF UploadAbort
<1>7. CASE DeleteFile(q)
  BY <1>1, <1>7 DEF DeleteFile, LiveSlugs
<1>8. CASE UploadUntag(q) \/ AddTags(q) \/ RemoveTag(q)
  BY <1>8 DEF UploadUntag, AddTags, RemoveTag
<1>9. QED
  BY <1>2, <1>3, <1>4, <1>5, <1>6, <1>7, <1>8

\* However uploads overlap, one that goes live is stamped no earlier than any file of its
\* name that was there when it was asked for.
THEOREM UploadsOutrankEarlierFiles == Spec => OutranksEarlier
<1>1. Init => StampInv
  BY FileStoreAssumption DEF Init, StampInv, Idle
<1>2. Inv /\ StampInv /\ [Next]_vars =>
        [\A r \in Reqs :
           req[r].pc = "finalize" /\ status[req[r].slug] # status'[req[r].slug]
             => \A u \in req[r].seen : modified'[u] <= modified'[req[r].slug]]_vars
  <2> SUFFICES ASSUME Inv, StampInv, [Next]_vars, NEW r \in Reqs, req[r].pc = "finalize",
                      status'[req[r].slug] # status[req[r].slug], NEW u \in req[r].seen
               PROVE  modified'[u] <= modified'[req[r].slug]
    OBVIOUS
  <2>1. PICK m \in req[r].since..clock : FinalizeUpload(req[r].slug, m)
    BY OwnPublication DEF UploadFinalize, UploadFinalizeUnread
  <2>2. /\ req[r].since \in Nat /\ clock \in Nat
        /\ u \in Slugs /\ modified[u] \in Nat /\ req[r].slug \in Slugs
    BY FileStoreAssumption DEF Inv, TypeOK, HandlerState, Reserved, Request
  <2>3. modified'[u] = modified[u]
    BY <2>2, PublishedStamps DEF Inv, HandlerState
  <2>4. modified[u] <= req[r].since
    BY DEF StampInv
  <2>5. modified'[req[r].slug] = m
    BY <2>1, <2>2 DEF FinalizeUpload, Inv, TypeOK
  <2>6. QED
    BY <2>1, <2>2, <2>3, <2>4, <2>5
<1>3. QED
  BY <1>1, <1>2, StampStep, InvHolds, PTL DEF Spec, OutranksEarlier
=============================================================================
