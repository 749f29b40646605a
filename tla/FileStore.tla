------------------------------ MODULE FileStore ------------------------------
(***************************************************************************)
(* The writer's request handlers over its two stores: the sqlite database  *)
(* (tables files and tags) and the blob store.                             *)
(*                                                                         *)
(* The database is opened with one pooled connection (db.go:72), so every  *)
(* statement outside a transaction, and every transaction as a whole, is    *)
(* one atomic step here.  A handler is the sequence of those statements and *)
(* of its storage calls; between any two of them other requests may run,    *)
(* and the process may die.                                                 *)
(***************************************************************************)
EXTENDS Naturals, FiniteSets

CONSTANTS
  Names,       \* display names
  Slugs,       \* slugs randomSlug can still produce
  Tags,        \* canonical "name:suffix" tags
  Reqs,        \* requests that can be in flight at once
  PermSets,    \* sets of permissions a caller may hold
  MaxFaults,   \* bound: failed database or storage calls, and crashes
  MaxTime,     \* bound: seconds on the clock that stamps "modified"
  None         \* no slug, no name, no record

ASSUME FileStoreAssumption ==
  /\ None \notin Slugs \cup Names
  /\ IsFiniteSet(Reqs)
  /\ MaxFaults \in Nat
  /\ MaxTime \in Nat
  /\ PermSets \subseteq SUBSET {"file:delete", "tag:add", "tag:remove"}

VARIABLES
  status,      \* [Slugs -> Status]: whether a row exists, its deleted and pending columns
  nameOf,      \* [Slugs -> Names \cup {None}]: files.display_name
  modified,    \* [Slugs -> 0..MaxTime]: files.modified, in whole seconds
  tagOf,       \* [Tags -> Slugs \cup {None}]: the tags table, keyed by (name, suffix)
  blob,        \* [Slugs -> Blob]: what the blob store holds under the slug's key
  req,         \* [Reqs -> Request]: the local variables of each running handler
  clock,       \* the second time.Now() formats
  appendOnly,  \* ART_APPEND_ONLY, read when the process starts
  faults,      \* failures injected so far
  successor    \* history: the upload whose applyUploadTags retired the record

db == <<status, nameOf, modified, tagOf, successor>>
vars == <<status, nameOf, modified, tagOf, successor, blob, req, clock, appendOnly, faults>>

\* deleted = 0 and pending = 1, both 0, and deleted = 1; "free" is no row at all.
Status == {"free", "pending", "live", "deleted"}

\* Nothing under the key, a write in progress or torn, and the complete file.
Blob == {"none", "partial", "whole"}

Permission == {"file:delete", "tag:add", "tag:remove"}

\* The next call of a handler.  Uploads go through the first two rows, the
\* delete, tag and download handlers through the third.
PC == {"idle", "reserve", "put", "putting", "tagPerms", "finalize", "apply",
       "reclaim", "discard", "abort", "untag",
       "deleteBlob", "addPerms", "open"}

Request ==
  [pc    : PC,
   slug  : Slugs \cup {None},   \* the record the handler works on
   name  : Names \cup {None},   \* the uploaded display name
   tags  : SUBSET Tags,         \* the parsed tag list
   todo  : SUBSET Tags,         \* tags whose owner has not been looked up yet
   moves : BOOLEAN,             \* a looked-up tag belongs to another file
   perms : SUBSET Permission,   \* what resolveAuth granted the caller
   repl  : Slugs \cup {None},   \* replacedRec
   since : 0..MaxTime,          \* when the last permission was checked
   seen  : SUBSET Slugs]        \* history: files of its name live when it was asked for

Idle ==
  [pc |-> "idle", slug |-> None, name |-> None, tags |-> {}, todo |-> {},
   moves |-> FALSE, perms |-> {}, repl |-> None, since |-> 0, seen |-> {}]

Init ==
  /\ status = [s \in Slugs |-> "free"]
  /\ nameOf = [s \in Slugs |-> None]
  /\ modified = [s \in Slugs |-> 0]
  /\ tagOf = [t \in Tags |-> None]
  /\ successor = [s \in Slugs |-> None]
  /\ blob = [s \in Slugs |-> "none"]
  /\ req = [r \in Reqs |-> Idle]
  /\ clock = 0
  /\ appendOnly \in BOOLEAN
  /\ faults = 0

-----------------------------------------------------------------------------
(* Queries *)

LiveSlugs == {s \in Slugs : status[s] = "live"}
LiveNamed(n) == {s \in LiveSlugs : nameOf[s] = n}
TagsOf(s) == {t \in Tags : tagOf[t] = s}

\* latestLiveRecordByName: ORDER BY modified DESC LIMIT 1, ties in any order.
Latest(n) == {s \in LiveNamed(n) : \A u \in LiveNamed(n) : modified[u] <= modified[s]}

\* Request r goes on with the local variables q.
Continue(r, q) == req' = [req EXCEPT ![r] = q]

\* Request r moves on to its next call.
Goto(r, pc) == Continue(r, [req[r] EXCEPT !.pc = pc])

\* Request r has answered.
Answer(r) == Continue(r, Idle)

\* A call that may fail at any time, MaxFaults times in a behaviour.
Fault ==
  /\ faults < MaxFaults
  /\ faults' = faults + 1

-----------------------------------------------------------------------------
(* POST /api/upload *)

\* Mutant of MayUpload: the permission is not asked for.
MayUploadUnchecked(n, P) == TRUE

\* Superseding a live file is a deletion, so the caller needs file:delete.
MayUpload(n, P) == appendOnly \/ LiveNamed(n) = {} \/ "file:delete" \in P

\* The file part is reached: the display name is looked up before anything is
\* reserved.  A caller refused here changes nothing.
UploadCheck(r) ==
  /\ req[r].pc = "idle"
  /\ \E n \in Names, T \in SUBSET Tags, P \in PermSets :
       /\ MayUpload(n, P)
       /\ Continue(r, [Idle EXCEPT !.pc = "reserve", !.name = n, !.tags = T, !.perms = P,
                         !.seen = LiveNamed(n)])
  /\ UNCHANGED <<db, blob, clock, faults>>

\* Mutant of Replaceable: append-only mode is forgotten.
ReplaceableAlways(n) == IF LiveNamed(n) = {} THEN {None} ELSE LiveNamed(n)
\* Mutant of Replaceable: the query has lost its LIMIT 1.
ReplaceableUnlimited(n) == {LiveNamed(n)}

\* The record reserveUpload returns as the one about to be superseded.
Replaceable(n) == IF appendOnly \/ LiveNamed(n) = {} THEN {None} ELSE LiveNamed(n)

\* Mutant of UniqueSlugs: the slug of a deleted file can be drawn again.
UniqueLiveSlugs == {s \in Slugs : status[s] \in {"free", "deleted"}}

\* The slugs insertUniqueRecord can settle on: the primary key refuses any slug
\* that has a row, and rows are kept for ever.
UniqueSlugs == {s \in Slugs : status[s] = "free"}

\* Mutant of UploadReserve: the replaced record is retired up front.
UploadReserveRetires(r) ==
  /\ req[r].pc = "reserve"
  /\ \E s \in UniqueSlugs, old \in Replaceable(req[r].name) :
       /\ status' = [u \in Slugs |-> IF u = s THEN "pending"
                                    ELSE IF u = old THEN "deleted" ELSE status[u]]
       /\ nameOf' = [nameOf EXCEPT ![s] = req[r].name]
       /\ Continue(r, [req[r] EXCEPT !.pc = "put", !.slug = s, !.repl = old])
  /\ UNCHANGED <<modified, tagOf, successor, blob, clock, faults>>

\* reserveUpload, one transaction: find the live record, insert a pending one.
UploadReserve(r) ==
  /\ req[r].pc = "reserve"
  /\ \E s \in UniqueSlugs, old \in Replaceable(req[r].name) :
       /\ status' = [status EXCEPT ![s] = "pending"]
       /\ nameOf' = [nameOf EXCEPT ![s] = req[r].name]
       /\ Continue(r, [req[r] EXCEPT !.pc = "put", !.slug = s, !.repl = old])
  /\ UNCHANGED <<modified, tagOf, successor, blob, clock, faults>>

\* Mutant of UploadReserveFails: slugs are drawn until one is free.
UploadReserveRetries(r) ==
  /\ req[r].pc = "reserve"
  /\ Goto(r, "reserve")
  /\ UNCHANGED <<db, blob, clock, faults>>

\* The transaction fails, or every slug drawn collides: 500, nothing inserted.
UploadReserveFails(r) ==
  /\ req[r].pc = "reserve"
  /\ Answer(r)
  /\ UNCHANGED <<db, blob, clock, faults>>

\* storage.Put starts writing under the slug's key.
UploadPutStart(r) ==
  /\ req[r].pc = "put"
  /\ blob' = [blob EXCEPT ![req[r].slug] = "partial"]
  /\ Goto(r, "putting")
  /\ UNCHANGED <<db, clock, faults>>

\* Put succeeds; the parts after the file are read and their tags parsed.
UploadPutDone(r) ==
  /\ req[r].pc = "putting"
  /\ blob' = [blob EXCEPT ![req[r].slug] = "whole"]
  /\ Continue(r, [req[r] EXCEPT !.pc = "tagPerms", !.todo = req[r].tags])
  /\ UNCHANGED <<db, clock, faults>>

\* Put fails (body too large, client gone, disk full) and removes what it wrote.
UploadPutFails(r) ==
  /\ req[r].pc \in {"put", "putting"}
  /\ blob' = [blob EXCEPT ![req[r].slug] = "none"]
  /\ Goto(r, "discard")
  /\ UNCHANGED <<db, clock, faults>>

\* Put fails and leaves something: its own cleanup fails, or the object store has taken
\* everything and its answer is lost.
UploadPutLeaves(r) ==
  /\ req[r].pc = "putting"
  /\ Fault
  /\ \E b \in {"partial", "whole"} : blob' = [blob EXCEPT ![req[r].slug] = b]
  /\ Goto(r, "discard")
  /\ UNCHANGED <<db, clock>>

\* An unreadable part, an invalid tag, a failed lookup or a missing tag
\* permission: nothing is live yet, and the upload is unwound.
UploadRejected(r) ==
  /\ req[r].pc = "tagPerms"
  /\ Goto(r, "discard")
  /\ UNCHANGED <<db, blob, clock, faults>>

\* The permissions uploadTagPermissions asks for once every owner is known.
UploadTagPermissions(r) ==
  {p \in Permission :
     \/ p = "tag:add" /\ req[r].tags # {}
     \/ p = "tag:remove" /\ (\/ req[r].moves
                             \/ req[r].repl # None /\ TagsOf(req[r].repl) # {})}

\* Mutant of UploadAuthorised: the time is that of the process's start.
UploadAuthorisedUntimed(r) ==
  /\ req[r].pc = "tagPerms"
  /\ req[r].todo = {}
  /\ UploadTagPermissions(r) \subseteq req[r].perms
  /\ Goto(r, "finalize")
  /\ UNCHANGED <<db, blob, clock, faults>>

\* Every owner has been looked up and the permissions are there.
UploadAuthorised(r) ==
  /\ req[r].pc = "tagPerms"
  /\ req[r].todo = {}
  /\ UploadTagPermissions(r) \subseteq req[r].perms
  /\ Continue(r, [req[r] EXCEPT !.pc = "finalize", !.since = clock])
  /\ UNCHANGED <<db, blob, clock, faults>>

\* finalizeUpload's UPDATE clears pending and stamps modified.  It does not
\* touch deleted.  The handler reads the clock before it gets the connection.
FinalizeUpload(s, m) ==
  /\ status' = [status EXCEPT ![s] = IF status[s] = "pending" THEN "live" ELSE status[s]]
  /\ modified' = [modified EXCEPT ![s] = m]
  /\ UNCHANGED <<nameOf, tagOf, successor>>

UploadFinalize(r) ==
  /\ req[r].pc = "finalize"
  /\ \E m \in req[r].since..clock : FinalizeUpload(req[r].slug, m)
  /\ Goto(r, "apply")
  /\ UNCHANGED <<blob, clock, faults>>

\* The UPDATE fails: 500, and neither the row nor the bytes are given up.
UploadFinalizeFails(r) ==
  /\ req[r].pc = "finalize"
  /\ Fault
  /\ Answer(r)
  /\ UNCHANGED <<db, blob, clock>>

\* The UPDATE succeeds and reading the row back fails: 500, yet the file is live.
UploadFinalizeUnread(r) ==
  /\ req[r].pc = "finalize"
  /\ Fault
  /\ \E m \in req[r].since..clock : FinalizeUpload(req[r].slug, m)
  /\ Answer(r)
  /\ UNCHANGED <<blob, clock>>

\* Mutant of ApplyUploadTags: tags are moved and the replaced record is kept.
ApplyTagsOnly(new, T, old) ==
  /\ tagOf' = [t \in Tags |-> IF t \in T THEN new
                              ELSE IF old # None /\ tagOf[t] = old THEN None
                              ELSE tagOf[t]]
  /\ UNCHANGED <<status, successor, nameOf, modified>>

\* applyUploadTags, one transaction: the requested tags move to the new file,
\* then the replaced file loses the tags it has left and is marked deleted.
ApplyUploadTags(new, T, old) ==
  /\ tagOf' = [t \in Tags |-> IF t \in T THEN new
                              ELSE IF old # None /\ tagOf[t] = old THEN None
                              ELSE tagOf[t]]
  /\ status' = [s \in Slugs |-> IF s = old THEN "deleted" ELSE status[s]]
  /\ successor' = [s \in Slugs |-> IF s = old /\ status[s] = "live" THEN new
                                   ELSE successor[s]]
  /\ UNCHANGED <<nameOf, modified>>

UploadApply(r) ==
  /\ req[r].pc = "apply"
  /\ ApplyUploadTags(req[r].slug, req[r].tags, req[r].repl)
  /\ Goto(r, "reclaim")
  /\ UNCHANGED <<blob, clock, faults>>

\* The transaction fails: 500 with the new file live and the old one not retired.
UploadApplyFails(r) ==
  /\ req[r].pc = "apply"
  /\ req[r].tags # {} \/ req[r].repl # None
  /\ Fault
  /\ Answer(r)
  /\ UNCHANGED <<db, blob, clock>>

\* Mutant of UploadReclaim: the replaced file's bytes are forgotten.
UploadReclaimNothing(r) ==
  /\ req[r].pc = "reclaim"
  /\ Answer(r)
  /\ UNCHANGED <<db, blob, clock, faults>>

\* The replaced file's bytes are deleted, and the upload answers 201.
UploadReclaim(r) ==
  /\ req[r].pc = "reclaim"
  /\ blob' = [s \in Slugs |-> IF s = req[r].repl THEN "none" ELSE blob[s]]
  /\ Answer(r)
  /\ UNCHANGED <<db, clock, faults>>

\* tagsOfSlug fails, or the delete does and is only logged.
UploadReclaimFails(r) ==
  /\ req[r].pc = "reclaim"
  /\ Fault
  /\ Answer(r)
  /\ UNCHANGED <<db, blob, clock>>

\* Mutant of UploadDiscardBlob: discard gives up the record and forgets the blob.
UploadDiscardRecordOnly(r) ==
  /\ req[r].pc = "discard"
  /\ Goto(r, "abort")
  /\ UNCHANGED <<db, blob, clock, faults>>

\* Mutant of UploadDiscardBlob: discard removes the blob and forgets the record.
UploadDiscardBlobOnly(r) ==
  /\ req[r].pc = "discard"
  /\ blob' = [blob EXCEPT ![req[r].slug] = "none"]
  /\ Answer(r)
  /\ UNCHANGED <<db, clock, faults>>

\* discard: the blob goes first, then the record, whatever became of the blob.
UploadDiscardBlob(r) ==
  /\ req[r].pc = "discard"
  /\ blob' = [blob EXCEPT ![req[r].slug] = "none"]
  /\ Goto(r, "abort")
  /\ UNCHANGED <<db, clock, faults>>

UploadDiscardBlobFails(r) ==
  /\ req[r].pc = "discard"
  /\ Fault
  /\ Goto(r, "abort")
  /\ UNCHANGED <<db, blob, clock>>

\* abortUpload is two statements and no transaction.
UploadAbort(r) ==
  /\ req[r].pc = "abort"
  /\ status' = [status EXCEPT ![req[r].slug] = "deleted"]
  /\ Goto(r, "untag")
  /\ UNCHANGED <<nameOf, modified, tagOf, successor, blob, clock, faults>>

UploadUntag(r) ==
  /\ req[r].pc = "untag"
  /\ tagOf' = [t \in Tags |-> IF tagOf[t] = req[r].slug THEN None ELSE tagOf[t]]
  /\ Answer(r)
  /\ UNCHANGED <<status, nameOf, modified, successor, blob, clock, faults>>

\* Either statement fails, and discard ignores it.
UploadAbortFails(r) ==
  /\ req[r].pc \in {"abort", "untag"}
  /\ Fault
  /\ Answer(r)
  /\ UNCHANGED <<db, blob, clock>>

-----------------------------------------------------------------------------
(* DELETE /api/delete/{slug}: requires file:delete, refused in append-only mode *)

\* Mutant of DeleteFile: the tags stay behind.
DeleteFileKeepsTags(r) ==
  /\ req[r].pc = "idle"
  /\ ~appendOnly
  /\ \E s \in LiveSlugs :
       /\ status' = [status EXCEPT ![s] = "deleted"]
       /\ Continue(r, [Idle EXCEPT !.pc = "deleteBlob", !.slug = s])
  /\ UNCHANGED <<nameOf, modified, tagOf, successor, blob, clock, faults>>

\* softDeleteBySlug, one transaction.
DeleteFile(r) ==
  /\ req[r].pc = "idle"
  /\ ~appendOnly
  /\ \E s \in LiveSlugs :
       /\ status' = [status EXCEPT ![s] = "deleted"]
       /\ tagOf' = [t \in Tags |-> IF tagOf[t] = s THEN None ELSE tagOf[t]]
       /\ Continue(r, [Idle EXCEPT !.pc = "deleteBlob", !.slug = s])
  /\ UNCHANGED <<nameOf, modified, successor, blob, clock, faults>>

DeleteBlob(r) ==
  /\ req[r].pc = "deleteBlob"
  /\ blob' = [blob EXCEPT ![req[r].slug] = "none"]
  /\ Answer(r)
  /\ UNCHANGED <<db, clock, faults>>

\* storage.Delete fails, or the client hangs up and cancels it: 500.
DeleteBlobFails(r) ==
  /\ req[r].pc = "deleteBlob"
  /\ Fault
  /\ Answer(r)
  /\ UNCHANGED <<db, blob, clock>>

-----------------------------------------------------------------------------
(* POST and DELETE /api/tags/{slug} *)

\* Mutant of AddTagsCheck: any row will do.
AddTagsCheckRow(r) ==
  /\ req[r].pc = "idle"
  /\ \E s \in Slugs, T \in SUBSET Tags \ {{}}, P \in PermSets :
       /\ status[s] # "free"
       /\ "tag:add" \in P
       /\ Continue(r, [Idle EXCEPT !.pc = "addPerms", !.slug = s,
                         !.tags = T, !.todo = T, !.perms = P])
  /\ UNCHANGED <<db, blob, clock, faults>>

\* addFileTagsHandler (requires tag:add) finds the slug live.
AddTagsCheck(r) ==
  /\ req[r].pc = "idle"
  /\ \E s \in LiveSlugs, T \in SUBSET Tags \ {{}}, P \in PermSets :
       /\ "tag:add" \in P
       /\ Continue(r, [Idle EXCEPT !.pc = "addPerms", !.slug = s,
                         !.tags = T, !.todo = T, !.perms = P])
  /\ UNCHANGED <<db, blob, clock, faults>>

\* The row of tag t names a file that request r must not take it from unasked.
OwnedByAnotherFile(r, t) ==
  /\ tagOf[t] # None
  /\ req[r].pc = "addPerms" => tagOf[t] # req[r].slug

\* tagsOwnedByAnotherFile looks up one owner per statement, for an upload
\* (which excludes no file) and for addFileTagsHandler (which excludes its own).
ReadTagOwner(r) ==
  /\ req[r].pc \in {"tagPerms", "addPerms"}
  /\ \E t \in req[r].todo :
       Continue(r, [req[r] EXCEPT
                      !.todo = req[r].todo \ {t},
                      !.moves = req[r].moves \/ OwnedByAnotherFile(r, t)])
  /\ UNCHANGED <<db, blob, clock, faults>>

\* addTagsToSlug, one transaction.  It does not look at the file again.
AddTags(r) ==
  /\ req[r].pc = "addPerms"
  /\ req[r].todo = {}
  /\ req[r].moves => "tag:remove" \in req[r].perms
  /\ tagOf' = [t \in Tags |-> IF t \in req[r].tags THEN req[r].slug ELSE tagOf[t]]
  /\ Answer(r)
  /\ UNCHANGED <<status, nameOf, modified, successor, blob, clock, faults>>

\* A lookup or the transaction fails, or tag:remove is missing.
AddTagsRefused(r) ==
  /\ req[r].pc = "addPerms"
  /\ Answer(r)
  /\ UNCHANGED <<db, blob, clock, faults>>

\* removeTagFromSlug is one DELETE (requires tag:remove), whatever the slug's state.
RemoveTag(r) ==
  /\ req[r].pc = "idle"
  /\ \E t \in Tags : /\ tagOf[t] # None
                     /\ tagOf' = [tagOf EXCEPT ![t] = None]
  /\ UNCHANGED <<status, nameOf, modified, successor, blob, req, clock, faults>>

-----------------------------------------------------------------------------
(* GET /s/{slug}, /f/{filename} and /t/{tag} *)

\* Request r has resolved slug s and goes on to storage.Get.
Resolved(r, s) == Continue(r, [Idle EXCEPT !.pc = "open", !.slug = s])

ShortLink(r) ==
  /\ req[r].pc = "idle"
  /\ \E s \in LiveSlugs : Resolved(r, s)
  /\ UNCHANGED <<db, blob, clock, faults>>

FilenameURL(r) ==
  /\ req[r].pc = "idle"
  /\ \E n \in Names : \E s \in Latest(n) : Resolved(r, s)
  /\ UNCHANGED <<db, blob, clock, faults>>

\* liveRecordByTag joins the tag with a live file.
TagDownload(r) ==
  /\ req[r].pc = "idle"
  /\ \E t \in Tags : tagOf[t] \in LiveSlugs /\ Resolved(r, tagOf[t])
  /\ UNCHANGED <<db, blob, clock, faults>>

\* serveFileRecord opens the blob: served when it is there, 404 when it is not.
ServeFile(r) ==
  /\ req[r].pc = "open"
  /\ Answer(r)
  /\ UNCHANGED <<db, blob, clock, faults>>

-----------------------------------------------------------------------------

Upload(r) ==
  \/ UploadReserve(r) \/ UploadReserveFails(r)
  \/ UploadPutStart(r) \/ UploadPutDone(r) \/ UploadPutFails(r) \/ UploadPutLeaves(r)
  \/ UploadRejected(r) \/ UploadAuthorised(r)
  \/ UploadFinalize(r) \/ UploadFinalizeFails(r) \/ UploadFinalizeUnread(r)
  \/ UploadApply(r) \/ UploadApplyFails(r)
  \/ UploadReclaim(r) \/ UploadReclaimFails(r)
  \/ UploadDiscardBlob(r) \/ UploadDiscardBlobFails(r)
  \/ UploadAbort(r) \/ UploadUntag(r) \/ UploadAbortFails(r)

\* A new request and its first statement.
Arrive(r) ==
  /\ \/ UploadCheck(r) \/ DeleteFile(r) \/ AddTagsCheck(r) \/ RemoveTag(r)
     \/ ShortLink(r) \/ FilenameURL(r) \/ TagDownload(r)
  /\ UNCHANGED appendOnly

\* The next step of a request that is being handled.
Step(r) ==
  /\ \/ Upload(r)
     \/ DeleteBlob(r) \/ DeleteBlobFails(r)
     \/ ReadTagOwner(r) \/ AddTags(r) \/ AddTagsRefused(r)
     \/ ServeFile(r)
  /\ UNCHANGED appendOnly

\* The process dies and is started again: committed transactions and written
\* bytes stay, every handler is gone, and nothing at boot looks for leftovers.  The
\* setting may be another one from then on.
Restart ==
  /\ Fault
  /\ req' = [r \in Reqs |-> Idle]
  /\ appendOnly' \in BOOLEAN
  /\ UNCHANGED <<db, blob, clock>>

Tick ==
  /\ clock < MaxTime
  /\ clock' = clock + 1
  /\ UNCHANGED <<db, blob, req, appendOnly, faults>>

Next ==
  \/ \E r \in Reqs : Arrive(r) \/ Step(r)
  \/ Restart
  \/ Tick

Spec == Init /\ [][Next]_vars

\* net/http runs every accepted request in a goroutine of its own, and the
\* storage and database calls return: a request under way keeps moving.
FairSpec == Spec /\ \A r \in Reqs : WF_vars(Step(r))

-----------------------------------------------------------------------------
(* Properties *)

\* Every variable stays in its declared range.
TypeOK ==
  /\ status \in [Slugs -> Status]
  /\ nameOf \in [Slugs -> Names \cup {None}]
  /\ modified \in [Slugs -> 0..MaxTime]
  /\ tagOf \in [Tags -> Slugs \cup {None}]
  /\ successor \in [Slugs -> Slugs \cup {None}]
  /\ blob \in [Slugs -> Blob]
  /\ req \in [Reqs -> Request]
  /\ clock \in 0..MaxTime
  /\ appendOnly \in BOOLEAN
  /\ faults \in 0..MaxFaults

\* Every file the database shows as live has all its bytes in the blob store,
\* whichever uploads, deletions, failures and restarts came before: the writes of
\* a handler go bytes first and row second, its removals row first and bytes second.
LiveIsWhole == \A s \in Slugs : status[s] = "live" => blob[s] = "whole"

\* A download that resolved a record finds the complete file or none at all
\* (404), never a write in progress or a torn one: once published, a key is
\* never written to again.
DownloadIsWhole ==
  \A r \in Reqs : req[r].pc = "open" => blob[req[r].slug] # "partial"

\* No tag points at a file whose upload was never published (tag.go:148:
\* "never to deleted or still-pending ones"; the deleted half is TagsOnLive).
TagsOnPublished ==
  \A t \in Tags : tagOf[t] # None => status[tagOf[t]] \in {"live", "deleted"}

\* An upload by a caller without file:delete is never about to retire a file of its name
\* that was live when the permission was looked at: only one that appeared since.
UnprivilegedKeepsFiles ==
  \A r \in Reqs : "file:delete" \notin req[r].perms => req[r].repl \notin req[r].seen

\* The refinement mapping: the catalogue's "stored" is the set of complete blobs.
Stored == {s \in Slugs : blob[s] = "whole"}

Promise == INSTANCE Catalogue
  WITH state <- status, name <- nameOf, stored <- Stored, successor <- successor

\* The handlers keep the promise made to the holder of a short link.
CatalogueSpec == Promise!Spec

\* Request r will publish or remove the bytes under slug s.
Accounts(r, s) ==
  \/ /\ req[r].slug = s
     /\ req[r].pc \in {"putting", "tagPerms", "finalize", "discard", "deleteBlob"}
  \/ req[r].repl = s /\ req[r].pc = "reclaim"

\* Bytes that are not a live file's, and that no request will publish or remove.
Leaked ==
  {s \in Slugs : blob[s] # "none" /\ status[s] # "live" /\ \A r \in Reqs : ~Accounts(r, s)}

\* No interleaving leaks a blob: only a failure does, and a failure or a crash leaks no
\* more than one for each request that may be under way.
BlobsAccounted == Cardinality(Leaked) <= faults * Cardinality(Reqs)

\* An upload between its reservation and its publication or abandonment.
Reserved(r) == req[r].pc \in {"put", "putting", "tagPerms", "finalize", "discard", "abort"}

\* Pending rows that no upload will publish or give up.
Stuck ==
  {s \in Slugs : status[s] = "pending" /\ \A r \in Reqs : Reserved(r) => req[r].slug # s}

\* No interleaving leaves a pending row behind: only a failure does, in the same measure.
PendingAccounted == Cardinality(Stuck) <= faults * Cardinality(Reqs)

\* A request that works on a record it has seen live, or published itself.
Holds(r) == req[r].pc \in {"apply", "reclaim", "open", "addPerms", "deleteBlob", "untag"}

Published(s) == status[s] \in {"live", "deleted"}

\* Request r may take a file of its name away, or takes none.
MaySupersede(r) == appendOnly \/ "file:delete" \in req[r].perms

\* What each handler may rely on between two of its calls, whatever the others do:
\* its pending row is its own, and its bytes are complete from Put's return to
\* finalizeUpload; a record it found live is still live or was deleted since; the
\* record it supersedes has its name, is another one, and is retired before its
\* bytes are removed.
HandlerState ==
  \A r \in Reqs :
    /\ Reserved(r) =>
         /\ req[r].slug \in Slugs
         /\ status[req[r].slug] = "pending"
         /\ \A q \in Reqs : Reserved(q) /\ req[q].slug = req[r].slug => q = r
    /\ req[r].pc \in {"tagPerms", "finalize"} => blob[req[r].slug] = "whole"
    /\ Holds(r) => req[r].slug \in Slugs /\ Published(req[r].slug)
    /\ \A s \in req[r].seen : Published(s)
    /\ req[r].pc = "deleteBlob" => status[req[r].slug] = "deleted"
    /\ req[r].repl # None =>
         /\ Reserved(r) \/ Holds(r)
         /\ req[r].slug # req[r].repl
         /\ Published(req[r].repl)
         /\ nameOf[req[r].repl] = nameOf[req[r].slug]
         /\ req[r].pc = "reclaim" => status[req[r].repl] = "deleted"
    /\ req[r].pc = "reserve" =>
         /\ req[r].name \in Names
         /\ req[r].seen = {} \/ MaySupersede(r)

Quiescent == \A r \in Reqs : req[r].pc = "idle"

\* shortlink.go:158, "the (at most one, unless append-only) live record with the
\* given display name": with no request under way, a name has one live file.
OneLivePerName ==
  Quiescent /\ ~appendOnly =>
    \A n \in Names : \A s, u \in LiveNamed(n) : s = u

\* shortlink.go:353, "Tags only ever describe live files".
TagsOnLive == \A t \in Tags : tagOf[t] # None => status[tagOf[t]] = "live"

\* What is left of it when requests overlap: whatever retires a file takes its tags along,
\* in the same step.  A tag on a retired file was put there afterwards, by a request
\* that had seen the file live, or had published it.
TagsGoWithFiles ==
  [][\A t \in Tags : tagOf'[t] # None /\ status'[tagOf'[t]] # "live" =>
       /\ status[tagOf'[t]] # "live"
       /\ tagOf[t] # tagOf'[t] =>
            \E r \in Reqs : /\ req'[r] # req[r]
                           /\ req[r].pc \in {"apply", "addPerms"}
                           /\ req[r].slug = tagOf'[t] /\ t \in req[r].tags]_vars

\* src/README.md:579, "Permissions are checked per effect": an upload that takes a live
\* file away has file:delete, and an upload or a tagging request that takes a tag off
\* another file has tag:remove.
PermissionsPerEffect ==
  [][\A r \in Reqs :
       req[r].pc \in {"apply", "addPerms"} /\ req'[r] # req[r] =>
         /\ "file:delete" \in req[r].perms \/ LiveSlugs \subseteq LiveSlugs'
         /\ \/ "tag:remove" \in req[r].perms
            \/ \A t \in Tags : tagOf[t] \in {None, req[r].slug, tagOf'[t]}]_vars

\* src/README.md:609, /f/{filename} "always resolves to the latest live upload", as far as
\* whole seconds and overlapping uploads allow: no file of its name that was there when
\* an upload was asked for is stamped later than it, however long the upload took and
\* whatever was published meanwhile.
OutranksEarlier ==
  [][\A r \in Reqs :
       req[r].pc = "finalize" /\ status[req[r].slug] # status'[req[r].slug]
         => \A u \in req[r].seen : modified'[u] <= modified'[req[r].slug]]_vars

\* Append-only mode: once published, a file is there for as long as the mode is on, whatever
\* uploads of its name, failed requests and restarts follow.
AppendOnlyKeepsFiles ==
  [][appendOnly => LiveSlugs \subseteq LiveSlugs']_vars

\* Every request is answered.
Answered == \A r \in Reqs : req[r].pc # "idle" ~> req[r].pc = "idle"

\* Without failures, the bytes of every file that is deleted, replaced or given up
\* are eventually removed.
Reclaimed == \A s \in Slugs : status[s] = "deleted" ~> blob[s] = "none"
=============================================================================
