------------------------------ MODULE Publisher ------------------------------
(***************************************************************************)
(* The writer's side of replication: its database, the loop that copies it  *)
(* to the snapshot store (db_publisher.go), and how the process starts,     *)
(* stops and dies (db.go, main.go).                                         *)
(*                                                                         *)
(* A state of the database is a version, numbered in the order of the       *)
(* commits; content gives what it holds.  The store derives an entity tag   *)
(* from the bytes, so tags are compared as contents: two versions with the  *)
(* same content have the same tag.                                          *)
(***************************************************************************)
EXTENDS Integers

CONSTANTS
  Contents,     \* databases with at least one row
  Empty,        \* the database without rows
  Foreign,      \* an object that verifySnapshot refuses: another schema, or no database
  RestoreModes, \* the values of ART_DB_RESTORE the operator uses
  Recurs,       \* whether the database may come to hold again what it once held
  MaxVersions,  \* bound: commits
  MaxFaults     \* bound: failed calls, crashes, lost volumes

ASSUME PublisherAssumption ==
  /\ Empty \notin Contents
  /\ Foreign \notin Contents \cup {Empty}
  /\ RestoreModes \subseteq {"unset", "auto", "ignore"}
  /\ Recurs \in BOOLEAN
  /\ MaxVersions \in Nat /\ MaxVersions >= 2
  /\ MaxFaults \in Nat

VARIABLES
  content,    \* [Versions -> Content]: what each version holds
  local,      \* the version in the local database file, 0 without a file
  object,     \* the version in the snapshot store, 0 without an object
  phase,      \* "down", "up", or "stopping" once the signal has come
  mode,       \* ART_DB_RESTORE of the process, or of the next one
  changes,    \* total_changes of the database connection
  published,  \* snapshotPublisher.published
  dirty,      \* snapshotPublisher.dirtySince is set
  pub,        \* the publish under way
  booted,     \* history: the version the process started with
  due,        \* history: the version the signal found, while it is to be published
  faults      \* failures so far

store == <<content, object>>
process == <<phase, mode, booted, due>>
tracking == <<changes, published, dirty, pub>>
pubVars == <<content, local, object, phase, mode, changes, published, dirty, pub, booted, due, faults>>

Versions == 1..MaxVersions
Content == Contents \cup {Empty, Foreign}

\* The next call of publish: count the rows, copy the database, put the copy.  A
\* publisher that has flushed is done.
Idle == [pc |-> "idle", before |-> 0, copy |-> 0, by |-> "tick"]
Done == [Idle EXCEPT !.pc = "done"]
PublishState ==
  [pc     : {"idle", "count", "copy", "put", "done"},
   before : 0..(MaxVersions + MaxFaults),   \* the counter read first
   copy   : 0..MaxVersions,                 \* the version in the staging file
   by     : {"tick", "flush"}]              \* the caller

\* A call that may fail at any time, MaxFaults times in a behaviour.
Fault ==
  /\ faults < MaxFaults
  /\ faults' = faults + 1

\* The deployments a writer may start in: with or without a database, with or
\* without a published object, one of which may be unknown to the other.
Init ==
  /\ object \in {0, 1}
  /\ local \in {0, object, object + 1}
  /\ content \in [Versions -> Content]
  /\ \A v \in Versions : v > object /\ v > local => content[v] = Empty
  /\ local # 0 => content[local] # Foreign
  /\ phase = "down" /\ mode \in RestoreModes
  /\ changes = 0 /\ published = 0 /\ dirty = FALSE /\ pub = Idle
  /\ booted = 0 /\ due = 0 /\ faults = 0

-----------------------------------------------------------------------------
(* The database *)

\* A handler commits.  Rows are tombstoned, never removed, so a database that has
\* rows keeps some; what tags and flags say may be undone.
Write ==
  /\ phase \in {"up", "stopping"}
  /\ local < MaxVersions
  /\ \E c \in Contents :
       /\ c # content[local]
       /\ Recurs \/ \A v \in 1..local : content[v] # c
       /\ content' = [content EXCEPT ![local + 1] = c]
  /\ local' = local + 1
  /\ changes' = changes + 1
  /\ UNCHANGED <<object, published, dirty, pub, process, faults>>

\* A transaction is rolled back: total_changes has counted its rows.
RollBack ==
  /\ phase \in {"up", "stopping"}
  /\ Fault
  /\ changes' = changes + 1
  /\ UNCHANGED <<store, local, published, dirty, pub, process>>

-----------------------------------------------------------------------------
(* The publisher *)

\* tick sees changes and starts the window.
TickNotices ==
  /\ phase # "down"
  /\ pub.pc = "idle"
  /\ changes # published
  /\ ~dirty
  /\ dirty' = TRUE
  /\ UNCHANGED <<store, local, changes, published, pub, process, faults>>

\* publish starts by reading the counter.
Begin(by) == pub' = [pc |-> "count", before |-> changes, copy |-> 0, by |-> by]

\* A later tick finds the window over.  Ticks go on until Run sees the signal.
TickPublishes ==
  /\ phase # "down"
  /\ pub.pc = "idle"
  /\ changes # published
  /\ dirty
  /\ Begin("tick")
  /\ UNCHANGED <<store, local, changes, published, dirty, process, faults>>

\* publish is over: tick waits for the next window, flush ends the loop.
Finish == pub' = IF pub.by = "flush" THEN Done ELSE Idle

\* Mutant of LooksEmpty: the guard is left out.
NeverLooksEmpty == FALSE

\* snapshotLooksEmpty: an empty database is not published over an object.
LooksEmpty == content[local] = Empty /\ mode # "ignore" /\ object # 0

Count ==
  /\ pub.pc = "count"
  /\ ~LooksEmpty
  /\ pub' = [pub EXCEPT !.pc = "copy"]
  /\ UNCHANGED <<store, local, changes, published, dirty, process, faults>>

Refuse ==
  /\ pub.pc = "count"
  /\ LooksEmpty
  /\ Finish
  /\ UNCHANGED <<store, local, changes, published, dirty, process, faults>>

\* Mutant of Copy: the database file is copied, without what its log still holds.
CopyFile ==
  /\ pub.pc = "copy"
  /\ \E v \in booted..local : pub' = [pub EXCEPT !.pc = "put", !.copy = v]
  /\ UNCHANGED <<store, local, changes, published, dirty, process, faults>>

\* writeSnapshotTo: VACUUM INTO copies one version.
Copy ==
  /\ pub.pc = "copy"
  /\ pub' = [pub EXCEPT !.pc = "put", !.copy = local]
  /\ UNCHANGED <<store, local, changes, published, dirty, process, faults>>

\* Mutant of Put: the counter is read after the copy.
PutCountedAfter ==
  /\ pub.pc = "put"
  /\ object' = pub.copy
  /\ published' = changes
  /\ dirty' = FALSE
  /\ Finish
  /\ UNCHANGED <<content, local, changes, process, faults>>

\* The object is replaced as a whole, and what the counter said first is published.
Put ==
  /\ pub.pc = "put"
  /\ object' = pub.copy
  /\ published' = pub.before
  /\ dirty' = FALSE
  /\ Finish
  /\ UNCHANGED <<content, local, changes, process, faults>>

\* The signal cancels a request to the store, unless flush has made it.
Cancelled ==
  /\ phase = "stopping"
  /\ pub.by = "tick"
  /\ pub.pc = "put" \/ (pub.pc = "count" /\ content[local] = Empty /\ mode # "ignore")
  /\ UNCHANGED faults

\* The last publish is best effort: once it has failed, nothing is due.
Missed == due' = IF pub.by = "flush" THEN 0 ELSE due

\* Mutant of PublishFails: the counter is recorded before the put.
PublishFailsRecorded ==
  /\ pub.pc \in {"count", "copy", "put"}
  /\ Fault \/ Cancelled
  /\ published' = pub.before
  /\ Finish
  /\ Missed
  /\ UNCHANGED <<store, local, changes, dirty, phase, mode, booted>>

\* A call fails: dirtySince starts again, published stays.
PublishFails ==
  /\ pub.pc \in {"count", "copy", "put"}
  /\ Fault \/ Cancelled
  /\ Finish
  /\ Missed
  /\ UNCHANGED <<store, local, changes, published, dirty, phase, mode, booted>>

\* Put fails after the store has taken the object.
PutUnanswered ==
  /\ pub.pc = "put"
  /\ Fault \/ Cancelled
  /\ object' = pub.copy
  /\ Finish
  /\ Missed
  /\ UNCHANGED <<content, local, changes, published, dirty, phase, mode, booted>>

\* The signal: Shutdown stops new requests, ListenAndServe returns at once, and the
\* background context is cancelled.  Requests under way go on.
Stop ==
  /\ phase = "up"
  /\ phase' = "stopping"
  /\ due' = local
  /\ UNCHANGED <<store, local, mode, tracking, booted, faults>>

\* Mutant of Flush: only changes a tick has noticed are outstanding.
FlushNoticed ==
  /\ phase = "stopping"
  /\ pub.pc = "idle"
  /\ IF dirty THEN Begin("flush") ELSE pub' = Done
  /\ UNCHANGED <<store, local, changes, published, dirty, process, faults>>

\* Run sees the cancelled context and flushes.
Flush ==
  /\ phase = "stopping"
  /\ pub.pc = "idle"
  /\ IF changes # published THEN Begin("flush") ELSE pub' = Done
  /\ UNCHANGED <<store, local, changes, published, dirty, process, faults>>

\* The counter cannot be read.
FlushFails ==
  /\ phase = "stopping"
  /\ pub.pc = "idle"
  /\ Fault
  /\ pub' = Done
  /\ due' = 0
  /\ UNCHANGED <<store, local, changes, published, dirty, phase, mode, booted>>

-----------------------------------------------------------------------------
(* The process *)

\* Mutant of Forget: the counter is taken for one of the database, not of the connection.
ForgetKeepsCounter == UNCHANGED changes /\ published' = 0 /\ dirty' = FALSE /\ pub' = Idle

\* The memory of a process.
Forget == changes' = 0 /\ published' = 0 /\ dirty' = FALSE /\ pub' = Idle

\* The loops have ended, the last request is answered or given up: main returns.
Exit ==
  /\ phase = "stopping"
  /\ pub.pc = "done"
  /\ phase' = "down"
  /\ Forget
  /\ UNCHANGED <<store, local, mode, booted, due, faults>>

\* The process is killed; the store may still take an object it was sent.
Crash ==
  /\ phase # "down"
  /\ Fault
  /\ phase' = "down"
  /\ due' = 0
  /\ Forget
  /\ object' = object \/ (pub.pc = "put" /\ object' = pub.copy)
  /\ UNCHANGED <<content, local, mode, booted>>

LoseVolume ==
  /\ phase = "down"
  /\ local # 0
  /\ Fault
  /\ local' = 0
  /\ UNCHANGED <<store, tracking, process>>

\* The operator starts the next process with another setting.
Configure ==
  /\ phase = "down"
  /\ mode' \in RestoreModes \ {mode}
  /\ UNCHANGED <<store, local, tracking, phase, booted, due, faults>>

\* The process serves version v.  A new connection counts from zero, and
\* newSnapshotPublisher takes that for published.
Start(v) ==
  /\ phase' = "up"
  /\ local' = v
  /\ booted' = v
  /\ due' = 0
  /\ Forget
  /\ UNCHANGED <<object, mode, faults>>

\* The local database is the source of truth.
BootLocal ==
  /\ phase = "down"
  /\ local # 0
  /\ Start(local)
  /\ UNCHANGED content

\* Without one: a new database if told so or if nothing is published.  In "auto" mode
\* downloadSnapshot must succeed, so nothing published stops the boot.
MayStartFresh == mode = "ignore" \/ (mode = "unset" /\ object = 0)

BootFresh ==
  /\ phase = "down"
  /\ local = 0
  /\ MayStartFresh
  /\ object < MaxVersions
  /\ content' = [content EXCEPT ![object + 1] = Empty]
  /\ Start(object + 1)

\* The published object, downloaded and verified.
Restorable == object # 0 /\ content[object] # Foreign

BootRestore ==
  /\ phase = "down"
  /\ local = 0
  /\ mode = "auto"
  /\ Restorable
  /\ Start(object)
  /\ UNCHANGED content

\* The restore-db command, while the server is down and without -force.
RestoreDb ==
  /\ phase = "down"
  /\ local = 0
  /\ Restorable
  /\ local' = object
  /\ UNCHANGED <<store, tracking, process, faults>>

-----------------------------------------------------------------------------

Publish ==
  \/ TickNotices \/ TickPublishes
  \/ Count \/ Refuse \/ Copy \/ Put \/ PublishFails \/ PutUnanswered
  \/ Flush \/ FlushFails

Next ==
  \/ Write \/ RollBack
  \/ Publish
  \/ Stop \/ Exit \/ Crash \/ LoseVolume \/ Configure
  \/ BootLocal \/ BootFresh \/ BootRestore \/ RestoreDb

PublisherSpec == Init /\ [][Next]_pubVars

\* The publisher is a goroutine with a ticker: while the process lives, it runs.
FairPublisherSpec == PublisherSpec /\ WF_pubVars(Publish)

-----------------------------------------------------------------------------
(* Properties *)

\* Every variable stays in its declared range.
PublisherTypeOK ==
  /\ content \in [Versions -> Content]
  /\ local \in 0..MaxVersions
  /\ object \in 0..MaxVersions
  /\ phase \in {"down", "up", "stopping"}
  /\ mode \in RestoreModes
  /\ changes \in 0..(MaxVersions + MaxFaults)
  /\ published \in 0..(MaxVersions + MaxFaults)
  /\ dirty \in BOOLEAN
  /\ pub \in PublishState
  /\ booted \in 0..MaxVersions
  /\ due \in 0..MaxVersions
  /\ faults \in 0..MaxFaults

\* db_publisher.go:115: what the publisher takes for clean has been published, or was
\* there when the process started; a write during the copy keeps it dirty.
CleanIsPublished ==
  phase # "down" /\ changes = published => local \in {object, booted}

\* Whatever crashes, failed calls, lost volumes and restores happen, the published
\* object never goes back to an earlier state of the database, and a state that has
\* been published is never given up for another.
SnapshotMovesForward ==
  [][object' >= object /\ \A v \in 1..object : content'[v] = content[v]]_pubVars

\* db_snapshot.go:259: unless told so, a database with rows is never replaced by one
\* without in the snapshot store.
GoodCopyKept ==
  [][mode # "ignore" /\ object # 0 /\ content[object] # Empty
       => content'[object'] # Empty]_pubVars

\* A publisher that keeps running publishes every commit of its process, or a later one.
WritesArePublished ==
  \A v \in Versions :
    phase = "up" /\ local = v /\ v > booted ~> object >= v \/ phase # "up"

\* README.md:145: the database is published "once more on shutdown".  What was committed
\* when the signal came is in the store when the process has ended by itself, whatever
\* publish the signal cut off and whatever commits came after it, unless the last
\* publish itself failed.
SignalledIsPublished == phase = "down" /\ due > booted => object >= due

\* README.md:309, the lag of the published copy is bounded by the delay: a writer that
\* stays up, after the store once had its database, ends up with it in the store.
PublisherConverges ==
  <>[](phase = "up") /\ <>(object # 0 /\ object = local) => <>[](object = local)
=============================================================================
