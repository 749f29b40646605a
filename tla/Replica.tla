------------------------------- MODULE Replica -------------------------------
(***************************************************************************)
(* A read-only instance beside the writer of Publisher: it downloads the    *)
(* object the writer publishes, serves it, and polls for the next one       *)
(* (db_replica.go, db_snapshot.go, the read-only case of db.go).            *)
(*                                                                         *)
(* The two processes share nothing but the snapshot store.  A HEAD and the  *)
(* GET that follows it are two requests: the writer may put another object  *)
(* in between.                                                             *)
(***************************************************************************)
EXTENDS Publisher

VARIABLES
  file,     \* the version in the replica's database file, 0 without one
  handle,   \* the version dbRef reads, 0 while the process is down
  current,  \* snapshotReplica.current, 0 where activeReplica is nil
  fetch,    \* the refresh, or the boot, under way
  public,   \* history: the versions that have been published
  shown     \* history: the last version served

replicaVars == <<file, handle, current, fetch>>
history == <<public, shown>>
vars == <<pubVars, replicaVars, history>>

\* The next call of refresh or bootDatabase, what headSnapshot described, and what
\* the HEAD of the download did.
NoFetch == [pc |-> "idle", head |-> 0, info |-> 0]
FetchState ==
  [pc   : {"idle", "head", "get", "open", "bootGet", "bootOpen"},
   head : 0..MaxVersions,
   info : 0..MaxVersions]

ReplicaInit ==
  /\ Init
  /\ file = 0 /\ handle = 0 /\ current = 0 /\ fetch = NoFetch
  /\ public = {object} \ {0}
  /\ shown = 0

\* The writer, its environment and the store.
WriterStep ==
  /\ Next
  /\ public' = public \cup ({object'} \ {0})
  /\ UNCHANGED <<replicaVars, shown>>

-----------------------------------------------------------------------------
(* The download, at boot and in a refresh *)

\* Mutant of Verified: any object that arrives whole will do.
VerifiedWhole(v) == v # 0

\* verifySnapshot: the object holds the schema this build reads.
Verified(v) == v # 0 /\ content[v] # Foreign

\* The GET returns the object of the moment.  One that has replaced the object
\* described before passes if it has the same size.
MayPass == Verified(object)
MayFail == ~Verified(object) \/ object # fetch.info

\* downloadSnapshot ends well: the verified file is renamed into place.
Downloaded(next) ==
  /\ MayPass
  /\ file' = object
  /\ fetch' = [fetch EXCEPT !.pc = next]
  /\ UNCHANGED <<pubVars, handle, current, history>>

-----------------------------------------------------------------------------
(* The process *)

\* Without a file bootDatabase downloads one; downloadSnapshot asks for its size first.
BootDescribes ==
  /\ handle = 0 /\ file = 0
  /\ fetch.pc = "idle"
  /\ object # 0
  /\ fetch' = [pc |-> "bootGet", head |-> 0, info |-> object]
  /\ UNCHANGED <<pubVars, file, handle, current, history>>

BootDownloads == fetch.pc = "bootGet" /\ Downloaded("bootOpen")

\* Mutant of BootRefused: the replica starts with a database of its own.
BootRefusedFresh ==
  /\ fetch.pc = "bootGet"
  /\ MayFail
  /\ file' = MaxVersions + 1
  /\ fetch' = NoFetch
  /\ UNCHANGED <<pubVars, handle, current, history>>

\* The boot fails and the process ends.
BootRefused ==
  /\ fetch.pc = "bootGet"
  /\ MayFail
  /\ fetch' = NoFetch
  /\ UNCHANGED <<pubVars, file, handle, current, history>>

\* The handle is stored, and the version followed is the one described.
BootOpens ==
  /\ fetch.pc = "bootOpen"
  /\ handle' = file
  /\ current' = fetch.info
  /\ fetch' = NoFetch
  /\ shown' = file
  /\ UNCHANGED <<pubVars, file, public>>

\* With a file the instance serves it, and there is no activeReplica.
BootWithFile ==
  /\ handle = 0 /\ file # 0
  /\ fetch.pc = "idle"
  /\ handle' = file
  /\ shown' = file
  /\ UNCHANGED <<pubVars, file, current, fetch, public>>

\* The process ends, at any point; its file stays.
Kill ==
  /\ handle # 0 \/ fetch.pc # "idle"
  /\ handle' = 0 /\ current' = 0 /\ fetch' = NoFetch
  /\ UNCHANGED <<pubVars, file, history>>

\* The container is replaced by a new one, without its file.
Redeploy ==
  /\ handle = 0 /\ fetch.pc = "idle" /\ file # 0
  /\ file' = 0
  /\ UNCHANGED <<pubVars, handle, current, fetch, history>>

-----------------------------------------------------------------------------
(* The refresh *)

\* sameSnapshot: the entity tag is derived from the bytes.
SameSnapshot(a, b) == content[a] = content[b]

\* Mutant of PollNotices: the version is recorded as soon as it is seen.
PollNoticesRecorded ==
  /\ handle # 0 /\ current # 0
  /\ fetch.pc = "idle"
  /\ object # 0
  /\ ~SameSnapshot(object, current)
  /\ fetch' = [pc |-> "head", head |-> object, info |-> 0]
  /\ current' = object
  /\ UNCHANGED <<pubVars, file, handle, history>>

\* refresh asks what is published; without an answer, or with the same, it is over.
PollNotices ==
  /\ handle # 0 /\ current # 0
  /\ fetch.pc = "idle"
  /\ object # 0
  /\ ~SameSnapshot(object, current)
  /\ fetch' = [pc |-> "head", head |-> object, info |-> 0]
  /\ UNCHANGED <<pubVars, file, handle, current, history>>

\* downloadSnapshot asks again, for the size.
PollDescribes ==
  /\ fetch.pc = "head"
  /\ fetch' = [fetch EXCEPT !.pc = "get", !.info = object]
  /\ UNCHANGED <<pubVars, file, handle, current, history>>

PollDownloads == fetch.pc = "get" /\ Downloaded("open")

PollRefused ==
  /\ fetch.pc = "get"
  /\ MayFail
  /\ fetch' = NoFetch
  /\ UNCHANGED <<pubVars, file, handle, current, history>>

\* replaceDatabase swaps the handle, and what the first HEAD described is followed.
PollOpens ==
  /\ fetch.pc = "open"
  /\ handle' = file
  /\ current' = fetch.head
  /\ fetch' = NoFetch
  /\ shown' = file
  /\ UNCHANGED <<pubVars, file, public>>

\* A request fails, or the file cannot be opened: the old handle goes on serving,
\* though the new file may be in place.
PollFails ==
  /\ fetch.pc \in {"head", "get", "open"}
  /\ Fault
  /\ fetch' = NoFetch
  /\ UNCHANGED <<store, local, process, tracking, file, handle, current, history>>

-----------------------------------------------------------------------------

Poll == PollNotices \/ PollDescribes \/ PollDownloads \/ PollRefused \/ PollOpens \/ PollFails

Boot == BootDescribes \/ BootDownloads \/ BootRefused \/ BootOpens \/ BootWithFile

ReplicaStep == Poll \/ Boot \/ Kill \/ Redeploy

ReplicaNext == WriterStep \/ ReplicaStep

ReplicaSpec == ReplicaInit /\ [][ReplicaNext]_vars

\* The refresh loop is a goroutine with a timer.
FairReplicaSpec == ReplicaSpec /\ WF_vars(Poll)

-----------------------------------------------------------------------------
(* Properties *)

\* Every variable stays in its declared range.
ReplicaTypeOK ==
  /\ file \in 0..MaxVersions
  /\ handle \in 0..MaxVersions
  /\ current \in 0..MaxVersions
  /\ fetch \in FetchState
  /\ public \subseteq Versions
  /\ shown \in 0..MaxVersions

\* The refinement mapping: published objects that this build reads.
Readable == {v \in public : content[v] # Foreign}

Promise == INSTANCE Following WITH readable <- Readable, served <- handle, latest <- shown

\* A reader is answered from a verified published state and never from an older one
\* than before, through downloads that race with the publisher, failures at every
\* call, restarts and redeployments of both sides.
FollowingSpec == Promise!Spec

\* A replica that polls, and goes on polling, comes to serve every readable state it
\* could have found published, or a later one, though the version it records may not
\* be the one it downloaded (db_replica.go:83): unless the database has come back to
\* what it held by the time of the state served, which the replica may take for it.
CatchesUp ==
  \A v \in Versions :
    current # 0 /\ object = v /\ content[v] # Foreign
      ~> \/ current = 0
         \/ handle >= v
         \/ \E u \in public : u <= handle /\ content[u] = content[object]

\* README.md:160, every ART_DB_POLL_INTERVAL a replica "asks whether the object
\* changed, and downloads it only when it did": one that stays up ends with what is
\* published.
LagIsBounded ==
  \A v \in Versions :
    <>[](handle # 0 /\ object = v /\ content[v] # Foreign)
       => <>[](handle # 0 /\ content[handle] = content[v])
=============================================================================
