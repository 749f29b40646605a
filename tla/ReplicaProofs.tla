---------------------------- MODULE ReplicaProofs ----------------------------
(***************************************************************************)
(* What is proved about a replica beside its writer: it implements          *)
(* Following, for any databases, any number of commits, failures, restarts  *)
(* and redeployments.                                                      *)
(***************************************************************************)
EXTENDS Replica, PublisherProofs

\* What has been published is what the store holds and what it held before.
PublicOK ==
  /\ public \subseteq 1..object
  /\ object # 0 => object \in public

\* The file on the replica's disk and what its readers saw are verified, published
\* states; the file is the later of the two.
Fetched ==
  /\ file \in Readable \cup {0}
  /\ shown \in Readable \cup {0}
  /\ file # 0 => shown <= file

\* The handle reads what was shown last, and a file that is to be opened is there.
Handled ==
  /\ handle # 0 => handle = shown /\ file # 0
  /\ fetch.pc \in {"open", "bootOpen"} => file # 0
  /\ fetch.pc \in {"head", "get", "open"} => handle # 0
  /\ fetch.pc \in {"bootGet", "bootOpen"} => handle = 0

ReplicaInv ==
  /\ PublisherInv
  /\ ReplicaTypeOK
  /\ PublicOK
  /\ Fetched
  /\ Handled

-----------------------------------------------------------------------------

LEMMA ReplicaInitInv == ASSUME ReplicaInit PROVE ReplicaInv
<1>1. PublisherInv
  BY PublisherInit DEF ReplicaInit
<1>2. object \in 0..MaxVersions
  BY <1>1 DEF PublisherInv, PublisherTypeOK
<1>3. ReplicaTypeOK
  BY <1>2, PublisherAssumption DEF ReplicaInit, ReplicaTypeOK, FetchState, NoFetch, Versions
<1>4. PublicOK /\ Fetched /\ Handled
  BY <1>2 DEF ReplicaInit, PublicOK, Fetched, Handled, NoFetch
<1> QED BY <1>1, <1>3, <1>4 DEF ReplicaInv

\* The writer, whatever it does, leaves the published states as they are and adds
\* none but a later one.
LEMMA WriterAdds ==
  ASSUME ReplicaInv, WriterStep
  PROVE  /\ PublisherInv'
         /\ object \in 0..MaxVersions /\ object' \in 0..MaxVersions /\ object <= object'
         /\ public' = public \cup ({object'} \ {0})
         /\ \A v \in public : content'[v] = content[v]
<1>1. PublisherInv /\ Next
  BY DEF ReplicaInv, WriterStep
<1>2. PublisherInv'
  BY <1>1, PublisherStep
<1>3. object \in 0..MaxVersions /\ object' \in 0..MaxVersions
  BY <1>1, <1>2 DEF PublisherInv, PublisherTypeOK
<1>4. object <= object'
  BY <1>1, <1>3, ObjectIsCopy DEF PublisherInv, InOrder, PublisherTypeOK, PublishState
<1>5. \A v \in public : content'[v] = content[v]
  BY <1>1, ObjectIsCopy DEF ReplicaInv, PublicOK
<1> QED BY <1>2, <1>3, <1>4, <1>5 DEF WriterStep

LEMMA WriterKeepsReplica == ASSUME ReplicaInv, WriterStep PROVE ReplicaInv'
<1>0. /\ PublisherInv'
      /\ object \in 0..MaxVersions /\ object' \in 0..MaxVersions /\ object <= object'
      /\ public' = public \cup ({object'} \ {0})
      /\ \A v \in public : content'[v] = content[v]
  BY WriterAdds
<1>a. MaxVersions \in Nat
  BY PublisherAssumption
<1>1. public' \subseteq Versions
  BY <1>0, <1>a DEF ReplicaInv, ReplicaTypeOK, Versions
<1>2. ReplicaTypeOK'
  BY <1>1 DEF ReplicaInv, ReplicaTypeOK, WriterStep, replicaVars
<1>3. PublicOK'
  <2>1. public \subseteq 1..object
    BY DEF ReplicaInv, PublicOK
  <2>2. ASSUME NEW v \in public' PROVE v \in 1..object'
    <3>1. CASE v \in public
      <4>1. v \in 1..object
        BY <2>1, <3>1
      <4> QED BY <1>0, <4>1
    <3>2. CASE v = object' /\ object' # 0
      BY <1>0, <3>2
    <3> QED BY <1>0, <2>2, <3>1, <3>2
  <2>3. object' # 0 => object' \in public'
    BY <1>0
  <2> QED BY <2>2, <2>3 DEF PublicOK
<1>4. Readable \subseteq Readable'
  BY <1>0 DEF Readable
<1>5. Fetched' /\ Handled'
  BY <1>4 DEF ReplicaInv, Fetched, Handled, WriterStep, replicaVars
<1> QED BY <1>0, <1>2, <1>3, <1>5 DEF ReplicaInv

\* The replica changes nothing of the writer's, except for the count of failures.
LEMMA ReplicaKeepsWriter == ASSUME ReplicaInv, ReplicaStep PROVE PublisherInv' /\ UNCHANGED <<store, public>>
<1>1. UNCHANGED <<store, local, process, tracking, public>> /\ faults' \in faults..MaxFaults
  BY PublisherAssumption
     DEF ReplicaInv, PublisherInv, PublisherTypeOK, ReplicaStep, Poll, Boot, PollNotices, PollDescribes,
         PollDownloads, PollRefused, PollOpens, PollFails, BootDescribes, BootDownloads, BootRefused,
         BootOpens, BootWithFile, Kill, Redeploy, Downloaded, Fault, pubVars, store, process, tracking, history
<1>2. NumbersOK' /\ FlagsOK'
  BY <1>1, PublisherAssumption
     DEF ReplicaInv, PublisherInv, PublisherTypeOK, NumbersOK, FlagsOK, store, process, tracking
<1>3. (pub \in PublishState)'
  BY <1>1 DEF ReplicaInv, PublisherInv, PublisherTypeOK, tracking
<1>4. PublisherTypeOK'
  BY <1>2, <1>3 DEF PublisherTypeOK, NumbersOK, FlagsOK
<1>5. Counted'
  <2>1. /\ changes \in Nat /\ local \in Nat /\ faults \in Nat /\ faults' \in Nat /\ faults <= faults'
        /\ local' = local /\ changes' = changes /\ published' = published /\ pub' = pub
    BY <1>1, PublisherAssumption DEF ReplicaInv, PublisherInv, PublisherTypeOK, tracking
  <2>2. changes' <= local' + faults'
    <3>1. changes \in Nat /\ local \in Nat /\ changes <= local + faults
      BY <2>1 DEF ReplicaInv, PublisherInv, Counted
    <3>2. ASSUME NEW c \in Nat, NEW l \in Nat, NEW f \in Nat, NEW g \in Nat, f <= g, c <= l + f
          PROVE  c <= l + g
      BY <3>2
    <3>3. faults \in Nat /\ faults' \in Nat /\ faults <= faults'
      BY <2>1
    <3> QED BY <2>1, <3>1, <3>2, <3>3
  <2> QED BY <2>1, <2>2 DEF ReplicaInv, PublisherInv, Counted
<1>6. (Resting /\ InOrder /\ CleanIsPublished /\ Guarded)'
  BY <1>1 DEF ReplicaInv, PublisherInv, Resting, InOrder, CleanIsPublished, Guarded, store, process, tracking
<1>7. (Signalled /\ SignalledIsPublished)'
  BY <1>1 DEF ReplicaInv, PublisherInv, Signalled, SignalledIsPublished, Versions, store, process, tracking
<1> QED BY <1>1, <1>4, <1>5, <1>6, <1>7 DEF PublisherInv

\* Each step of the replica keeps its part of the invariant.
LEMMA ReplicaKeepsReplica ==
  ASSUME ReplicaInv, ReplicaStep PROVE ReplicaTypeOK' /\ Fetched' /\ Handled'
<1>1. /\ object \in 0..MaxVersions
      /\ Readable' = Readable
      /\ \A v \in Readable : v \in Versions /\ v <= object
  <2>1. UNCHANGED <<store, public>>
    BY ReplicaKeepsWriter
  <2>2. object \in 0..MaxVersions
    BY DEF ReplicaInv, PublisherInv, PublisherTypeOK
  <2>3. Readable' = Readable
    BY <2>1 DEF Readable, store
  <2>4. ASSUME NEW v \in Readable PROVE v \in Versions /\ v <= object
    BY <2>2 DEF ReplicaInv, PublicOK, ReplicaTypeOK, Readable
  <2> QED BY <2>2, <2>3, <2>4
<1>2. Verified(object) => object \in Readable
  BY DEF ReplicaInv, PublicOK, Verified, Readable
<1>0. ReplicaTypeOK /\ Fetched /\ Handled /\ MaxVersions \in Nat
  BY PublisherAssumption DEF ReplicaInv
<1>3. ReplicaTypeOK'
  <2> USE <1>0, <1>1, <1>2 DEF ReplicaTypeOK, NoFetch, Versions
  <2>1. public' \in SUBSET Versions
    BY ReplicaKeepsWriter
  <2>2. file' \in 0..MaxVersions /\ handle' \in 0..MaxVersions
    BY DEF ReplicaStep, Poll, Boot, PollNotices, PollDescribes, PollDownloads, PollRefused, PollOpens, PollFails,
           BootDescribes, BootDownloads, BootRefused, BootOpens, BootWithFile, Kill, Redeploy, Downloaded
  <2>3. fetch' \in FetchState
    <3> USE DEF FetchState
    <3>1. CASE PollNotices
      BY <3>1 DEF PollNotices
    <3>2. CASE PollDescribes
      BY <3>2 DEF PollDescribes
    <3>3. CASE BootDescribes \/ BootWithFile
      BY <3>3 DEF BootDescribes, BootWithFile
    <3>4. CASE BootDownloads \/ PollDownloads
      BY <3>4 DEF BootDownloads, PollDownloads, Downloaded
    <3>5. CASE BootRefused \/ PollRefused \/ BootOpens \/ PollOpens
      BY <3>5 DEF BootRefused, PollRefused, BootOpens, PollOpens
    <3>6. CASE PollFails \/ Kill \/ Redeploy
      BY <3>6 DEF PollFails, Kill, Redeploy
    <3> QED BY <3>1, <3>2, <3>3, <3>4, <3>5, <3>6 DEF ReplicaStep, Poll, Boot
  <2>4. current' \in 0..MaxVersions /\ shown' \in 0..MaxVersions
    BY DEF FetchState, ReplicaStep, Poll, Boot, PollNotices, PollDescribes, PollDownloads, PollRefused, PollOpens,
           PollFails, BootDescribes, BootDownloads, BootRefused, BootOpens, BootWithFile, Kill, Redeploy,
           Downloaded, history
  <2> QED BY <2>1, <2>2, <2>3, <2>4
<1>4. Fetched'
  <2> USE <1>0, <1>1, <1>2 DEF Fetched, history
  <2>1. CASE BootDownloads \/ PollDownloads
    <3>1. file' = object /\ shown' = shown /\ object \in Readable
      BY <1>2, <2>1 DEF BootDownloads, PollDownloads, Downloaded, MayPass
    <3> QED BY <3>1
  <2>2. CASE BootOpens \/ PollOpens \/ BootWithFile
    <3>1. file' = file /\ shown' = file /\ file \in 0..MaxVersions
      BY <2>2 DEF BootOpens, PollOpens, BootWithFile, ReplicaTypeOK
    <3> QED BY <3>1
  <2>3. CASE Redeploy
    BY <2>3 DEF Redeploy
  <2>4. CASE BootDescribes \/ BootRefused \/ PollNotices \/ PollDescribes \/ PollRefused \/ PollFails \/ Kill
    <3>1. file' = file /\ shown' = shown
      BY <2>4 DEF BootDescribes, BootRefused, PollNotices, PollDescribes, PollRefused, PollFails, Kill
    <3> QED BY <3>1
  <2> QED BY <2>1, <2>2, <2>3, <2>4 DEF ReplicaStep, Poll, Boot
<1>5. Handled'
  <2> USE <1>0 DEF Handled, NoFetch, history
  <2>1. fetch \in FetchState
    BY DEF ReplicaTypeOK
  <2>2. CASE BootDescribes \/ BootRefused \/ BootOpens \/ BootWithFile
    BY <2>1, <2>2 DEF BootDescribes, BootRefused, BootOpens, BootWithFile, FetchState
  <2>3. CASE BootDownloads \/ PollDownloads
    <3>1. object # 0
      BY <2>3 DEF BootDownloads, PollDownloads, Downloaded, MayPass, Verified
    <3> QED BY <2>1, <2>3, <3>1 DEF BootDownloads, PollDownloads, Downloaded, FetchState
  <2>4. CASE PollNotices
    BY <2>1, <2>4 DEF PollNotices, FetchState
  <2>7. CASE PollDescribes
    BY <2>1, <2>7 DEF PollDescribes, FetchState
  <2>8. CASE PollRefused
    BY <2>1, <2>8 DEF PollRefused, FetchState
  <2>5. CASE PollOpens \/ PollFails
    BY <2>1, <2>5 DEF PollOpens, PollFails, FetchState
  <2>6. CASE Kill \/ Redeploy
    BY <2>1, <2>6 DEF Kill, Redeploy
  <2> QED BY <2>2, <2>3, <2>4, <2>5, <2>6, <2>7, <2>8 DEF ReplicaStep, Poll, Boot
<1> QED BY <1>3, <1>4, <1>5

LEMMA ReplicaInvStep == ASSUME ReplicaInv, [ReplicaNext]_vars PROVE ReplicaInv'
<1>1. CASE WriterStep
  BY <1>1, WriterKeepsReplica
<1>2. CASE ReplicaStep
  <2>1. PublicOK'
    BY <1>2, ReplicaKeepsWriter DEF ReplicaInv, PublicOK, store
  <2> QED BY <1>2, <2>1, ReplicaKeepsWriter, ReplicaKeepsReplica DEF ReplicaInv
<1>3. CASE UNCHANGED vars
  <2>1. PublisherInv'
    BY <1>3, PublisherStep DEF ReplicaInv, vars
  <2>2. (ReplicaTypeOK /\ PublicOK /\ Fetched /\ Handled)'
    BY <1>3 DEF ReplicaInv, ReplicaTypeOK, PublicOK, Fetched, Handled, Readable, vars, pubVars, replicaVars, history
  <2> QED BY <2>1, <2>2 DEF ReplicaInv
<1> QED BY <1>1, <1>2, <1>3 DEF ReplicaNext

LEMMA ReplicaInvariant == ReplicaSpec => []ReplicaInv
<1>1. ReplicaInit => ReplicaInv
  BY ReplicaInitInv
<1>2. ReplicaInv /\ [ReplicaNext]_vars => ReplicaInv'
  BY ReplicaInvStep
<1> QED BY <1>1, <1>2, PTL DEF ReplicaSpec

-----------------------------------------------------------------------------

\* Every variable of the replica stays in its range.
THEOREM ReplicaTypeCorrect == ReplicaSpec => []ReplicaTypeOK
<1>1. ReplicaInv => ReplicaTypeOK
  BY DEF ReplicaInv
<1> QED BY <1>1, ReplicaInvariant, PTL

LEMMA WriterPublishes == ASSUME ReplicaInv, WriterStep PROVE Promise!Publish
<1>1. /\ public \subseteq 1..object
      /\ UNCHANGED <<handle, shown>>
  BY DEF ReplicaInv, PublicOK, WriterStep, replicaVars
<1>0. \A u \in public : content'[u] = content[u] /\ u \in public'
  BY WriterAdds
<1>2. Readable \subseteq Readable'
  BY <1>0 DEF Readable
<1>3. ASSUME NEW v \in Readable', v \notin Readable
      PROVE  v \in Nat \ {0} /\ \A u \in Readable : u <= v
  <2>1. /\ object \in Nat /\ object' \in Nat /\ object <= object'
        /\ public' = public \cup ({object'} \ {0})
        /\ \A u \in public : content'[u] = content[u]
    BY WriterAdds, PublisherAssumption
  <2>2. v = object' /\ v # 0
    BY <1>3, <2>1 DEF Readable
  <2>3. \A u \in Readable : u \in 1..object
    BY <1>1 DEF Readable
  <2> QED BY <2>1, <2>2, <2>3
<1> QED BY <1>1, <1>2, <1>3 DEF Promise!Publish

LEMMA ReplicaServes ==
  ASSUME ReplicaInv, ReplicaStep
  PROVE  Promise!Serve \/ Promise!Withdraw \/ UNCHANGED <<Readable, handle, shown>>
<1>1. Readable' = Readable
  BY ReplicaKeepsWriter DEF Readable, store
<1>2. CASE BootOpens \/ BootWithFile \/ PollOpens
  <2>1. file \in Readable /\ shown <= file /\ shown \in 0..MaxVersions /\ file \in 0..MaxVersions
    BY <1>2 DEF ReplicaInv, ReplicaTypeOK, Fetched, Handled, BootOpens, BootWithFile, PollOpens
  <2>2. handle' = file /\ shown' = file
    BY <1>2 DEF BootOpens, BootWithFile, PollOpens
  <2> QED BY <1>1, <2>1, <2>2, PublisherAssumption DEF Promise!Serve
<1>3. CASE Kill
  BY <1>1, <1>3 DEF Kill, history, Promise!Withdraw
<1>4. CASE BootDescribes \/ BootDownloads \/ BootRefused \/ Redeploy
  BY <1>1, <1>4 DEF BootDescribes, BootDownloads, BootRefused, Redeploy, Downloaded, history
<1>5. CASE PollNotices \/ PollDescribes \/ PollDownloads \/ PollRefused \/ PollFails
  BY <1>1, <1>5 DEF PollNotices, PollDescribes, PollDownloads, PollRefused, PollFails, Downloaded, history
<1> QED BY <1>2, <1>3, <1>4, <1>5 DEF ReplicaStep, Poll, Boot

\* db_replica.go:15-19: a reader of a replica sees published, verified states only, and
\* never an older one than before.
THEOREM ReplicaImplementsFollowing == ReplicaSpec => FollowingSpec
<1>1. ReplicaInit => Promise!Init
  <2> SUFFICES ASSUME ReplicaInit PROVE Promise!Init
    OBVIOUS
  <2>1. public \subseteq Versions
    BY ReplicaInitInv DEF ReplicaInv, ReplicaTypeOK
  <2> QED BY <2>1, PublisherAssumption DEF ReplicaInit, Promise!Init, Readable, Versions
<1>2. ReplicaInv /\ [ReplicaNext]_vars => [Promise!Next]_<<Readable, handle, shown>>
  <2> SUFFICES ASSUME ReplicaInv, [ReplicaNext]_vars
               PROVE  Promise!Next \/ UNCHANGED <<Readable, handle, shown>>
    OBVIOUS
  <2>1. CASE WriterStep
    BY <2>1, WriterPublishes DEF Promise!Next
  <2>2. CASE ReplicaStep
    BY <2>2, ReplicaServes DEF Promise!Next
  <2>3. CASE UNCHANGED vars
    BY <2>3 DEF vars, pubVars, replicaVars, history, Readable
  <2> QED BY <2>1, <2>2, <2>3 DEF ReplicaNext
<1> QED BY <1>1, <1>2, ReplicaInvariant, PTL DEF ReplicaSpec, FollowingSpec, Promise!Spec
=============================================================================
