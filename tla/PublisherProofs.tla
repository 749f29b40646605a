--------------------------- MODULE PublisherProofs ---------------------------
(***************************************************************************)
(* What is proved about the publisher: its invariants and what a step never *)
(* does to the published object, for any databases, any number of commits   *)
(* and failures, and every setting of ART_DB_RESTORE.                       *)
(***************************************************************************)
EXTENDS Publisher, TLAPS

\* A process without a database serves nothing, and one that is down publishes nothing.
Resting ==
  /\ phase # "down" => local # 0
  /\ phase = "down" => changes = 0 /\ pub = Idle

\* The database is never behind the published object, nor the copy under way.
InOrder ==
  /\ local # 0 => object <= local
  /\ pub.pc = "put" => pub.copy # 0 /\ object <= pub.copy /\ pub.copy <= local

\* The counter only grows, and a publish is begun only when it has grown.
Counted ==
  /\ published <= changes
  /\ changes <= local + faults
  /\ pub.pc \in {"count", "copy", "put"} => published < pub.before /\ pub.before <= changes
  /\ pub.pc = "put" /\ changes = pub.before => pub.copy = local

\* What is on its way to the store has rows, if the guard asked for them.
Guarded ==
  mode # "ignore" /\ object # 0 =>
    /\ pub.pc = "copy" => content[local] # Empty
    /\ pub.pc = "put" => content[pub.copy] # Empty

\* Only a process that has had its signal flushes.  The last publish copies what was
\* due, and is refused only to a process that has committed nothing.
Signalled ==
  /\ phase = "up" => due = 0 /\ pub.by = "tick" /\ pub.pc # "done"
  /\ phase = "stopping" => due <= local
  /\ pub.pc = "put" /\ pub.by = "flush" => due <= pub.copy
  /\ pub.pc = "done" /\ due > booted => object >= due
  /\ phase # "down" => \A v \in Versions : booted < v /\ v <= local => content[v] # Empty

PublisherInv ==
  /\ PublisherTypeOK
  /\ Resting
  /\ InOrder
  /\ Counted
  /\ CleanIsPublished
  /\ Guarded
  /\ Signalled
  /\ SignalledIsPublished

\* The type invariant in three parts, since the provers want numbers, records and
\* Booleans apart.
NumbersOK ==
  /\ content \in [Versions -> Content]
  /\ local \in 0..MaxVersions
  /\ object \in 0..MaxVersions
  /\ phase \in {"down", "up", "stopping"}
  /\ mode \in RestoreModes
  /\ changes \in 0..(MaxVersions + MaxFaults)
  /\ published \in 0..(MaxVersions + MaxFaults)
  /\ booted \in 0..MaxVersions
  /\ due \in 0..MaxVersions
  /\ faults \in 0..MaxFaults

FlagsOK == dirty \in BOOLEAN

-----------------------------------------------------------------------------

\* The invariant holds in every deployment a writer may start in.
LEMMA PublisherInit == ASSUME Init PROVE PublisherInv
<1>1. NumbersOK
  BY PublisherAssumption DEF Init, NumbersOK
<1>2. pub \in PublishState
  BY PublisherAssumption DEF Init, PublishState, Idle
<1>3. FlagsOK
  BY DEF Init, FlagsOK
<1>4. PublisherTypeOK
  BY <1>1, <1>2, <1>3 DEF PublisherTypeOK, NumbersOK, FlagsOK
<1>5. Resting /\ InOrder /\ Counted /\ CleanIsPublished /\ Guarded /\ Signalled /\ SignalledIsPublished
  BY PublisherAssumption
     DEF Init, Resting, InOrder, Counted, CleanIsPublished, Guarded, Signalled, SignalledIsPublished, Idle
<1> QED BY <1>4, <1>5 DEF PublisherInv

\* Numbers stay in range: the counter never runs ahead of the commits and the failures.
LEMMA NumbersStep == ASSUME PublisherInv, Next PROVE NumbersOK'
<1> USE PublisherAssumption
<1> USE DEF PublisherInv, PublisherTypeOK, NumbersOK, PublishState, Counted, Idle, Done,
            store, process, tracking
<1>1. CASE TickNotices \/ TickPublishes \/ Flush \/ FlushFails
  BY <1>1 DEF TickNotices, TickPublishes, Flush, FlushFails, Fault, Begin
<1>2. CASE Count \/ Copy
  BY <1>2 DEF Count, LooksEmpty, Copy
<1>3. CASE Put
  BY <1>3 DEF Put, Finish
<1>4. CASE PutUnanswered
  BY <1>4 DEF PutUnanswered, Finish, Missed, Fault, Cancelled
<1>5. CASE Refuse
  BY <1>5 DEF Refuse, Finish
<1>6. CASE PublishFails
  BY <1>6 DEF PublishFails, Finish, Missed, Fault, Cancelled
<1>7. CASE Write
  BY <1>7 DEF Write, Versions, Content
<1>8. CASE RollBack
  BY <1>8 DEF RollBack, Fault
<1>9. CASE Stop \/ Exit \/ Crash \/ LoseVolume \/ Configure
  BY <1>9 DEF Stop, Exit, Crash, LoseVolume, Configure, Forget, Fault
<1>10. CASE BootLocal \/ BootRestore
  BY <1>10 DEF BootLocal, BootRestore, Restorable, Start, Forget
<1>11. CASE BootFresh
  BY <1>11 DEF BootFresh, Start, Forget, Versions, Content
<1>12. CASE RestoreDb
  BY <1>12 DEF RestoreDb, Restorable
<1> QED
  BY <1>1, <1>2, <1>3, <1>4, <1>5, <1>6, <1>7, <1>8, <1>9, <1>10, <1>11, <1>12 DEF Next, Publish

\* So does the publish under way.
LEMMA PublishStateStep == ASSUME PublisherInv, Next PROVE (pub \in PublishState)'
<1> USE PublisherAssumption
<1> USE DEF PublisherInv, PublisherTypeOK, PublishState, Idle, Done,
            store, process, tracking
<1>1. CASE TickNotices \/ TickPublishes \/ Flush \/ FlushFails
  BY <1>1 DEF TickNotices, TickPublishes, Flush, FlushFails, Fault, Begin
<1>2. CASE Count \/ Copy
  BY <1>2 DEF Count, LooksEmpty, Copy
<1>3. CASE Put \/ PutUnanswered
  BY <1>3 DEF Put, Finish, PutUnanswered, Missed, Fault, Cancelled
<1>4. CASE Refuse \/ PublishFails
  BY <1>4 DEF Refuse, Finish, PublishFails, Fault, Cancelled
<1>5. CASE Write \/ RollBack
  BY <1>5 DEF Write, Versions, Content, RollBack, Fault
<1>6. CASE Stop \/ Exit \/ Crash \/ LoseVolume \/ Configure
  BY <1>6 DEF Stop, Exit, Crash, LoseVolume, Configure, Forget, Fault
<1>7. CASE BootLocal \/ BootFresh \/ BootRestore \/ RestoreDb
  BY <1>7 DEF BootLocal, BootFresh, BootRestore, RestoreDb, Restorable, Start,
               Forget, Versions, Content
<1> QED
  BY <1>1, <1>2, <1>3, <1>4, <1>5, <1>6, <1>7 DEF Next, Publish

\* And the flag.
LEMMA FlagsStep == ASSUME PublisherInv, Next PROVE FlagsOK'
<1> USE PublisherAssumption
<1> USE DEF PublisherInv, PublisherTypeOK, FlagsOK,
            store, process, tracking
<1>1. CASE TickNotices \/ TickPublishes \/ Flush \/ FlushFails
  BY <1>1 DEF TickNotices, TickPublishes, Flush, FlushFails, Fault, Begin
<1>2. CASE Count \/ Copy
  BY <1>2 DEF Count, LooksEmpty, Copy
<1>3. CASE Put \/ PutUnanswered
  BY <1>3 DEF Put, Finish, PutUnanswered, Missed, Fault, Cancelled
<1>4. CASE Refuse \/ PublishFails
  BY <1>4 DEF Refuse, Finish, PublishFails, Fault, Cancelled
<1>5. CASE Write \/ RollBack
  BY <1>5 DEF Write, Versions, Content, RollBack, Fault
<1>6. CASE Stop \/ Exit \/ Crash \/ LoseVolume \/ Configure
  BY <1>6 DEF Stop, Exit, Crash, LoseVolume, Configure, Forget, Fault
<1>7. CASE BootLocal \/ BootFresh \/ BootRestore \/ RestoreDb
  BY <1>7 DEF BootLocal, BootFresh, BootRestore, RestoreDb, Restorable, Start,
               Forget, Versions, Content
<1> QED
  BY <1>1, <1>2, <1>3, <1>4, <1>5, <1>6, <1>7 DEF Next, Publish

\* A boot needs a database, and a process that goes down forgets.
LEMMA RestingStep == ASSUME PublisherInv, Next PROVE Resting'
<1> USE PublisherAssumption
<1> USE DEF PublisherInv, PublisherTypeOK, PublishState, Resting, Idle, Done,
            store, process, tracking
<1>1. CASE TickNotices \/ TickPublishes \/ Flush \/ FlushFails
  BY <1>1 DEF TickNotices, TickPublishes, Flush, FlushFails, Fault, Begin
<1>2. CASE Count \/ Copy
  BY <1>2 DEF Count, LooksEmpty, Copy
<1>3. CASE Put \/ PutUnanswered
  BY <1>3 DEF Put, Finish, PutUnanswered, Missed, Fault, Cancelled
<1>4. CASE Refuse \/ PublishFails
  BY <1>4 DEF Refuse, Finish, PublishFails, Fault, Cancelled
<1>5. CASE Write \/ RollBack
  BY <1>5 DEF Write, Versions, Content, RollBack, Fault
<1>6. CASE Stop \/ Exit \/ Crash \/ LoseVolume \/ Configure
  BY <1>6 DEF Stop, Exit, Crash, LoseVolume, Configure, Forget, Fault
<1>7. CASE BootLocal \/ BootFresh \/ BootRestore \/ RestoreDb
  BY <1>7 DEF BootLocal, BootFresh, BootRestore, RestoreDb, Restorable, Start,
               Forget, Versions, Content
<1> QED
  BY <1>1, <1>2, <1>3, <1>4, <1>5, <1>6, <1>7 DEF Next, Publish

\* What is published is never ahead of the database, nor behind the object it replaces.
LEMMA InOrderStep == ASSUME PublisherInv, Next PROVE InOrder'
<1> USE PublisherAssumption
<1> USE DEF PublisherInv, PublisherTypeOK, PublishState, Resting, InOrder, Idle, Done,
            store, process, tracking
<1>1. CASE TickNotices \/ TickPublishes \/ Flush \/ FlushFails
  BY <1>1 DEF TickNotices, TickPublishes, Flush, FlushFails, Fault, Begin
<1>2. CASE Count
  BY <1>2 DEF Count, LooksEmpty
<1>3. CASE Copy
  BY <1>3 DEF Copy
<1>4. CASE Put \/ PutUnanswered
  BY <1>4 DEF Put, Finish, PutUnanswered, Missed, Fault, Cancelled
<1>5. CASE Refuse \/ PublishFails
  BY <1>5 DEF Refuse, Finish, PublishFails, Fault, Cancelled
<1>6. CASE Write
  <2>1. phase # "down" /\ local' = local + 1 /\ UNCHANGED <<object, pub, phase, booted>>
    BY <1>6 DEF Write
  <2> QED BY <2>1
<1>9. CASE RollBack
  <2>1. UNCHANGED <<local, object, pub, phase, booted>>
    BY <1>9 DEF RollBack
  <2> QED BY <2>1
<1>7. CASE Stop \/ Exit \/ Crash \/ LoseVolume \/ Configure
  BY <1>7 DEF Stop, Exit, Crash, LoseVolume, Configure, Forget, Fault
<1>8. CASE BootLocal \/ BootFresh \/ BootRestore \/ RestoreDb
  BY <1>8 DEF BootLocal, BootFresh, BootRestore, RestoreDb, Restorable, Start,
               Forget, Versions, Content
<1> QED
  BY <1>1, <1>2, <1>3, <1>4, <1>5, <1>6, <1>7, <1>8, <1>9 DEF Next, Publish

\* A commit during a publish is one the counter read first has not seen.
LEMMA CountedStep == ASSUME PublisherInv, Next PROVE Counted'
<1> USE PublisherAssumption
<1> USE DEF PublisherInv, PublisherTypeOK, PublishState, Resting, Counted, Idle, Done,
            store, process, tracking
<1>1. CASE TickNotices \/ TickPublishes \/ Flush \/ FlushFails
  BY <1>1 DEF TickNotices, TickPublishes, Flush, FlushFails, Fault, Begin
<1>2. CASE Count \/ Copy
  BY <1>2 DEF Count, LooksEmpty, Copy
<1>3. CASE Put
  BY <1>3 DEF Put, Finish
<1>4. CASE PutUnanswered
  BY <1>4 DEF PutUnanswered, Finish, Missed, Fault, Cancelled
<1>5. CASE Refuse
  BY <1>5 DEF Refuse, Finish
<1>6. CASE PublishFails
  BY <1>6 DEF PublishFails, Finish, Missed, Fault, Cancelled
<1>7. CASE Write
  <2>1. /\ local' = local + 1 /\ changes' = changes + 1
        /\ UNCHANGED <<published, pub, faults>>
    BY <1>7 DEF Write
  <2> QED BY <2>1
<1>10. CASE RollBack
  <2>1. /\ changes' = changes + 1 /\ faults' = faults + 1
        /\ UNCHANGED <<local, published, pub>>
    BY <1>10 DEF RollBack, Fault
  <2> QED BY <2>1
<1>8. CASE Stop \/ Exit \/ Crash \/ LoseVolume \/ Configure
  BY <1>8 DEF Stop, Exit, Crash, LoseVolume, Configure, Forget, Fault
<1>9. CASE BootLocal \/ BootFresh \/ BootRestore \/ RestoreDb
  BY <1>9 DEF BootLocal, BootFresh, BootRestore, RestoreDb, Restorable, Start,
               Forget, Versions, Content
<1> QED
  BY <1>1, <1>2, <1>3, <1>4, <1>5, <1>6, <1>7, <1>8, <1>9, <1>10 DEF Next, Publish

\* So a publish whose count is still current has copied the current database.
LEMMA CleanStep == ASSUME PublisherInv, Next PROVE CleanIsPublished'
<1> USE PublisherAssumption
<1> USE DEF PublisherInv, PublisherTypeOK, PublishState, Resting, Counted, CleanIsPublished, Idle, Done,
            store, process, tracking
<1>1. CASE TickNotices \/ TickPublishes \/ Flush \/ FlushFails
  BY <1>1 DEF TickNotices, TickPublishes, Flush, FlushFails, Fault, Begin
<1>2. CASE Count \/ Copy
  BY <1>2 DEF Count, LooksEmpty, Copy
<1>3. CASE Put \/ PutUnanswered
  BY <1>3 DEF Put, Finish, PutUnanswered, Missed, Fault, Cancelled
<1>4. CASE Refuse \/ PublishFails
  BY <1>4 DEF Refuse, Finish, PublishFails, Fault, Cancelled
<1>5. CASE Write \/ RollBack
  BY <1>5 DEF Write, Versions, Content, RollBack, Fault
<1>6. CASE Stop \/ Exit \/ Crash \/ LoseVolume \/ Configure
  BY <1>6 DEF Stop, Exit, Crash, LoseVolume, Configure, Forget, Fault
<1>7. CASE BootLocal \/ BootFresh \/ BootRestore \/ RestoreDb
  BY <1>7 DEF BootLocal, BootFresh, BootRestore, RestoreDb, Restorable, Start,
               Forget, Versions, Content
<1> QED
  BY <1>1, <1>2, <1>3, <1>4, <1>5, <1>6, <1>7 DEF Next, Publish

\* No row is ever removed between the guard and the copy.
LEMMA GuardedStep == ASSUME PublisherInv, Next PROVE Guarded'
<1> USE PublisherAssumption
<1> USE DEF PublisherInv, PublisherTypeOK, PublishState, Resting, InOrder, Guarded, Idle, Done,
            store, process, tracking
<1>1. CASE TickNotices \/ TickPublishes \/ Flush \/ FlushFails
  BY <1>1 DEF TickNotices, TickPublishes, Flush, FlushFails, Fault, Begin
<1>2. CASE Count \/ Copy
  BY <1>2 DEF Count, LooksEmpty, Copy
<1>3. CASE Put \/ PutUnanswered
  BY <1>3 DEF Put, Finish, PutUnanswered, Missed, Fault, Cancelled
<1>4. CASE Refuse \/ PublishFails
  BY <1>4 DEF Refuse, Finish, PublishFails, Fault, Cancelled
<1>5. CASE Write
  <2>1. PICK c \in Contents : content' = [content EXCEPT ![local + 1] = c]
    BY <1>5 DEF Write
  <2>2. /\ UNCHANGED <<object, mode, pub>>
        /\ local' = local + 1 /\ local < MaxVersions
    BY <1>5 DEF Write
  <2>3. local \in Nat /\ local + 1 \in Versions /\ content \in [Versions -> Content]
    BY <2>2 DEF Versions
  <2>4. content'[local'] # Empty
    BY <2>1, <2>2, <2>3
  <2>5. pub.pc = "put" => pub.copy # local + 1
    BY <2>2, <2>3
  <2>6. pub.pc = "put" => content'[pub.copy] = content[pub.copy]
    BY <2>1, <2>3, <2>5
  <2> QED BY <2>2, <2>4, <2>6
<1>8. CASE RollBack
  BY <1>8 DEF RollBack
<1>6. CASE Stop \/ Exit \/ Crash \/ LoseVolume \/ Configure
  BY <1>6 DEF Stop, Exit, Crash, LoseVolume, Configure, Forget, Fault
<1>7. CASE BootLocal \/ BootFresh \/ BootRestore \/ RestoreDb
  BY <1>7 DEF BootLocal, BootFresh, BootRestore, RestoreDb, Restorable, Start,
               Forget, Versions, Content
<1> QED
  BY <1>1, <1>2, <1>3, <1>4, <1>5, <1>6, <1>7, <1>8 DEF Next, Publish

\* The last publish of a process copies at least what the signal found.
LEMMA SignalledStep == ASSUME PublisherInv, Next PROVE Signalled'
<1> USE PublisherAssumption
<1> USE DEF PublisherInv, PublisherTypeOK, PublishState, Resting, Signalled, Idle, Done,
            store, process, tracking
<1>1. CASE TickNotices \/ TickPublishes
  BY <1>1 DEF TickNotices, TickPublishes, Begin
<1>2. CASE Flush
  BY <1>2 DEF Flush, Begin, CleanIsPublished
<1>3. CASE FlushFails
  BY <1>3 DEF FlushFails, Fault
<1>4. CASE Count \/ Copy
  <2>1. UNCHANGED <<content, local, object, phase, booted, due>>
    BY <1>4 DEF Count, Copy
  <2>2. pub'.by = pub.by /\ pub'.pc \in {"copy", "put"} /\ pub.pc # "idle"
    BY <1>4 DEF Count, Copy
  <2>3. pub'.pc = "put" => pub'.copy = local
    BY <1>4 DEF Count, Copy
  <2> QED BY <2>1, <2>2, <2>3
<1>5. CASE Refuse
  BY <1>5 DEF Refuse, Finish, LooksEmpty, Versions
<1>6. CASE Put
  BY <1>6 DEF Put, Finish
<1>7. CASE PutUnanswered \/ PublishFails
  BY <1>7 DEF PutUnanswered, PublishFails, Finish, Missed, Fault, Cancelled
<1>8. CASE Write \/ RollBack
  <2>1. CASE Write
    <3>1. /\ UNCHANGED <<object, phase, booted, due, pub>>
          /\ local' = local + 1
          /\ phase # "down"
      BY <2>1 DEF Write
    <3>2. \A v \in Versions : content'[v] = content[v] \/ (v = local + 1 /\ content'[v] \in Contents)
      BY <2>1 DEF Write, Versions
    <3>3. \A v \in Versions : booted < v /\ v <= local' => content'[v] # Empty
      <4> SUFFICES ASSUME NEW v \in Versions, booted < v, v <= local'
                   PROVE  content'[v] # Empty
        BY <3>1
      <4>1. CASE content'[v] = content[v] /\ v <= local
        BY <4>1, <3>1
      <4>2. CASE v = local + 1
        BY <4>2, <2>1 DEF Write
      <4> QED BY <3>1, <3>2, <4>1, <4>2 DEF Versions
    <3> QED BY <3>1, <3>3
  <2>2. CASE RollBack
    BY <2>2 DEF RollBack
  <2> QED BY <1>8, <2>1, <2>2
<1>9. CASE Stop \/ Exit \/ Crash \/ LoseVolume \/ Configure
  BY <1>9 DEF Stop, Exit, Crash, LoseVolume, Configure, Forget, Fault
<1>10. CASE BootLocal \/ BootFresh \/ BootRestore \/ RestoreDb
  BY <1>10 DEF BootLocal, BootFresh, BootRestore, RestoreDb, Restorable, Start,
               Forget, Versions, Content
<1> QED
  BY <1>1, <1>2, <1>3, <1>4, <1>5, <1>6, <1>7, <1>8, <1>9, <1>10 DEF Next, Publish

\* So what was due is published when the process is down.
LEMMA DownStep == ASSUME PublisherInv, Next PROVE SignalledIsPublished'
<1> USE PublisherAssumption
<1> USE DEF PublisherInv, PublisherTypeOK, PublishState, Resting, Signalled,
            SignalledIsPublished, Idle, Done, store, process, tracking
<1>1. CASE Publish
  BY <1>1 DEF Publish, TickNotices, TickPublishes, Count, Refuse, Copy, Put, PublishFails,
              PutUnanswered, Flush, FlushFails
<1>2. CASE Write \/ RollBack
  BY <1>2 DEF Write, RollBack
<1>3. CASE Stop \/ Exit \/ Crash \/ LoseVolume \/ Configure
  BY <1>3 DEF Stop, Exit, Crash, LoseVolume, Configure
<1>4. CASE BootLocal \/ BootFresh \/ BootRestore \/ RestoreDb
  BY <1>4 DEF BootLocal, BootFresh, BootRestore, RestoreDb, Start
<1> QED
  BY <1>1, <1>2, <1>3, <1>4 DEF Next

\* The invariant is inductive.
LEMMA PublisherStep == ASSUME PublisherInv, [Next]_pubVars PROVE PublisherInv'
<1>1. CASE Next
  <2>1. PublisherTypeOK'
    BY <1>1, NumbersStep, PublishStateStep, FlagsStep DEF PublisherTypeOK, NumbersOK, FlagsOK
  <2> QED
    BY <1>1, <2>1, RestingStep, InOrderStep, CountedStep, CleanStep, GuardedStep,
       SignalledStep, DownStep
       DEF PublisherInv
<1>2. CASE UNCHANGED pubVars
  BY <1>2 DEF pubVars, PublisherInv, PublisherTypeOK, Resting, InOrder, Counted,
              CleanIsPublished, Guarded, Signalled, SignalledIsPublished
<1> QED BY <1>1, <1>2

LEMMA PublisherInvariant == PublisherSpec => []PublisherInv
<1>1. Init => PublisherInv
  BY PublisherInit
<1>2. PublisherInv /\ [Next]_pubVars => PublisherInv'
  BY PublisherStep
<1> QED BY <1>1, <1>2, PTL DEF PublisherSpec

-----------------------------------------------------------------------------

\* Every variable stays in its range.
THEOREM PublisherTypeCorrect == PublisherSpec => []PublisherTypeOK
<1>1. PublisherInv => PublisherTypeOK
  BY DEF PublisherInv
<1> QED BY <1>1, PublisherInvariant, PTL

\* db_publisher.go:115: a publisher that rests has published all its process committed.
THEOREM CleanMeansPublished == PublisherSpec => []CleanIsPublished
<1>1. PublisherInv => CleanIsPublished
  BY DEF PublisherInv
<1> QED BY <1>1, PublisherInvariant, PTL

\* README.md:145: what the signal found is published when the process has ended by itself.
THEOREM LastPublishKeepsItsPromise == PublisherSpec => []SignalledIsPublished
<1>1. PublisherInv => SignalledIsPublished
  BY DEF PublisherInv
<1> QED BY <1>1, PublisherInvariant, PTL

\* What a step does to the published object: nothing, or the copy under way replaces it.
LEMMA ObjectIsCopy ==
  ASSUME PublisherInv, [Next]_pubVars
  PROVE  /\ object' = object \/ (pub.pc = "put" /\ object' = pub.copy)
         /\ \A v \in 1..object : content'[v] = content[v]
         /\ pub.pc = "put" => content'[pub.copy] = content[pub.copy]
<1> USE PublisherAssumption
        DEF PublisherInv, PublisherTypeOK, PublishState, Resting, InOrder, store, process, tracking
<1>1. CASE Publish
  BY <1>1 DEF Publish, TickNotices, TickPublishes, Count, Refuse, Copy, Put, PublishFails,
              PutUnanswered, Flush, FlushFails
<1>2. CASE Write \/ RollBack
  BY <1>2 DEF Write, RollBack, Versions
<1>3. CASE Stop \/ Exit \/ Crash \/ LoseVolume \/ Configure \/ BootLocal \/ BootRestore \/ RestoreDb
  BY <1>3 DEF Stop, Exit, Crash, LoseVolume, Configure, BootLocal, BootRestore, RestoreDb, Start
<1>4. CASE BootFresh
  BY <1>4 DEF BootFresh, Start, Versions, Idle
<1>5. CASE UNCHANGED pubVars
  BY <1>5 DEF pubVars
<1> QED BY <1>1, <1>2, <1>3, <1>4, <1>5 DEF Next

\* No crash, retry or restore takes the published object back to an earlier database.
THEOREM PublishedMovesForward == PublisherSpec => SnapshotMovesForward
<1>1. PublisherInv /\ [Next]_pubVars =>
        [object' >= object /\ \A v \in 1..object : content'[v] = content[v]]_pubVars
  <2> SUFFICES ASSUME PublisherInv, [Next]_pubVars
               PROVE  object' >= object /\ \A v \in 1..object : content'[v] = content[v]
    OBVIOUS
  <2> QED BY ObjectIsCopy DEF PublisherInv, InOrder, PublisherTypeOK, PublishState
<1> QED BY <1>1, PublisherInvariant, PTL DEF PublisherSpec, SnapshotMovesForward

\* db_snapshot.go:259: a published database with rows is never replaced by one without.
THEOREM PublishedKeepsRows == PublisherSpec => GoodCopyKept
<1>1. PublisherInv /\ [Next]_pubVars =>
        [mode # "ignore" /\ object # 0 /\ content[object] # Empty
           => content'[object'] # Empty]_pubVars
  <2> SUFFICES ASSUME PublisherInv, [Next]_pubVars,
                      mode # "ignore", object # 0, content[object] # Empty
               PROVE  content'[object'] # Empty
    OBVIOUS
  <2>1. content'[object] = content[object]
    BY ObjectIsCopy DEF PublisherInv, PublisherTypeOK
  <2> QED BY <2>1, ObjectIsCopy DEF PublisherInv, Guarded
<1> QED BY <1>1, PublisherInvariant, PTL DEF PublisherSpec, GoodCopyKept
=============================================================================
