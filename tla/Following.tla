------------------------------ MODULE Following ------------------------------
(***************************************************************************)
(* What a reader of a replica is promised (src/README.md, "How it works"):  *)
(* it is answered from one of the states the writer has published and this  *)
(* build can read, whole, and never from an older one than before, however  *)
(* often the replica is restarted.                                          *)
(***************************************************************************)
EXTENDS Integers

VARIABLES
  readable,  \* the published states so far that can be read, in the order of their numbers
  served,    \* the state readers are answered from, 0 while nobody answers
  latest     \* the last state readers were answered from

Init == readable \subseteq Nat \ {0} /\ served = 0 /\ latest = 0

\* What is published from now on is later than what was.
Publish ==
  /\ readable \subseteq readable'
  /\ \A v \in readable' \ readable : v \in Nat \ {0} /\ \A u \in readable : u <= v
  /\ UNCHANGED <<served, latest>>

Serve ==
  /\ served' \in readable
  /\ served' >= latest
  /\ latest' = served'
  /\ UNCHANGED readable

Withdraw == served' = 0 /\ UNCHANGED <<readable, latest>>

Next == Publish \/ Serve \/ Withdraw

Spec == Init /\ [][Next]_<<readable, served, latest>>
=============================================================================
