------------------------------ MODULE Catalogue ------------------------------
(***************************************************************************)
(* What the file store promises the holder of a short link, with no word   *)
(* about requests, transactions or storage calls:                          *)
(*                                                                         *)
(*   - a slug goes from unused to pending to published to gone, or from     *)
(*     pending to gone, and never back, and its display name never changes; *)
(*   - a slug is published only once all its bytes are stored, and its      *)
(*     bytes stay for as long as it is published;                           *)
(*   - a file is superseded only by a file of its own name that has been    *)
(*     published, and that link is never rewritten.                         *)
(*                                                                         *)
(* FileStore implements this module (FileStore!CatalogueSpec).              *)
(***************************************************************************)
CONSTANTS Slugs, Names, None

VARIABLES
  state,       \* [Slugs -> {"free", "pending", "live", "deleted"}]
  name,        \* [Slugs -> Names \cup {None}]
  stored,      \* the slugs whose bytes are all in the blob store
  successor    \* [Slugs -> Slugs \cup {None}]: the upload that replaced it

vars == <<state, name, stored, successor>>

Init ==
  /\ state = [s \in Slugs |-> "free"]
  /\ name = [s \in Slugs |-> None]
  /\ stored = {}
  /\ successor = [s \in Slugs |-> None]

\* An upload takes an unused slug.
Reserve(s, n) ==
  /\ state[s] = "free"
  /\ state' = [state EXCEPT ![s] = "pending"]
  /\ name' = [name EXCEPT ![s] = n]
  /\ UNCHANGED <<stored, successor>>

\* Its bytes are completely written.
Store(s) ==
  /\ state[s] = "pending"
  /\ stored' = stored \cup {s}
  /\ UNCHANGED <<state, name, successor>>

Publish(s) ==
  /\ state[s] = "pending"
  /\ s \in stored
  /\ state' = [state EXCEPT ![s] = "live"]
  /\ UNCHANGED <<name, stored, successor>>

\* A failed upload gives its slug up, for good.
Abandon(s) ==
  /\ state[s] = "pending"
  /\ state' = [state EXCEPT ![s] = "deleted"]
  /\ UNCHANGED <<name, stored, successor>>

\* A user deletes a file.
Delete(s) ==
  /\ state[s] = "live"
  /\ state' = [state EXCEPT ![s] = "deleted"]
  /\ UNCHANGED <<name, stored, successor>>

\* A published upload takes the place of a file of the same name.
Supersede(old, new) ==
  /\ old # new
  /\ name[old] = name[new]
  /\ state[old] = "live"
  /\ state[new] \in {"live", "deleted"}
  /\ new \in stored \/ state[new] = "deleted"
  /\ state' = [state EXCEPT ![old] = "deleted"]
  /\ successor' = [successor EXCEPT ![old] = new]
  /\ UNCHANGED <<name, stored>>

\* Bytes go away only under a slug that is not published.
Reclaim(s) ==
  /\ state[s] # "live"
  /\ stored' = stored \ {s}
  /\ UNCHANGED <<state, name, successor>>

Next ==
  \E s \in Slugs :
    \/ \E n \in Names : Reserve(s, n)
    \/ Store(s)
    \/ Publish(s)
    \/ Abandon(s)
    \/ Delete(s)
    \/ \E new \in Slugs : Supersede(s, new)
    \/ Reclaim(s)

Spec == Init /\ [][Next]_vars
=============================================================================
