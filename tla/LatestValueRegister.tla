------------------------ MODULE LatestValueRegister ------------------------
(***************************************************************************)
(* What the latest-value channel promises a dashboard: a register of the   *)
(* newest value of every item.  A delivery brings the view fully up to     *)
(* date, whatever was published in between; a new generation starts from   *)
(* nothing, and nothing of an older one is seen again.                     *)
(***************************************************************************)
EXTENDS Integers

CONSTANT Items

VARIABLES
  generation,  \* the generation the register accepts
  latest,      \* the newest value of each item in it, 0 for none
  view         \* what has been delivered, with its generation

vars == <<generation, latest, view>>

Values == [Items -> Nat]
Nothing == [i \in Items |-> 0]
Seen == IF view.gen = generation THEN view.vals ELSE Nothing

Init ==
  /\ generation = 0
  /\ latest = Nothing
  /\ view = [gen |-> 0, vals |-> Nothing]

(* Some items take newer values. *)
Write ==
  /\ latest' \in Values
  /\ \A i \in Items : latest'[i] >= latest[i]
  /\ UNCHANGED <<generation, view>>

Renew ==
  /\ generation' \in Nat /\ generation' > generation
  /\ latest' \in Values
  /\ UNCHANGED view

Deliver ==
  /\ view' = [gen |-> generation, vals |-> latest]
  /\ UNCHANGED <<generation, latest>>

(* The owner discards what has not been delivered. *)
Discard ==
  /\ latest' = Seen
  /\ UNCHANGED <<generation, view>>

Next == Write \/ Renew \/ Deliver \/ Discard

Spec == Init /\ [][Next]_vars
=============================================================================
