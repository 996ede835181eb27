--------------------------- MODULE DashboardFeed ---------------------------
(***************************************************************************)
(* What the dashboard promises the program that shows it: every set of     *)
(* subscriptions has a generation of its own, a frame that is shown holds  *)
(* items of exactly one such set, generations are never shown backwards,   *)
(* and once somebody has been told of a generation nothing older is shown. *)
(***************************************************************************)
EXTENDS Integers

CONSTANT Items

VARIABLES
  latest,    \* the newest generation
  inforce,   \* the set of items of each generation
  known,     \* the newest generation somebody was told of
  view       \* the frame shown last

vars == <<latest, inforce, known, view>>

Later(a, b) == IF a > b THEN a ELSE b

Init ==
  /\ latest \in Nat
  /\ inforce \in [0..latest -> SUBSET Items]
  /\ known = 0
  /\ view = [gen |-> 0, keys |-> {}]

(* A new set of subscriptions, with its generation. *)
Change ==
  /\ latest' = latest + 1
  /\ inforce' \in [0..latest' -> SUBSET Items]
  /\ \A g \in 0..latest : inforce'[g] = inforce[g]
  /\ UNCHANGED <<known, view>>

Tell ==
  /\ known' \in known..latest
  /\ UNCHANGED <<latest, inforce, view>>

Show ==
  /\ view'.gen \in Later(known, view.gen)..latest
  /\ view'.keys \subseteq inforce[view'.gen]
  /\ view' = [gen |-> view'.gen, keys |-> view'.keys]
  /\ UNCHANGED <<latest, inforce, known>>

Next == Change \/ Tell \/ Show

Spec == Init /\ [][Next]_vars
=============================================================================
