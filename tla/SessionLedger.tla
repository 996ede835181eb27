--------------------------- MODULE SessionLedger ---------------------------
(***************************************************************************)
(* What the recording service promises the program that owns it: sessions  *)
(* are recorded one after the other, frames are recorded only while the    *)
(* session is not paused, every session that was begun is closed with      *)
(* exactly one verdict before the next begins, and the service goes down   *)
(* only between two sessions.                                              *)
(***************************************************************************)
EXTENDS Integers

CONSTANTS Sessions, MaxFrames   \* Sessions is an initial segment of 1, 2, ...

VARIABLES
  session,  \* the state of each session
  frames,   \* frames recorded of each session
  up        \* the service runs

vars == <<session, frames, up>>

Verdicts == {"sent", "dropped", "failed"}
States == {"absent", "recording", "paused", "closing"} \cup Verdicts
Over == Verdicts \cup {"absent"}

Init ==
  /\ session = [s \in Sessions |-> "absent"]
  /\ frames = [s \in Sessions |-> 0]
  /\ up = TRUE

Move(s, state) == session' = [session EXCEPT ![s] = state]

(* A session that cannot be started properly goes straight to closing.     *)
Begin(s) ==
  /\ up
  /\ session[s] = "absent"
  /\ \A t \in Sessions : IF t < s THEN session[t] \in Verdicts
                                  ELSE session[t] = "absent"
  /\ \E state \in {"recording", "closing"} : Move(s, state)
  /\ UNCHANGED <<frames, up>>

Record(s) ==
  /\ session[s] = "recording"
  /\ frames' = [frames EXCEPT ![s] = @ + 1]
  /\ UNCHANGED <<session, up>>

Pause(s) ==
  /\ session[s] = "recording"
  /\ Move(s, "paused")
  /\ UNCHANGED <<frames, up>>

Continue(s) ==
  /\ session[s] = "paused"
  /\ Move(s, "recording")
  /\ UNCHANGED <<frames, up>>

Close(s) ==
  /\ session[s] \in {"recording", "paused"}
  /\ Move(s, "closing")
  /\ UNCHANGED <<frames, up>>

(* The verdict on the last session may be the service's last act.          *)
Conclude(s) ==
  /\ session[s] = "closing"
  /\ \E verdict \in Verdicts : Move(s, verdict)
  /\ up' \in {up, FALSE}
  /\ UNCHANGED frames

GoDown ==
  /\ up
  /\ \A s \in Sessions : session[s] \in Over
  /\ up' = FALSE
  /\ UNCHANGED <<session, frames>>

Next ==
  \/ \E s \in Sessions : Begin(s) \/ Record(s) \/ Pause(s) \/ Continue(s)
                         \/ Close(s) \/ Conclude(s)
  \/ GoDown

Spec == Init /\ [][Next]_vars
=============================================================================
