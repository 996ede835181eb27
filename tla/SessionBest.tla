---------------------------- MODULE SessionBest ----------------------------
(***************************************************************************)
(* The best lap of a session as the reference of the delta items: the game *)
(* that counts laps, the engine that detects a completed lap in the frames *)
(* it samples, the callback with its tracker, the command queue and the    *)
(* service's registry.                                                     *)
(*                                                                         *)
(* A lap is a number of its own, whatever completed_laps says.  A list of  *)
(* frames is the set of laps they were sampled in.                         *)
(***************************************************************************)
EXTENDS Integers, Sequences

CONSTANTS
  Times,        \* lap times the game may report; 0 is one it did not take
  CmdCapacity,  \* capacity of the command channel (16 in the code)
  MaxLap,       \* bound: laps driven
  MaxSession    \* bound: sessions recorded

ASSUME BestAssumption ==
  /\ Times \subseteq Nat
  /\ CmdCapacity \in Nat \ {0}
  /\ MaxLap \in Nat \ {0} /\ MaxSession \in Nat

VARIABLES
  game,       \* what the next frame will show
  session,    \* sessions the holder has begun to record
  engine,     \* lap detection of run_recording_loop
  tracker,    \* best_lap_time_ms of the callback's tracker, 0 for None
  cmd_ch,     \* the command channel
  reference,  \* session_best of the registry
  time,       \* history: the time of each completed lap
  log,        \* history: the frames sampled in this session
  lost,       \* history: a best lap of this session was not sent
  mixed       \* history: the game began a session while one was recorded

vars == <<game, session, engine, tracker, cmd_ch, reference, time, log, lost, mixed>>

Laps == 1..MaxLap
Reference == [session : 0..MaxSession, time : Nat, frames : SUBSET Laps]
NoReference == [session |-> 0, time |-> 0, frames |-> {}]

(* Locals of run_recording_loop; last is -1 for None. *)
Detection == [on : {"live", "off"}, last : Int, count : Nat, frames : SUBSET Laps,
              valid : {"yes", "no"}]
Fresh == [on |-> "live", last |-> -1, count |-> 0, frames |-> {}, valid |-> "yes"]

Both(a, b) == IF a = "yes" THEN b ELSE "no"

Init ==
  /\ game \in [lap : {1}, laps : {0}, valid : {"yes", "no"}, last : {0}]
  /\ session = 0
  /\ engine = [Fresh EXCEPT !.on = "off"]
  /\ tracker = 0
  /\ cmd_ch = << >>
  /\ reference = NoReference
  /\ time = [l \in Laps |-> 0]
  /\ log = {}
  /\ lost = "no"
  /\ mixed = "no"

-----------------------------------------------------------------------------
(* The game *)

Sampled(l) == \E f \in log : f.lap = l

(* A lap that was cut is invalid to its end.                               *)
Cut ==
  /\ game' = [game EXCEPT !.valid = "no"]
  /\ UNCHANGED <<session, engine, tracker, cmd_ch, reference, time, log, lost, mixed>>

(* A lap lasts longer than the second between two polls at most: no lap    *)
(* between two sampled ones goes by unsampled.                             *)
CrossLine ==
  /\ game.lap < MaxLap
  /\ engine.on = "live" /\ log # {} => Sampled(game.lap)
  /\ \E t \in Times, v \in {"yes", "no"} :
       /\ game' = [lap |-> game.lap + 1, laps |-> game.laps + 1, valid |-> v,
                   last |-> t]
       /\ time' = [time EXCEPT ![game.lap] = t]
  /\ UNCHANGED <<session, engine, tracker, cmd_ch, reference, log, lost, mixed>>

(* A new session of the game: it counts from zero, and the lap is left.    *)
(* The game may stay live, and the recording goes on.                      *)
NewGameSession ==
  /\ game.lap < MaxLap
  /\ game' = [lap |-> game.lap + 1, laps |-> 0, valid |-> "yes", last |-> 0]
  /\ mixed' = IF engine.on = "live" THEN "yes" ELSE mixed
  /\ UNCHANGED <<session, engine, tracker, cmd_ch, reference, time, log, lost>>

-----------------------------------------------------------------------------
(* The recording holder and the engine *)

(* Mutant: the best time outlives its session. *)
ResetTracker_Kept == tracker' = tracker

ResetTracker == tracker' = 0

(* run_recording_holder connects: the tracker is reset, and the locals of  *)
(* run_recording_loop are new.  The registry is not told.                  *)
BeginSession ==
  /\ engine.on = "off"
  /\ session < MaxSession
  /\ session' = session + 1
  /\ engine' = Fresh
  /\ ResetTracker
  /\ log' = {}
  /\ lost' = "no"
  /\ UNCHANGED <<game, cmd_ch, reference, time, mixed>>

EndSession ==
  /\ engine.on = "live"
  /\ engine' = [engine EXCEPT !.on = "off"]
  /\ UNCHANGED <<game, session, tracker, cmd_ch, reference, time, log, lost, mixed>>

Fits == Len(cmd_ch) < CmdCapacity

(* Mutant: any lap after the first is a best lap. *)
IsNewBest_Any(event) == TRUE

IsNewBest(event) == tracker = 0 \/ event.time < tracker

(* SessionBestLapTracker::consider_lap. *)
Considered(event) ==
  /\ event.out = "no"
  /\ event.valid = "yes"
  /\ event.time > 0
  /\ event.frames # {}
  /\ IsNewBest(event)

(* The callback: the tracker first, then try_send, whose failure is        *)
(* ignored.                                                                *)
LapCompleted(event) ==
  \/ /\ Considered(event)
     /\ tracker' = event.time
     /\ \/ /\ Fits
           /\ cmd_ch' = Append(cmd_ch, [session |-> session, time |-> event.time,
                                        frames |-> event.frames])
           /\ UNCHANGED lost
        \/ /\ ~Fits
           /\ lost' = "yes"
           /\ UNCHANGED cmd_ch
  \/ /\ ~Considered(event)
     /\ UNCHANGED <<tracker, cmd_ch, lost>>

(* The lap that was completed is the one collected so far. *)
Event == [time |-> game.last, valid |-> engine.valid, frames |-> engine.frames,
          out |-> IF engine.count = 0 THEN "yes" ELSE "no"]

(* Mutant: the validity of a lap taints the next. *)
NextLap_Tainted ==
  [on |-> "live", last |-> game.laps, count |-> engine.count + 1, frames |-> {game.lap},
   valid |-> Both(engine.valid, game.valid)]

(* Mutant: the frames of the lap before are kept. *)
NextLap_Kept ==
  [on |-> "live", last |-> game.laps, count |-> engine.count + 1,
   frames |-> engine.frames \cup {game.lap}, valid |-> game.valid]

NextLap ==
  [on |-> "live", last |-> game.laps, count |-> engine.count + 1, frames |-> {game.lap},
   valid |-> game.valid]

SameLap ==
  [on |-> "live", last |-> game.laps, count |-> engine.count,
   frames |-> engine.frames \cup {game.lap}, valid |-> Both(engine.valid, game.valid)]

(* A frame is read.  Its count of laps is compared with the frame before.  *)
Sample ==
  /\ engine.on = "live"
  /\ log' = log \cup {[lap |-> game.lap, valid |-> game.valid]}
  /\ \/ /\ engine.last # -1 /\ game.laps > engine.last
        /\ LapCompleted(Event)
        /\ engine' = NextLap
     \/ /\ engine.last = -1 \/ game.laps <= engine.last
        /\ engine' = SameLap
        /\ UNCHANGED <<tracker, cmd_ch, lost>>
  /\ UNCHANGED <<game, session, reference, time, mixed>>

-----------------------------------------------------------------------------
(* The service *)

(* Other commands share the queue; they are not told apart here. *)
OtherCommand ==
  /\ Fits
  /\ cmd_ch' = Append(cmd_ch, NoReference)
  /\ UNCHANGED <<game, session, engine, tracker, reference, time, log, lost, mixed>>

TakeCommand ==
  /\ cmd_ch # << >>
  /\ cmd_ch' = Tail(cmd_ch)
  /\ reference' = IF Head(cmd_ch) = NoReference THEN reference ELSE Head(cmd_ch)
  /\ UNCHANGED <<game, session, engine, tracker, time, log, lost, mixed>>

Next ==
  \/ Cut \/ CrossLine \/ NewGameSession
  \/ BeginSession \/ EndSession \/ Sample
  \/ OtherCommand \/ TakeCommand

Spec == Init /\ [][Next]_vars

-----------------------------------------------------------------------------
(* Type correctness. *)
TypeOK ==
  /\ game \in [lap : Laps, laps : Nat, valid : {"yes", "no"}, last : Nat]
  /\ session \in 0..MaxSession
  /\ engine \in Detection
  /\ tracker \in Nat
  /\ cmd_ch \in Seq(Reference) /\ Len(cmd_ch) <= CmdCapacity
  /\ reference \in Reference
  /\ time \in [Laps -> Nat]
  /\ log \subseteq [lap : Laps, valid : {"yes", "no"}]
  /\ lost \in {"yes", "no"}
  /\ mixed \in {"yes", "no"}

(* A lap counts when it was sampled before and after both of its ends, no  *)
(* frame of it was invalid, and the game took its time.                    *)
Counts(l) ==
  /\ \E f, g \in log : f.lap < l /\ l < g.lap
  /\ \A f \in log : f.lap = l => f.valid = "yes"
  /\ time[l] > 0

(* The tracker holds the best of the laps that count in this session, and  *)
(* of no other: not the first, partial one, none of another session, and   *)
(* no lap is missed because of the validity of another.  A session of the  *)
(* game that begins while one is recorded breaks it: the lap that was left *)
(* is taken for the beginning of the next.                                 *)
BestOfTheLaps ==
  \/ tracker = 0 /\ \A l \in Laps : ~Counts(l)
  \/ /\ \E l \in Laps : Counts(l) /\ time[l] = tracker
     /\ \A l \in Laps : Counts(l) => tracker <= time[l]

TrackerIsBest == mixed = "no" => BestOfTheLaps

(* What was or will be installed is one whole lap, under its own time.     *)
References == {reference} \cup {cmd_ch[i] : i \in DOMAIN cmd_ch}

IsALap(r) == \E l \in Laps : r.frames = {l} /\ r.time = time[l] /\ r.time > 0

ReferencesAreLaps ==
  mixed = "no" => \A r \in References \ {NoReference} : IsALap(r)

(* When the queue is served the registry has the best lap of the session,  *)
(* unless the queue was full for it.                                       *)
Installed(r) == r.session = session /\ r.time = tracker

BestIsInstalled ==
  tracker # 0 /\ lost = "no" =>
    \/ \E i \in DOMAIN cmd_ch :
         /\ Installed(cmd_ch[i])
         /\ \A j \in DOMAIN cmd_ch : j > i => cmd_ch[j] = NoReference
    \/ Installed(reference) /\ \A j \in DOMAIN cmd_ch : cmd_ch[j] = NoReference

(* A reference is only replaced by a faster one, or by one of a later      *)
(* session, however long the queue held it.                                *)
ReferencesImprove ==
  [][reference' # reference =>
       \/ reference'.session > reference.session
       \/ reference'.session = reference.session /\ reference'.time < reference.time]_vars
=============================================================================
