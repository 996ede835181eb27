------------------------- MODULE SessionBest_proofs -------------------------
(***************************************************************************)
(* Proofs about SessionBest.  Queue relates the references that were sent  *)
(* to the tracker; Detect relates the engine's lap detection to the laps   *)
(* that were driven.  Neither needs the other.                             *)
(***************************************************************************)
EXTENDS SessionBest, TLAPS

TypeOK_Rest ==
  /\ game \in [lap : Laps, laps : Nat, valid : {"yes", "no"}, last : Nat]
  /\ session \in 0..MaxSession
  /\ engine \in Detection
  /\ tracker \in Nat
  /\ time \in [Laps -> Nat]
  /\ log \subseteq [lap : Laps, valid : {"yes", "no"}]
  /\ lost \in {"yes", "no"}
  /\ mixed \in {"yes", "no"}

TypeOK_Queue ==
  /\ cmd_ch \in Seq(Reference) /\ Len(cmd_ch) <= CmdCapacity
  /\ reference \in Reference

(* NoReference is a value of its type. *)
LEMMA NoReferenceType == NoReference \in Reference
  BY BestAssumption DEF NoReference, Reference, BestAssumption

-----------------------------------------------------------------------------
(* What a completed lap does to the queue. *)
LEMMA EventType ==
  ASSUME TypeOK_Rest
  PROVE  /\ Event.time \in Nat /\ Event.frames \in SUBSET Laps
         /\ Event.valid \in {"yes", "no"}
  BY DEF TypeOK_Rest, Event, Detection

LEMMA LapTypes ==
  ASSUME TypeOK_Rest, TypeOK_Queue, LapCompleted(Event)
  PROVE  /\ tracker' \in Nat /\ lost' \in {"yes", "no"}
         /\ cmd_ch' \in Seq(Reference) /\ Len(cmd_ch') <= CmdCapacity
<1>1. CASE Considered(Event) /\ tracker' = Event.time
  <2> DEFINE r == [session |-> session, time |-> Event.time, frames |-> Event.frames]
  <2>1. r \in Reference
    BY EventType DEF Reference, TypeOK_Rest
  <2>2. tracker' \in Nat
    BY <1>1, EventType
  <2>3. \/ Fits /\ cmd_ch' = Append(cmd_ch, r) /\ UNCHANGED lost
        \/ lost' = "yes" /\ UNCHANGED cmd_ch
    BY <1>1 DEF LapCompleted
  <2> HIDE DEF r
  <2>4. cmd_ch \in Seq(Reference) /\ Len(cmd_ch) <= CmdCapacity /\ CmdCapacity \in Nat
    BY BestAssumption DEF TypeOK_Queue, BestAssumption
  <2>5. Fits /\ cmd_ch' = Append(cmd_ch, r)
          => cmd_ch' \in Seq(Reference) /\ Len(cmd_ch') <= CmdCapacity
    <3> SUFFICES ASSUME Fits, cmd_ch' = Append(cmd_ch, r)
                 PROVE  cmd_ch' \in Seq(Reference) /\ Len(cmd_ch') <= CmdCapacity
      OBVIOUS
    <3>1. cmd_ch' \in Seq(Reference) /\ Len(cmd_ch') = Len(cmd_ch) + 1
      BY <2>1, <2>4
    <3> QED
      BY <2>4, <3>1 DEF Fits
  <2>6. lost' \in {"yes", "no"}
    BY <2>3 DEF TypeOK_Rest
  <2> QED
    BY <2>2, <2>3, <2>4, <2>5, <2>6
<1>2. CASE UNCHANGED <<tracker, cmd_ch, lost>>
  BY <1>2 DEF TypeOK_Rest, TypeOK_Queue
<1> QED
  BY <1>1, <1>2 DEF LapCompleted

LEMMA LocalsType ==
  ASSUME TypeOK_Rest
  PROVE  NextLap \in Detection /\ SameLap \in Detection
<1>1. /\ game.lap \in Laps /\ game.laps \in Nat /\ game.valid \in {"yes", "no"}
      /\ engine \in Detection
  BY DEF TypeOK_Rest
<1>2. /\ engine.count + 1 \in Nat
      /\ {game.lap} \in SUBSET Laps /\ engine.frames \cup {game.lap} \in SUBSET Laps
      /\ Both(engine.valid, game.valid) \in {"yes", "no"}
  BY <1>1 DEF Detection, Both
<1>3. engine.count \in Nat /\ game.laps \in Int
  BY <1>1 DEF Detection
<1> QED
  BY <1>1, <1>2, <1>3 DEF NextLap, SameLap, Detection

LEMMA TypeStep == TypeOK_Rest /\ TypeOK_Queue /\ [Next]_vars => TypeOK_Rest' /\ TypeOK_Queue'
<1> SUFFICES ASSUME TypeOK_Rest, TypeOK_Queue, [Next]_vars
             PROVE  TypeOK_Rest' /\ TypeOK_Queue'
  OBVIOUS
<1> USE BestAssumption DEF BestAssumption
<1>1. CASE Cut
  BY <1>1 DEF Cut, TypeOK_Rest, TypeOK_Queue
<1>2. CASE CrossLine
  <2>1. game' \in [lap : Laps, laps : Nat, valid : {"yes", "no"}, last : Nat]
    BY <1>2 DEF CrossLine, TypeOK_Rest, Laps
  <2>2. time' \in [Laps -> Nat]
    BY <1>2 DEF CrossLine, TypeOK_Rest
  <2> QED
    BY <1>2, <2>1, <2>2 DEF CrossLine, TypeOK_Rest, TypeOK_Queue
<1>3. CASE NewGameSession
  <2>1. game' \in [lap : Laps, laps : Nat, valid : {"yes", "no"}, last : Nat]
    BY <1>3 DEF NewGameSession, TypeOK_Rest, Laps
  <2> QED
    BY <1>3, <2>1 DEF NewGameSession, TypeOK_Rest, TypeOK_Queue
<1>4. CASE BeginSession
  <2>1. engine' \in Detection
    BY <1>4 DEF BeginSession, Fresh, Detection
  <2> QED
    BY <1>4, <2>1 DEF BeginSession, ResetTracker, TypeOK_Rest, TypeOK_Queue
<1>5. CASE EndSession
  <2>1. engine' \in Detection
    BY <1>5 DEF EndSession, Detection, TypeOK_Rest
  <2> QED
    BY <1>5, <2>1 DEF EndSession, TypeOK_Rest, TypeOK_Queue
<1>6. CASE Sample
  <2>1. engine' \in Detection
    BY <1>6, LocalsType DEF Sample
  <2>2. log' \subseteq [lap : Laps, valid : {"yes", "no"}]
    BY <1>6 DEF Sample, TypeOK_Rest
  <2>3. /\ tracker' \in Nat /\ lost' \in {"yes", "no"}
        /\ cmd_ch' \in Seq(Reference) /\ Len(cmd_ch') <= CmdCapacity
    BY <1>6, LapTypes DEF Sample, TypeOK_Rest, TypeOK_Queue
  <2> QED
    BY <1>6, <2>1, <2>2, <2>3 DEF Sample, TypeOK_Rest, TypeOK_Queue
<1>7. CASE OtherCommand
  BY <1>7, NoReferenceType DEF OtherCommand, Fits, TypeOK_Rest, TypeOK_Queue
<1>8. CASE TakeCommand
  <2>1. Head(cmd_ch) \in Reference /\ Tail(cmd_ch) \in Seq(Reference)
        /\ Len(Tail(cmd_ch)) <= CmdCapacity
    BY <1>8 DEF TakeCommand, TypeOK_Queue
  <2> QED
    BY <1>8, <2>1 DEF TakeCommand, TypeOK_Rest, TypeOK_Queue
<1>9. CASE UNCHANGED vars
  BY <1>9 DEF vars, TypeOK_Rest, TypeOK_Queue
<1> QED
  BY <1>1, <1>2, <1>3, <1>4, <1>5, <1>6, <1>7, <1>8, <1>9 DEF Next

LEMMA TypeInit == Init => TypeOK_Rest /\ TypeOK_Queue
  BY NoReferenceType, BestAssumption
  DEF Init, TypeOK_Rest, TypeOK_Queue, Laps, Detection, Fresh, BestAssumption

LEMMA TypeAlways == Spec => [](TypeOK_Rest /\ TypeOK_Queue)
  BY TypeInit, TypeStep, PTL DEF Spec

(* Lap detection, tracker, queue and registry keep their types.            *)
THEOREM TypeCorrect == Spec => []TypeOK
<1>1. TypeOK_Rest /\ TypeOK_Queue => TypeOK
  BY DEF TypeOK_Rest, TypeOK_Queue, TypeOK
<1> QED
  BY <1>1, TypeAlways, PTL

-----------------------------------------------------------------------------
(* The references, in the order in which they were sent. *)
Later(a, b) == \/ a.session < b.session
               \/ a.session = b.session /\ b.time < a.time

KnownTo(r, s, t) ==
  r # NoReference =>
    /\ r.session \in 1..s
    /\ r.time > 0
    /\ r.session = s => t # 0 /\ t <= r.time

Known(r) == KnownTo(r, session, tracker)

Ordered(a, b) == a # NoReference /\ b # NoReference => Later(a, b)

Queue ==
  /\ Known(reference)
  /\ \A i \in DOMAIN cmd_ch : Known(cmd_ch[i]) /\ Ordered(reference, cmd_ch[i])
  /\ \A i, j \in DOMAIN cmd_ch : i < j => Ordered(cmd_ch[i], cmd_ch[j])
  /\ BestIsInstalled

QueueInv == Queue /\ (engine.on = "live" => session > 0)

queueVars == <<session, tracker, cmd_ch, reference, lost>>

(* A best lap, as it is put into the queue. *)
Sent(r) ==
  /\ r.session = session /\ r.time > 0
  /\ tracker = 0 \/ r.time < tracker
  /\ tracker' = r.time
  /\ \/ cmd_ch' = Append(cmd_ch, r) /\ UNCHANGED lost
     \/ lost' = "yes" /\ UNCHANGED cmd_ch

LEMMA LapSends ==
  ASSUME TypeOK_Rest, LapCompleted(Event)
  PROVE  \/ \E r \in Reference : Sent(r)
         \/ UNCHANGED <<tracker, cmd_ch, lost>>
<1>1. CASE Considered(Event)
  <2> DEFINE r == [session |-> session, time |-> Event.time, frames |-> Event.frames]
  <2>1. r \in Reference
    BY EventType DEF Reference, TypeOK_Rest
  <2>2. r.session = session /\ r.time = Event.time
    OBVIOUS
  <2>3. Event.time > 0 /\ (tracker = 0 \/ Event.time < tracker)
    BY <1>1 DEF Considered, IsNewBest
  <2>4. tracker' = Event.time
    BY <1>1 DEF LapCompleted
  <2>5. \/ cmd_ch' = Append(cmd_ch, r) /\ UNCHANGED lost
        \/ lost' = "yes" /\ UNCHANGED cmd_ch
    BY <1>1 DEF LapCompleted
  <2> HIDE DEF r
  <2> QED
    BY <2>1, <2>2, <2>3, <2>4, <2>5 DEF Sent
<1>2. CASE ~Considered(Event)
  BY <1>2 DEF LapCompleted
<1> QED
  BY <1>1, <1>2

LEMMA AppendShape ==
  ASSUME TypeOK_Queue, NEW r \in Reference, cmd_ch' = Append(cmd_ch, r)
  PROVE  /\ DOMAIN cmd_ch' = 1..(Len(cmd_ch) + 1) /\ DOMAIN cmd_ch = 1..Len(cmd_ch)
         /\ Len(cmd_ch) \in Nat
         /\ \A i \in DOMAIN cmd_ch : cmd_ch'[i] = cmd_ch[i]
         /\ cmd_ch'[Len(cmd_ch) + 1] = r
<1>1. cmd_ch \in Seq(Reference)
  BY DEF TypeOK_Queue
<1> QED
  BY <1>1

LEMMA TailShape ==
  ASSUME TypeOK_Queue, cmd_ch # << >>, cmd_ch' = Tail(cmd_ch)
  PROVE  /\ DOMAIN cmd_ch = 1..Len(cmd_ch) /\ DOMAIN cmd_ch' = 1..(Len(cmd_ch) - 1)
         /\ Len(cmd_ch) \in Nat /\ Len(cmd_ch) > 0 /\ Head(cmd_ch) = cmd_ch[1]
         /\ \A i \in DOMAIN cmd_ch' : cmd_ch'[i] = cmd_ch[i + 1]
<1>1. cmd_ch \in Seq(Reference)
  BY DEF TypeOK_Queue
<1> QED
  BY <1>1

LEMMA EntryTypes ==
  ASSUME TypeOK_Queue
  PROVE  /\ reference.session \in Nat /\ reference.time \in Nat
         /\ \A i \in DOMAIN cmd_ch : cmd_ch[i].session \in Nat /\ cmd_ch[i].time \in Nat
<1>1. \A i \in DOMAIN cmd_ch : cmd_ch[i] \in Reference
  BY DEF TypeOK_Queue
<1>2. \A r \in Reference : r.session \in Nat /\ r.time \in Nat
  BY BestAssumption DEF Reference, BestAssumption
<1> QED
  BY <1>1, <1>2 DEF TypeOK_Queue

LEMMA SentKeepsQueue ==
  ASSUME TypeOK_Rest, TypeOK_Queue, Queue, session > 0, NEW r \in Reference, Sent(r),
         UNCHANGED <<session, reference>>
  PROVE  Queue'
<1>1. /\ r # NoReference /\ r.time \in Nat /\ r.time > 0 /\ r.session = session
      /\ session \in Nat /\ session > 0 /\ tracker \in Nat /\ tracker' = r.time
      /\ tracker = 0 \/ r.time < tracker
  BY BestAssumption DEF NoReference, Sent, Reference, TypeOK_Rest, BestAssumption
<1>2. \A q : Known(q) /\ q.time \in Nat /\ q.session \in Nat
              => KnownTo(q, session, tracker') /\ Ordered(q, r)
  <2> SUFFICES ASSUME NEW q, Known(q), q.time \in Nat, q.session \in Nat, q # NoReference
               PROVE  /\ q.session \in 1..session /\ q.time > 0
                      /\ q.session = session => tracker' # 0 /\ tracker' <= q.time
                      /\ Later(q, r)
    BY DEF Known, KnownTo, Ordered
  <2> QED
    BY <1>1 DEF Known, KnownTo, Later
<1>3. KnownTo(r, session, tracker')
  BY <1>1 DEF KnownTo
<1>4. CASE lost' = "yes" /\ UNCHANGED cmd_ch
  <2>1. BestIsInstalled'
    BY <1>4 DEF BestIsInstalled
  <2> QED
    BY <1>2, <1>4, <2>1, EntryTypes DEF Queue, Known
<1>5. CASE cmd_ch' = Append(cmd_ch, r)
  <2>1. /\ DOMAIN cmd_ch' = 1..(Len(cmd_ch) + 1) /\ DOMAIN cmd_ch = 1..Len(cmd_ch)
        /\ Len(cmd_ch) \in Nat
        /\ \A i \in DOMAIN cmd_ch : cmd_ch'[i] = cmd_ch[i]
        /\ cmd_ch'[Len(cmd_ch) + 1] = r
    BY <1>5, AppendShape
  <2>2. KnownTo(reference, session, tracker') /\ Ordered(reference, r)
    BY <1>2, EntryTypes DEF Queue
  <2>3. \A i \in DOMAIN cmd_ch : KnownTo(cmd_ch[i], session, tracker') /\ Ordered(cmd_ch[i], r)
    BY <1>2, EntryTypes DEF Queue
  <2>4. BestIsInstalled'
    <3>1. Len(cmd_ch) + 1 \in DOMAIN cmd_ch' /\ cmd_ch'[Len(cmd_ch) + 1] = r
      BY <1>5, AppendShape
    <3>2. \A j \in DOMAIN cmd_ch' : ~(j > Len(cmd_ch) + 1)
      BY <1>5, AppendShape
    <3> QED
      BY <1>1, <3>1, <3>2 DEF BestIsInstalled, Installed
  <2>5. \A i \in DOMAIN cmd_ch' : /\ KnownTo(cmd_ch'[i], session, tracker')
                                 /\ Ordered(reference, cmd_ch'[i])
    BY <1>3, <2>1, <2>2, <2>3 DEF Queue
  <2>6. \A i, j \in DOMAIN cmd_ch' : i < j => Ordered(cmd_ch'[i], cmd_ch'[j])
    BY <2>1, <2>3 DEF Queue
  <2> QED
    BY <2>2, <2>4, <2>5, <2>6 DEF Queue, Known, Ordered, Later
<1> QED
  BY <1>4, <1>5 DEF Sent

LEMMA OtherKeepsQueue ==
  ASSUME TypeOK_Rest, TypeOK_Queue, Queue, OtherCommand
  PROVE  Queue'
<1>1. UNCHANGED <<session, tracker, reference, lost>> /\ cmd_ch' = Append(cmd_ch, NoReference)
  BY DEF OtherCommand
<1>2. /\ DOMAIN cmd_ch' = 1..(Len(cmd_ch) + 1) /\ DOMAIN cmd_ch = 1..Len(cmd_ch)
      /\ Len(cmd_ch) \in Nat
      /\ \A i \in DOMAIN cmd_ch : cmd_ch'[i] = cmd_ch[i]
      /\ cmd_ch'[Len(cmd_ch) + 1] = NoReference
  BY <1>1, AppendShape, NoReferenceType
<1>3. \A i \in DOMAIN cmd_ch' : i \in DOMAIN cmd_ch \/ cmd_ch'[i] = NoReference
  BY <1>2
<1>4. \A i \in DOMAIN cmd_ch' : KnownTo(cmd_ch'[i], session, tracker) /\ Ordered(reference, cmd_ch'[i])
  BY <1>2, <1>3 DEF Queue, Known, KnownTo, Ordered
<1>5. \A i, j \in DOMAIN cmd_ch' : i < j => Ordered(cmd_ch'[i], cmd_ch'[j])
  BY <1>2, <1>3 DEF Queue, Ordered
<1>6. BestIsInstalled'
  <2>1. \A r : Installed(r) => r.session = session' /\ r.time = tracker'
    BY <1>1 DEF Installed
  <2>2. CASE ~(tracker # 0 /\ lost = "no")
    BY <1>1, <2>2 DEF BestIsInstalled
  <2>3. CASE Installed(reference) /\ \A j \in DOMAIN cmd_ch : cmd_ch[j] = NoReference
    <3>1. \A j \in DOMAIN cmd_ch' : cmd_ch'[j] = NoReference
      BY <1>2, <1>3, <2>3
    <3> QED
      BY <1>1, <2>3, <3>1 DEF BestIsInstalled, Installed
  <2>4. CASE \E i \in DOMAIN cmd_ch : /\ Installed(cmd_ch[i])
                                     /\ \A j \in DOMAIN cmd_ch : j > i => cmd_ch[j] = NoReference
    <3>1. PICK i \in DOMAIN cmd_ch : /\ Installed(cmd_ch[i])
                                    /\ \A j \in DOMAIN cmd_ch : j > i => cmd_ch[j] = NoReference
      BY <2>4
    <3>2. i \in DOMAIN cmd_ch' /\ cmd_ch'[i] = cmd_ch[i]
      BY <1>2
    <3>3. \A j \in DOMAIN cmd_ch' : j > i => cmd_ch'[j] = NoReference
      BY <1>2, <1>3, <3>1
    <3>4. cmd_ch'[i].session = session' /\ cmd_ch'[i].time = tracker'
      BY <2>1, <3>1, <3>2
    <3> QED
      BY <3>2, <3>3, <3>4 DEF BestIsInstalled, Installed
  <2> QED
    BY <2>2, <2>3, <2>4 DEF Queue, BestIsInstalled
<1>7. Known(reference)'
  BY <1>1 DEF Queue, Known, KnownTo
<1>8. (\A i \in DOMAIN cmd_ch : Known(cmd_ch[i]) /\ Ordered(reference, cmd_ch[i]))'
  BY <1>1, <1>4 DEF Known, KnownTo, Ordered, Later
<1> QED
  BY <1>5, <1>6, <1>7, <1>8 DEF Queue, Ordered, Later

LEMMA TakeKeepsQueue ==
  ASSUME TypeOK_Rest, TypeOK_Queue, Queue, TakeCommand
  PROVE  Queue'
<1>1. UNCHANGED <<session, tracker, lost>> /\ cmd_ch # << >> /\ cmd_ch' = Tail(cmd_ch)
  BY DEF TakeCommand
<1>2. /\ DOMAIN cmd_ch = 1..Len(cmd_ch) /\ DOMAIN cmd_ch' = 1..(Len(cmd_ch) - 1)
      /\ Len(cmd_ch) \in Nat /\ Len(cmd_ch) > 0 /\ Head(cmd_ch) = cmd_ch[1]
      /\ \A i \in DOMAIN cmd_ch' : cmd_ch'[i] = cmd_ch[i + 1]
  BY <1>1, TailShape
<1>3. reference' = IF cmd_ch[1] = NoReference THEN reference ELSE cmd_ch[1]
  BY <1>2 DEF TakeCommand
<1>4. 1 \in DOMAIN cmd_ch /\ \A i \in DOMAIN cmd_ch' : i + 1 \in DOMAIN cmd_ch /\ i + 1 > 1 /\ i \in Nat
  BY <1>2
<1>5. KnownTo(reference', session, tracker)
  BY <1>3, <1>4 DEF Queue, Known
<1>6. \A i \in DOMAIN cmd_ch' : KnownTo(cmd_ch'[i], session, tracker) /\ Ordered(reference', cmd_ch'[i])
  BY <1>2, <1>3, <1>4 DEF Queue, Known
<1>7. \A i, j \in DOMAIN cmd_ch' : i < j => Ordered(cmd_ch'[i], cmd_ch'[j])
  <2> SUFFICES ASSUME NEW i \in DOMAIN cmd_ch', NEW j \in DOMAIN cmd_ch', i < j
               PROVE  Ordered(cmd_ch[i + 1], cmd_ch[j + 1])
    BY <1>2
  <2>1. i + 1 \in DOMAIN cmd_ch /\ j + 1 \in DOMAIN cmd_ch /\ i + 1 < j + 1
    BY <1>4
  <2> QED
    BY <2>1 DEF Queue
<1>8. BestIsInstalled'
  <2>1. CASE ~(tracker # 0 /\ lost = "no")
    BY <1>1, <2>1 DEF BestIsInstalled
  <2>2. CASE Installed(reference) /\ \A j \in DOMAIN cmd_ch : cmd_ch[j] = NoReference
    <3>1. reference' = reference /\ \A j \in DOMAIN cmd_ch' : cmd_ch'[j] = NoReference
      BY <1>2, <1>3, <1>4, <2>2
    <3> QED
      BY <1>1, <2>2, <3>1 DEF BestIsInstalled, Installed
  <2>3. ASSUME NEW i \in DOMAIN cmd_ch, tracker # 0, Installed(cmd_ch[i]),
               \A j \in DOMAIN cmd_ch : j > i => cmd_ch[j] = NoReference
        PROVE  BestIsInstalled'
    <3>1. CASE i = 1
      <4>1. \A j \in DOMAIN cmd_ch' : cmd_ch'[j] = NoReference
        BY <1>2, <1>4, <2>3, <3>1
      <4>2. cmd_ch[1] # NoReference
        BY <2>3, <3>1 DEF Installed, NoReference
      <4>3. reference' = cmd_ch[i]
        BY <1>3, <3>1, <4>2
      <4>4. Installed(reference)'
        BY <1>1, <2>3, <4>3 DEF Installed
      <4> QED
        BY <4>1, <4>4 DEF BestIsInstalled
    <3>2. CASE i # 1
      <4> DEFINE k == i - 1
      <4>1. k \in DOMAIN cmd_ch' /\ k + 1 = i
        BY <1>2, <3>2
      <4>2. cmd_ch'[k] = cmd_ch[i]
        BY <1>2, <4>1
      <4>3. \A j \in DOMAIN cmd_ch' : j > k => cmd_ch'[j] = NoReference
        BY <1>2, <1>4, <2>3, <4>1
      <4>4. Installed(cmd_ch[k])'
        BY <1>1, <2>3, <4>2 DEF Installed
      <4> QED
        BY <4>1, <4>3, <4>4 DEF BestIsInstalled
    <3> QED
      BY <3>1, <3>2
  <2> QED
    BY <2>1, <2>2, <2>3 DEF Queue, BestIsInstalled
<1> QED
  BY <1>1, <1>5, <1>6, <1>7, <1>8 DEF Queue, Known

LEMMA QueueStep ==
  TypeOK_Rest /\ TypeOK_Queue /\ QueueInv /\ [Next]_vars => QueueInv'
<1> SUFFICES ASSUME TypeOK_Rest, TypeOK_Queue, QueueInv, [Next]_vars
             PROVE  QueueInv'
  OBVIOUS
<1>1. ASSUME UNCHANGED queueVars, engine'.on = "live" => engine.on = "live"
      PROVE  QueueInv'
  BY <1>1 DEF queueVars, QueueInv, Queue, Known, KnownTo, Ordered, Later, BestIsInstalled, Installed
<1>2. CASE Cut
  BY <1>1, <1>2 DEF Cut, queueVars
<1>3. CASE CrossLine
  BY <1>1, <1>3 DEF CrossLine, queueVars
<1>4. CASE NewGameSession
  BY <1>1, <1>4 DEF NewGameSession, queueVars
<1>5. CASE BeginSession
  <2>1. /\ session' = session + 1 /\ session \in Nat /\ tracker' = 0
        /\ UNCHANGED <<cmd_ch, reference>>
    BY <1>5, BestAssumption DEF BeginSession, ResetTracker, TypeOK_Rest, BestAssumption
  <2>2. \A r : KnownTo(r, session, tracker) /\ (r.session \in Nat) => KnownTo(r, session', tracker')
    BY <2>1 DEF KnownTo
  <2>3. BestIsInstalled'
    BY <2>1 DEF BestIsInstalled
  <2>4. KnownTo(reference, session', tracker')
        /\ \A i \in DOMAIN cmd_ch : KnownTo(cmd_ch[i], session', tracker')
    BY <2>2, EntryTypes DEF QueueInv, Queue, Known
  <2> QED
    BY <2>1, <2>3, <2>4 DEF QueueInv, Queue, Known, Ordered, Later
<1>6. CASE EndSession
  <2>1. engine'.on = "off"
    BY <1>6 DEF EndSession, TypeOK_Rest, Detection
  <2> QED
    BY <1>1, <1>6, <2>1 DEF EndSession, queueVars
<1>7. CASE Sample
  <2>1. engine.on = "live" /\ engine'.on = "live" /\ UNCHANGED <<session, reference>>
    BY <1>7 DEF Sample, NextLap, SameLap
  <2>2. \/ \E r \in Reference : Sent(r)
        \/ UNCHANGED <<tracker, cmd_ch, lost>>
    BY <1>7, LapSends DEF Sample
  <2>3. CASE \E r \in Reference : Sent(r)
    BY <2>1, <2>3, SentKeepsQueue DEF QueueInv
  <2>4. CASE UNCHANGED <<tracker, cmd_ch, lost>>
    BY <1>1, <2>1, <2>4 DEF queueVars
  <2> QED
    BY <2>2, <2>3, <2>4
<1>8. CASE OtherCommand
  BY <1>8, OtherKeepsQueue DEF QueueInv, OtherCommand
<1>9. CASE TakeCommand
  BY <1>9, TakeKeepsQueue DEF QueueInv, TakeCommand
<1>10. CASE UNCHANGED vars
  BY <1>1, <1>10 DEF vars, queueVars
<1> QED
  BY <1>2, <1>3, <1>4, <1>5, <1>6, <1>7, <1>8, <1>9, <1>10 DEF Next

LEMMA QueueInit == Init => QueueInv
  BY DEF Init, Fresh, QueueInv, Queue, Known, KnownTo, BestIsInstalled, NoReference

LEMMA QueueAlways == Spec => []QueueInv
  BY QueueInit, QueueStep, TypeAlways, PTL DEF Spec

(* When the queue is served the registry has the best lap of the session,  *)
(* unless the queue was full for it.                                       *)
THEOREM InstallsTheBest == Spec => []BestIsInstalled
<1>1. QueueInv => BestIsInstalled
  BY DEF QueueInv, Queue
<1> QED
  BY <1>1, QueueAlways, PTL

(* A reference is only replaced by a faster one, or by one of a later      *)
(* session.                                                                *)
THEOREM OnlyBetterReferences == Spec => ReferencesImprove
<1> DEFINE Better == \/ reference'.session > reference.session
                     \/ reference'.session = reference.session /\ reference'.time < reference.time
<1>1. TypeOK_Queue /\ QueueInv /\ [Next]_vars => [reference' # reference => Better]_vars
  <2> SUFFICES ASSUME TypeOK_Queue, QueueInv, Next, reference' # reference
               PROVE  Better
    OBVIOUS
  <2>1. TakeCommand
    BY DEF Next, Cut, CrossLine, NewGameSession, BeginSession, EndSession, Sample, OtherCommand
  <2>2. cmd_ch # << >> /\ cmd_ch' = Tail(cmd_ch)
    BY <2>1 DEF TakeCommand
  <2>3. 1 \in DOMAIN cmd_ch /\ Head(cmd_ch) = cmd_ch[1]
    BY <2>2, TailShape
  <2>4. reference' = cmd_ch[1] /\ cmd_ch[1] # NoReference
    BY <2>1, <2>3 DEF TakeCommand
  <2>5. Ordered(reference, cmd_ch[1]) /\ KnownTo(cmd_ch[1], session, tracker)
    BY <2>3 DEF QueueInv, Queue, Known
  <2>6. CASE reference = NoReference
    BY <2>4, <2>5, <2>6 DEF KnownTo, NoReference
  <2>7. CASE reference # NoReference
    <3>1. Later(reference, cmd_ch[1])
      BY <2>4, <2>5, <2>7 DEF Ordered
    <3>2. reference.session \in Nat /\ cmd_ch[1].session \in Nat
      BY <2>3, EntryTypes
    <3> QED
      BY <2>4, <3>1, <3>2 DEF Later
  <2> QED
    BY <2>6, <2>7
<1> QED
  BY <1>1, QueueAlways, TypeAlways, PTL DEF Spec, ReferencesImprove

-----------------------------------------------------------------------------
(* The lap the engine is collecting, as long as no session of the game     *)
(* began under it.                                                         *)
Collecting(m) ==
  /\ engine.frames = {m}
  /\ Sampled(m)
  /\ \A f \in log : f.lap <= m
  /\ \/ game.lap = m /\ engine.last = game.laps
     \/ game.lap = m + 1 /\ engine.last = game.laps - 1 /\ game.last = time[m]
  /\ engine.valid = "yes" <=> \A f \in log : f.lap = m => f.valid = "yes"
  /\ engine.count = 0 => \A f \in log : f.lap = m
  /\ engine.count > 0 => \E f \in log : f.lap < m

Detects ==
  engine.on = "live" =>
    \/ log = {} /\ engine = Fresh
    \/ log # {} /\ engine.last # -1 /\ \E m \in Laps : Collecting(m)

LogBehind == \A f \in log : f.lap <= game.lap

LapInv == LogBehind /\ (mixed = "no" => Detects /\ BestOfTheLaps)

LEMMA FrameTypes ==
  ASSUME TypeOK_Rest
  PROVE  /\ game.lap \in Nat /\ game.laps \in Nat /\ game.last \in Nat /\ game.lap \in Laps
         /\ \A f \in log : f.lap \in Nat /\ f.lap \in Laps
         /\ engine.last \in Int /\ engine.count \in Nat
         /\ \A l \in Laps : l \in Nat /\ time[l] \in Nat
  BY DEF TypeOK_Rest, Detection, Laps

(* A step that leaves log, tracker and the times of past laps alone keeps  *)
(* the best of the laps.                                                   *)
LEMMA BestStays ==
  ASSUME TypeOK_Rest, TypeOK_Rest', LogBehind, BestOfTheLaps, UNCHANGED <<log, tracker>>,
         \A l \in Laps : l < game.lap => time'[l] = time[l]
  PROVE  BestOfTheLaps'
<1>1. \A l \in Laps : (\E g \in log : l < g.lap) => l < game.lap
  BY FrameTypes DEF LogBehind
<1>2. \A l \in Laps : Counts(l) => time'[l] = time[l]
  BY <1>1 DEF Counts
<1>3. ASSUME NEW l \in Laps
      PROVE  Counts(l)' <=> Counts(l)
  BY <1>1, <1>3 DEF Counts
<1>4. CASE tracker = 0 /\ \A l \in Laps : ~Counts(l)
  BY <1>3, <1>4 DEF BestOfTheLaps
<1>5. CASE /\ \E l \in Laps : Counts(l) /\ time[l] = tracker
           /\ \A l \in Laps : Counts(l) => tracker <= time[l]
  <2>1. \A l \in Laps : Counts(l)' => tracker' <= time'[l]
    BY <1>2, <1>3, <1>5
  <2>2. \E l \in Laps : Counts(l)' /\ time'[l] = tracker'
    BY <1>2, <1>3, <1>5
  <2> QED
    BY <2>1, <2>2 DEF BestOfTheLaps
<1> QED
  BY <1>4, <1>5 DEF BestOfTheLaps

LEMMA CrossLineLaps ==
  ASSUME TypeOK_Rest, TypeOK_Rest', LapInv, CrossLine
  PROVE  LapInv'
<1>1. /\ UNCHANGED <<session, engine, tracker, log, mixed>>
      /\ game'.lap = game.lap + 1 /\ game'.laps = game.laps + 1
      /\ game'.last = time'[game.lap]
      /\ \A l \in Laps : l # game.lap => time'[l] = time[l]
  BY FrameTypes DEF CrossLine, TypeOK_Rest
<1>2. LogBehind'
  BY <1>1, FrameTypes DEF LapInv, LogBehind
<1>3. mixed = "no" => BestOfTheLaps'
  BY <1>1, BestStays, FrameTypes DEF LapInv
<1>4. ASSUME mixed = "no", engine.on = "live", log # {}
      PROVE  engine.last # -1 /\ \E m \in Laps : Collecting(m)'
  <2>1. PICK m \in Laps : Collecting(m)
    BY <1>4 DEF LapInv, Detects
  <2>2. game.lap = m
    BY <1>4, <2>1, FrameTypes DEF CrossLine, Sampled, Collecting
  <2>3. Collecting(m)'
    BY <1>1, <2>1, <2>2, FrameTypes DEF Collecting, Sampled
  <2> QED
    BY <1>4, <2>3 DEF LapInv, Detects
<1>5. mixed = "no" => Detects'
  BY <1>1, <1>4 DEF LapInv, Detects, Fresh
<1> QED
  BY <1>1, <1>2, <1>3, <1>5 DEF LapInv

(* A frame of the lap that is being collected, or the first of all. *)
LEMMA SameLapLaps ==
  ASSUME TypeOK_Rest, TypeOK_Rest', LapInv, Sample, mixed = "no", engine' = SameLap,
         engine.last = -1 \/ game.laps <= engine.last, UNCHANGED tracker
  PROVE  Detects' /\ BestOfTheLaps'
<1> DEFINE f0 == [lap |-> game.lap, valid |-> game.valid]
<1>1. /\ UNCHANGED <<game, time>> /\ log' = log \cup {f0} /\ engine.on = "live"
      /\ f0.lap = game.lap /\ f0.valid = game.valid /\ game.valid \in {"yes", "no"}
  BY DEF Sample, TypeOK_Rest
<1> HIDE DEF f0
<1>2. /\ engine'.frames = engine.frames \cup {game.lap} /\ engine'.last = game.laps
      /\ engine'.count = engine.count /\ engine'.valid = Both(engine.valid, game.valid)
  BY DEF SameLap
<1>3. CASE log = {}
  <2>1. engine.frames = {} /\ engine.count = 0 /\ engine.valid = "yes"
    BY <1>1, <1>3 DEF LapInv, Detects, Fresh
  <2>2. Collecting(game.lap)'
    BY <1>1, <1>2, <1>3, <2>1, FrameTypes DEF Collecting, Sampled, Both
  <2>3. tracker = 0
    BY <1>3 DEF LapInv, BestOfTheLaps, Counts
  <2>4. \A l \in Laps : ~Counts(l)'
    BY <1>1, <1>3, FrameTypes DEF Counts
  <2> QED
    BY <1>1, <1>2, <2>2, <2>3, <2>4, FrameTypes DEF Detects, BestOfTheLaps
<1>4. CASE log # {}
  <2>1. PICK m \in Laps : Collecting(m)
    BY <1>1, <1>4 DEF LapInv, Detects
  <2>2. engine.last # -1
    BY <1>1, <1>4 DEF LapInv, Detects
  <2>3. game.lap = m
    BY <2>1, <2>2, FrameTypes DEF Collecting
  <2>4. Collecting(m)'
    <3>1. engine'.frames = {m}
      BY <1>2, <2>1, <2>3 DEF Collecting
    <3>2. engine'.valid = "yes" <=> \A f \in log' : f.lap = m => f.valid = "yes"
      BY <1>1, <1>2, <2>1, <2>3 DEF Collecting, Both
    <3> QED
      BY <1>1, <1>2, <2>1, <2>3, <3>1, <3>2, FrameTypes DEF Collecting, Sampled
  <2>5. ASSUME NEW l \in Laps
        PROVE  Counts(l)' <=> Counts(l)
    <3>1. CASE l < m
      <4>1. \A f \in log' : f \in log \/ f.lap = m
        BY <1>1, <2>3
      <4>2. (\E g \in log : l < g.lap) /\ \E g \in log' : l < g.lap
        BY <1>1, <2>1, <3>1 DEF Collecting, Sampled
      <4>3. (\E f \in log' : f.lap < l) <=> \E f \in log : f.lap < l
        BY <1>1, <2>3, <3>1, FrameTypes
      <4>4. (\A f \in log' : f.lap = l => f.valid = "yes") <=> \A f \in log : f.lap = l => f.valid = "yes"
        BY <1>1, <2>3, <3>1, FrameTypes
      <4> QED
        BY <1>1, <4>2, <4>3, <4>4 DEF Counts
    <3>2. CASE ~(l < m)
      BY <1>1, <2>1, <2>3, <3>2, FrameTypes DEF Counts, Collecting
    <3> QED
      BY <3>1, <3>2
  <2>6. BestOfTheLaps'
    BY <1>1, <2>5 DEF LapInv, BestOfTheLaps
  <2> QED
    BY <1>1, <1>2, <2>4, <2>6, FrameTypes DEF Detects
<1> QED
  BY <1>3, <1>4

(* The count went up: the lap that was collected counts from now on, or    *)
(* never will.                                                             *)
LEMMA Completes ==
  ASSUME TypeOK_Rest, LapInv, Sample, mixed = "no",
         engine.last # -1, game.laps > engine.last
  PROVE  \E m \in Laps :
           /\ Collecting(m) /\ game.lap = m + 1 /\ game.last = time[m]
           /\ Counts(m)' <=> Event.out = "no" /\ Event.valid = "yes" /\ Event.time > 0
           /\ \A l \in Laps : l # m => (Counts(l)' <=> Counts(l))
           /\ ~Counts(m)
<1> DEFINE f0 == [lap |-> game.lap, valid |-> game.valid]
<1>1. /\ UNCHANGED <<game, time>> /\ log' = log \cup {f0} /\ engine.on = "live"
      /\ f0.lap = game.lap /\ f0.valid = game.valid
  BY DEF Sample
<1> HIDE DEF f0
<1>2. log # {} /\ \E m \in Laps : Collecting(m)
  BY <1>1 DEF LapInv, Detects, Fresh
<1>3. PICK m \in Laps : Collecting(m)
  BY <1>2
<1>4. game.lap = m + 1 /\ game.last = time[m] /\ m \in Nat
  BY <1>3, FrameTypes DEF Collecting
<1>5. \A f \in log' : f \in log \/ f.lap = m + 1
  BY <1>1, <1>4
<1>6. \A f \in log : f \in log' /\ f.lap <= m
  BY <1>1, <1>3 DEF Collecting
<1>7. \E g \in log' : g.lap = m + 1
  BY <1>1, <1>4
<1>8. \E g \in log : g.lap = m
  BY <1>3 DEF Collecting, Sampled
<1>9. Counts(m)' <=> Event.out = "no" /\ Event.valid = "yes" /\ Event.time > 0
  <2>1. (\E f, g \in log' : f.lap < m /\ m < g.lap) <=> \E f \in log : f.lap < m
    BY <1>4, <1>5, <1>6, <1>7
  <2>2. (\E f \in log : f.lap < m) <=> engine.count # 0
    BY <1>3, <1>4, FrameTypes DEF Collecting
  <2>3. (\A f \in log' : f.lap = m => f.valid = "yes") <=> engine.valid = "yes"
    BY <1>3, <1>4, <1>5, <1>6 DEF Collecting
  <2>4. /\ Event.out = "no" <=> engine.count # 0
        /\ Event.valid = engine.valid /\ Event.time = time[m]
    BY <1>4 DEF Event
  <2> QED
    BY <1>1, <2>1, <2>2, <2>3, <2>4 DEF Counts
<1>10. ASSUME NEW l \in Laps, l # m
       PROVE  Counts(l)' <=> Counts(l)
  <2>1. l \in Nat
    BY FrameTypes
  <2>2. CASE l < m
    <3>1. (\E f, g \in log' : f.lap < l /\ l < g.lap) <=> \E f \in log : f.lap < l
      BY <1>4, <1>5, <1>6, <1>7, <2>1, <2>2
    <3>2. (\E f, g \in log : f.lap < l /\ l < g.lap) <=> \E f \in log : f.lap < l
      BY <1>8, <2>2
    <3>3. (\A f \in log' : f.lap = l => f.valid = "yes") <=> \A f \in log : f.lap = l => f.valid = "yes"
      BY <1>4, <1>5, <1>6, <2>1, <2>2
    <3> QED
      BY <1>1, <3>1, <3>2, <3>3 DEF Counts
  <2>3. CASE l > m
    <3>1. ~ \E g \in log : l < g.lap
      BY <1>4, <1>6, <2>1, <2>3, FrameTypes
    <3>2. ~ \E g \in log' : l < g.lap
      BY <1>4, <1>5, <2>1, <2>3, <3>1
    <3> QED
      BY <3>1, <3>2 DEF Counts
  <2> QED
    BY <1>4, <1>10, <2>1, <2>2, <2>3
<1>11. ~Counts(m)
  BY <1>4, <1>6, FrameTypes DEF Counts
<1> QED
  BY <1>3, <1>4, <1>9, <1>10, <1>11

LEMMA NextLapLaps ==
  ASSUME TypeOK_Rest, TypeOK_Rest', LapInv, Sample, mixed = "no", engine' = NextLap,
         engine.last # -1, game.laps > engine.last, LapCompleted(Event)
  PROVE  Detects' /\ BestOfTheLaps'
<1>1. PICK m \in Laps :
         /\ Collecting(m) /\ game.lap = m + 1 /\ game.last = time[m]
         /\ Counts(m)' <=> Event.out = "no" /\ Event.valid = "yes" /\ Event.time > 0
         /\ \A l \in Laps : l # m => (Counts(l)' <=> Counts(l))
         /\ ~Counts(m)
  BY Completes
<1> DEFINE f0 == [lap |-> game.lap, valid |-> game.valid]
<1>2. /\ UNCHANGED <<game, time>> /\ log' = log \cup {f0} /\ engine.on = "live"
      /\ f0.lap = game.lap /\ f0.valid = game.valid
  BY DEF Sample
<1> HIDE DEF f0
<1>3. /\ engine'.frames = {game.lap} /\ engine'.last = game.laps
      /\ engine'.count = engine.count + 1 /\ engine'.valid = game.valid
  BY DEF NextLap
<1>4. Collecting(game.lap)'
  <2>1. \A f \in log : f.lap < game.lap
    BY <1>1, FrameTypes DEF Collecting
  <2>2. \E f \in log : f.lap < game.lap
    BY <1>1, <2>1 DEF Collecting, Sampled
  <2>3. \A f \in log' : f = f0 \/ f.lap < game.lap
    BY <1>2, <2>1
  <2>4. engine'.valid = "yes" <=> \A f \in log' : f.lap = game.lap => f.valid = "yes"
    BY <1>2, <1>3, <2>3, FrameTypes
  <2> QED
    BY <1>2, <1>3, <2>2, <2>3, <2>4, FrameTypes DEF Collecting, Sampled
<1>5. Detects'
  BY <1>2, <1>3, <1>4, FrameTypes DEF Detects
<1>6. Event.time = time[m] /\ Event.frames = {m}
  BY <1>1 DEF Event, Collecting
<1>7. CASE Considered(Event)
  <2>1. tracker' = time[m] /\ Counts(m)' /\ (tracker = 0 \/ time[m] < tracker)
    BY <1>1, <1>6, <1>7 DEF Considered, IsNewBest, LapCompleted
  <2>2. \A l \in Laps : Counts(l)' => time[m] <= time[l]
    <3> SUFFICES ASSUME NEW l \in Laps, Counts(l)', l # m
                 PROVE  time[m] <= time[l]
      BY FrameTypes
    <3>1. Counts(l)
      BY <1>1
    <3>2. tracker # 0 /\ tracker <= time[l]
      <4>1. CASE tracker = 0 /\ \A k \in Laps : ~Counts(k)
        BY <3>1, <4>1
      <4>2. CASE /\ \E k \in Laps : Counts(k) /\ time[k] = tracker
                 /\ \A k \in Laps : Counts(k) => tracker <= time[k]
        BY <3>1, <4>2, FrameTypes DEF Counts
      <4> QED
        BY <4>1, <4>2 DEF LapInv, BestOfTheLaps
    <3> QED
      BY <2>1, <3>2, FrameTypes DEF TypeOK_Rest
  <2> QED
    BY <1>2, <1>5, <2>1, <2>2 DEF BestOfTheLaps
<1>8. CASE ~Considered(Event)
  <2>1. tracker' = tracker
    BY <1>8 DEF LapCompleted
  <2>2. CASE ~Counts(m)'
    <3>1. \A l \in Laps : Counts(l)' <=> Counts(l)
      BY <1>1, <2>2
    <3> QED
      BY <1>2, <1>5, <2>1, <3>1 DEF LapInv, BestOfTheLaps
  <2>3. CASE Counts(m)'
    <3>1. ~(tracker = 0) /\ ~(time[m] < tracker)
      BY <1>1, <1>6, <1>8, <2>3 DEF Considered, IsNewBest
    <3>2. tracker <= time[m]
      BY <3>1, FrameTypes DEF TypeOK_Rest
    <3>3. PICK k \in Laps : Counts(k) /\ time[k] = tracker
      BY <3>1 DEF LapInv, BestOfTheLaps
    <3>4. \A l \in Laps : Counts(l) => tracker <= time[l]
      BY <3>1 DEF LapInv, BestOfTheLaps
    <3>5. Counts(k)'
      BY <1>1, <3>3
    <3>6. \A l \in Laps : Counts(l)' => tracker <= time[l]
      BY <1>1, <3>2, <3>4
    <3> QED
      BY <1>2, <1>5, <2>1, <3>3, <3>5, <3>6 DEF BestOfTheLaps
  <2> QED
    BY <2>2, <2>3
<1> QED
  BY <1>7, <1>8

LEMMA LapStep ==
  TypeOK_Rest /\ TypeOK_Rest' /\ LapInv /\ [Next]_vars => LapInv'
<1> SUFFICES ASSUME TypeOK_Rest, TypeOK_Rest', LapInv, [Next]_vars
             PROVE  LapInv'
  OBVIOUS
<1>1. CASE Cut
  <2>1. /\ game'.lap = game.lap /\ game'.laps = game.laps /\ game'.last = game.last
        /\ UNCHANGED <<engine, tracker, time, log, mixed>>
    BY <1>1 DEF Cut, TypeOK_Rest
  <2> QED
    BY <2>1 DEF LapInv, LogBehind, Detects, Collecting, Sampled, BestOfTheLaps, Counts
<1>2. CASE CrossLine
  BY <1>2, CrossLineLaps
<1>3. CASE NewGameSession
  <2>1. /\ game'.lap = game.lap + 1 /\ UNCHANGED <<engine, tracker, time, log>>
        /\ mixed' = "no" => mixed = "no" /\ engine.on # "live"
    BY <1>3 DEF NewGameSession
  <2>2. LogBehind'
    BY <2>1, FrameTypes DEF LapInv, LogBehind
  <2>3. mixed' = "no" => BestOfTheLaps'
    BY <2>1, BestStays DEF LapInv
  <2> QED
    BY <2>1, <2>2, <2>3 DEF LapInv, Detects
<1>4. CASE BeginSession
  <2>1. log' = {} /\ engine' = Fresh /\ tracker' = 0
    BY <1>4 DEF BeginSession, ResetTracker
  <2> QED
    BY <2>1 DEF LapInv, LogBehind, Detects, BestOfTheLaps, Counts
<1>5. CASE EndSession
  <2>1. engine'.on = "off" /\ UNCHANGED <<game, tracker, time, log, mixed>>
    BY <1>5 DEF EndSession, TypeOK_Rest, Detection
  <2> QED
    BY <2>1 DEF LapInv, LogBehind, Detects, BestOfTheLaps, Counts
<1>6. CASE Sample
  <2>1. LogBehind'
    BY <1>6, FrameTypes DEF Sample, LapInv, LogBehind
  <2>2. mixed' = mixed
    BY <1>6 DEF Sample
  <2>3. mixed = "no" => Detects' /\ BestOfTheLaps'
    BY <1>6, SameLapLaps, NextLapLaps DEF Sample
  <2> QED
    BY <2>1, <2>2, <2>3 DEF LapInv
<1>7. CASE OtherCommand \/ TakeCommand \/ UNCHANGED vars
  <2>1. UNCHANGED <<game, engine, tracker, time, log, mixed>>
    BY <1>7 DEF OtherCommand, TakeCommand, vars
  <2> QED
    BY <2>1 DEF LapInv, LogBehind, Detects, Collecting, Sampled, BestOfTheLaps, Counts, Fresh
<1> QED
  BY <1>1, <1>2, <1>3, <1>4, <1>5, <1>6, <1>7 DEF Next

LEMMA LapInit == Init => LapInv
  BY DEF Init, Fresh, LapInv, LogBehind, Detects, BestOfTheLaps, Counts

LEMMA LapAlways == Spec => []LapInv
  BY LapInit, LapStep, TypeAlways, PTL DEF Spec

(* The tracker holds the best of the laps that count in this session, and  *)
(* of no other, unless the game began a session under the recording.       *)
THEOREM TracksTheBest == Spec => []TrackerIsBest
<1>1. LapInv => TrackerIsBest
  BY DEF LapInv, TrackerIsBest
<1> QED
  BY <1>1, LapAlways, PTL

-----------------------------------------------------------------------------
(* A reference is a lap that is over, so its time does not change. *)
PastLap(r) == \E l \in Laps : l < game.lap /\ r.frames = {l} /\ r.time = time[l] /\ r.time > 0

RefInv ==
  mixed = "no" =>
    /\ reference = NoReference \/ PastLap(reference)
    /\ \A i \in DOMAIN cmd_ch : cmd_ch[i] = NoReference \/ PastLap(cmd_ch[i])

LEMMA RefStep ==
  TypeOK_Rest /\ TypeOK_Queue /\ LapInv /\ RefInv /\ [Next]_vars => RefInv'
<1> SUFFICES ASSUME TypeOK_Rest, TypeOK_Queue, LapInv, RefInv, [Next]_vars
             PROVE  RefInv'
  OBVIOUS
<1>1. ASSUME UNCHANGED <<reference, cmd_ch>>, mixed' = "no" => mixed = "no",
             game'.lap \in Nat /\ game'.lap >= game.lap,
             \A l \in Laps : l < game.lap => time'[l] = time[l]
      PROVE  RefInv'
  <2>1. ASSUME NEW r, PastLap(r)
        PROVE  \E l \in Laps : l < game'.lap /\ r.frames = {l} /\ r.time = time'[l] /\ r.time > 0
    BY <1>1, <2>1, FrameTypes DEF PastLap
  <2> QED
    BY <1>1, <2>1 DEF RefInv, PastLap
<1>2. CASE Cut
  BY <1>1, <1>2, FrameTypes DEF Cut, TypeOK_Rest
<1>3. CASE CrossLine
  <2>1. game'.lap = game.lap + 1 /\ \A l \in Laps : l < game.lap => time'[l] = time[l]
    BY <1>3, FrameTypes DEF CrossLine, TypeOK_Rest
  <2> QED
    BY <1>1, <1>3, <2>1, FrameTypes DEF CrossLine
<1>4. CASE NewGameSession
  BY <1>1, <1>4, FrameTypes DEF NewGameSession
<1>5. CASE BeginSession \/ EndSession \/ UNCHANGED vars
  BY <1>1, <1>5, FrameTypes DEF BeginSession, EndSession, vars
<1>6. CASE Sample
  <2>1. UNCHANGED <<game, reference, time, mixed>>
    BY <1>6 DEF Sample
  <2>2. CASE UNCHANGED cmd_ch
    BY <1>1, <2>1, <2>2, FrameTypes
  <2>3. CASE cmd_ch' # cmd_ch /\ mixed = "no"
    <3>1. engine.last # -1 /\ game.laps > engine.last /\ LapCompleted(Event)
      BY <1>6, <2>3 DEF Sample
    <3>2. PICK m \in Laps : Collecting(m) /\ game.lap = m + 1 /\ game.last = time[m]
      BY <1>6, <2>3, <3>1, Completes
    <3> DEFINE r == [session |-> session, time |-> Event.time, frames |-> Event.frames]
    <3>3. Event.time > 0 /\ cmd_ch' = Append(cmd_ch, r)
      BY <2>3, <3>1 DEF LapCompleted, Considered
    <3>4. Event.time = time[m] /\ Event.frames = {m} /\ m < game.lap
      BY <3>2, FrameTypes DEF Event, Collecting
    <3>5. PastLap(r)
      BY <3>3, <3>4 DEF PastLap
    <3>6. r \in Reference
      BY EventType DEF Reference, TypeOK_Rest
    <3> HIDE DEF r
    <3>7. \A i \in DOMAIN cmd_ch' : (i \in DOMAIN cmd_ch /\ cmd_ch'[i] = cmd_ch[i]) \/ cmd_ch'[i] = r
      BY <3>3, <3>6, AppendShape
    <3>8. \A i \in DOMAIN cmd_ch' : cmd_ch'[i] = NoReference \/ PastLap(cmd_ch'[i])
      BY <2>3, <3>5, <3>7 DEF RefInv
    <3> QED
      BY <2>1, <2>3, <3>8 DEF RefInv, PastLap
  <2> QED
    BY <2>1, <2>2, <2>3 DEF RefInv
<1>7. CASE OtherCommand
  <2>1. UNCHANGED <<game, reference, time, mixed>> /\ cmd_ch' = Append(cmd_ch, NoReference)
    BY <1>7 DEF OtherCommand
  <2>2. \A i \in DOMAIN cmd_ch' :
           (i \in DOMAIN cmd_ch /\ cmd_ch'[i] = cmd_ch[i]) \/ cmd_ch'[i] = NoReference
    BY <2>1, AppendShape, NoReferenceType
  <2> QED
    BY <2>1, <2>2 DEF RefInv, PastLap
<1>8. CASE TakeCommand
  <2>1. UNCHANGED <<game, time, mixed>> /\ cmd_ch # << >> /\ cmd_ch' = Tail(cmd_ch)
    BY <1>8 DEF TakeCommand
  <2>2. /\ 1 \in DOMAIN cmd_ch /\ Head(cmd_ch) = cmd_ch[1]
        /\ \A i \in DOMAIN cmd_ch' : i + 1 \in DOMAIN cmd_ch /\ cmd_ch'[i] = cmd_ch[i + 1]
    BY <2>1, TailShape
  <2>3. reference' \in {reference, cmd_ch[1]}
    BY <1>8, <2>2 DEF TakeCommand
  <2> QED
    BY <2>1, <2>2, <2>3 DEF RefInv, PastLap
<1> QED
  BY <1>2, <1>3, <1>4, <1>5, <1>6, <1>7, <1>8 DEF Next

(* What was or will be installed as the session's best is one whole lap,   *)
(* under its own time, unless the game began a session under the recording. *)
THEOREM InstallsLaps == Spec => []ReferencesAreLaps
<1>1. Init => RefInv
  BY DEF Init, RefInv
<1>2. RefInv => ReferencesAreLaps
  BY DEF RefInv, PastLap, ReferencesAreLaps, IsALap, References
<1> QED
  BY <1>1, <1>2, RefStep, LapAlways, TypeAlways, PTL DEF Spec
=============================================================================
