----------------------- MODULE ReplayDashboard_proofs -----------------------
(***************************************************************************)
(* Proofs about ReplayDashboard, for any subscriptions, any replay and     *)
(* however frames are dropped.                                             *)
(*                                                                         *)
(* The schedule: PeriodInv says where each next_due stands, at the end of  *)
(* the period that follows the last one that was computed.  The sectors:   *)
(* SectorInv says that the best times are the least of those whose         *)
(* crossing was seen in a valid frame.  The deltas: DeltaInv says that a search is at a sample of the    *)
(* lap of its item, while that is one lap; what a search or an             *)
(* interpolation then finds is shown for any lap that goes forward.  The   *)
(* predictions: no key is the name they look for.                          *)
(***************************************************************************)
EXTENDS ReplayDashboard, SequenceLemmas

(* Division, with one variable for each product. *)
LEMMA DivShift ==
  ASSUME NEW a \in Nat, NEW d \in Nat \ {0}, NEW k \in Nat
  PROVE  (a + d * k) \div d = a \div d + k
  BY Z3

LEMMA DivAtLeast ==
  ASSUME NEW a \in Nat, NEW d \in Nat \ {0}, NEW k \in Nat
  PROVE  a >= d * k <=> a \div d >= k
  BY Z3

LEMMA DivNat == ASSUME NEW a \in Nat, NEW d \in Nat \ {0} PROVE a \div d \in Nat
  BY Z3

LEMMA Product == ASSUME NEW d \in Nat, NEW k \in Nat
                 PROVE  d * k \in Nat /\ d * (k + 1) = d * k + d /\ d * 1 = d
  BY Z3

-----------------------------------------------------------------------------
(* Where a bucket stands: its period is d, due next at n, the schedule is  *)
(* of the time s, p periods were computed, the clock shows t.              *)
Stands(d, n, s, p, t) ==
  /\ d \in Nat /\ p \in Nat /\ n \in Nat
  /\ d = 0 => n <= t
  /\ d # 0 => n = s + d * (p + 1)

(* A bucket is due in each period behind the last computed one, once. *)
LEMMA DueOnce ==
  ASSUME NEW d, NEW n, NEW s \in Nat, NEW p, NEW t \in Nat, s <= t, Stands(d, n, s, p, t), d # 0
  PROVE  t >= n <=> (t - s) \div d > p
<1>1. d \in Nat \ {0} /\ p \in Nat /\ p + 1 \in Nat /\ t - s \in Nat
  BY DEF Stands
<1>2. t - s >= d * (p + 1) <=> (t - s) \div d >= p + 1
  BY <1>1, DivAtLeast
<1>3. d * (p + 1) \in Nat /\ (t - s) \div d \in Nat
  BY <1>1, Product, DivNat
<1>4. t >= n <=> t - s >= d * (p + 1)
  <2> DEFINE m == d * (p + 1)
  <2>1. n = s + m /\ m \in Nat
    BY <1>3 DEF Stands
  <2> HIDE DEF m
  <2>2. t >= n <=> t - s >= m
    BY <2>1
  <2> QED
    BY <2>2 DEF m
<1> QED
  BY <1>1, <1>2, <1>3, <1>4

(* Once it was computed it stands behind the present period. *)
LEMMA DueNext ==
  ASSUME NEW d, NEW n, NEW s \in Nat, NEW p, NEW t \in Nat, s <= t, Stands(d, n, s, p, t), d # 0,
         t >= n
  PROVE  Stands(d, n + d * ((t - n) \div d + 1), s, (t - s) \div d, t)
<1>1. d \in Nat \ {0} /\ p \in Nat /\ p + 1 \in Nat /\ t - s \in Nat /\ t - n \in Nat
  BY DEF Stands
<1> DEFINE q == (t - n) \div d
           m == d * (p + 1)
<1>2. q \in Nat /\ m \in Nat /\ n = s + m
  BY <1>1, DivNat, Product DEF Stands
<1>3. (t - s) \div d = q + (p + 1)
  <2>1. t - s = (t - n) + d * (p + 1)
    <3>1. t - s = (t - n) + m
      <4> HIDE DEF m, q
      <4> QED
        BY <1>1, <1>2
    <3> QED
      BY <3>1
  <2>2. ((t - n) + d * (p + 1)) \div d = (t - n) \div d + (p + 1)
    BY <1>1, DivShift
  <2> QED
    BY <2>1, <2>2
<1> HIDE DEF q
<1>4. n + d * (q + 1) = s + d * ((q + (p + 1)) + 1)
  <2>1. d * (q + 1) + d * (p + 1) = d * ((q + (p + 1)) + 1)
    BY <1>1, <1>2, Z3
  <2>2. d * (q + 1) \in Nat /\ d * ((q + (p + 1)) + 1) \in Nat
    BY <1>1, <1>2, Product
  <2> DEFINE x == d * (q + 1)
             y == d * ((q + (p + 1)) + 1)
  <2>3. n = s + m /\ x + m = y /\ x \in Nat /\ y \in Nat
    BY <1>2, <2>1, <2>2
  <2> HIDE DEF m, x, y
  <2>4. n + x = s + y
    BY <1>2, <2>3
  <2> QED
    BY <2>4 DEF x, y
<1>5. n + d * (q + 1) \in Nat /\ q + (p + 1) \in Nat
  BY <1>1, <1>2, Product DEF Stands
<1>6. Stands(d, n + d * (q + 1), s, q + (p + 1), t)
  BY <1>1, <1>4, <1>5 DEF Stands
<1> QED
  BY <1>3, <1>6 DEF q

LEMMA DueFirst ==
  ASSUME NEW d \in Nat, NEW t \in Nat
  PROVE  Stands(d, t + d, t, 0, t)
<1>1. d * (0 + 1) = d
  BY Product
<1> QED
  BY <1>1 DEF Stands

(* The clock goes on. *)
LEMMA Waits ==
  ASSUME NEW d, NEW n, NEW s, NEW p, NEW t \in Nat, Stands(d, n, s, p, t)
  PROVE  Stands(d, n, s, p, t + 1)
  BY DEF Stands

-----------------------------------------------------------------------------
Clocks == now \in Nat /\ since \in Nat /\ since <= now

Buckets ==
  /\ config \in DOMAIN Configs
  /\ DOMAIN due = Intervals[config] /\ DOMAIN served = Intervals[config]
  /\ due = [d \in DOMAIN due |-> due[d]] /\ served = [d \in DOMAIN served |-> served[d]]

IsBehind == \A d \in DOMAIN due : Stands(d, due[d], since, served[d], now)

(* The commands that wait are about configurations that exist. *)
Commands ==
  /\ cmd_ch \in Seq([op : {"replace", "reference"}, name : DOMAIN Configs \cup Bests])
  /\ \A n \in 1..Len(cmd_ch) : cmd_ch[n].op = "replace" => cmd_ch[n].name \in DOMAIN Configs

PeriodInv == Clocks /\ Buckets /\ IsBehind /\ Commands

LEMMA IntervalsAreNat ==
  ASSUME NEW c \in DOMAIN Configs PROVE Intervals[c] \subseteq Nat
<1>1. \A i \in DOMAIN Configs[c] : Configs[c][i].interval \in Nat
  BY ReplayAssumption DEF ReplayAssumption
<1>2. QED
  BY <1>1 DEF Intervals

LEMMA ScheduleShape ==
  ASSUME NEW c \in DOMAIN Configs, NEW t \in Nat
  PROVE  /\ DOMAIN Schedule(c, t) = Intervals[c]
         /\ Schedule(c, t) = [d \in DOMAIN Schedule(c, t) |-> Schedule(c, t)[d]]
         /\ \A d \in Intervals[c] : Stands(d, Schedule(c, t)[d], t, 0, t)
<1>1. \A d \in Intervals[c] : Stands(d, t + d, t, 0, t)
  BY IntervalsAreNat, DueFirst
<1> QED
  BY <1>1 DEF Schedule

LEMMA PeriodInit == Init => PeriodInv
<1> SUFFICES ASSUME Init PROVE PeriodInv
  OBVIOUS
<1>1. /\ config \in DOMAIN Configs /\ due = Schedule(config, 0)
      /\ served = [d \in Intervals[config] |-> 0] /\ since = 0 /\ now = 0
      /\ cmd_ch = << >>
  BY DEF Init
<1>2. Clocks
  BY <1>1 DEF Clocks
<1>3. Buckets
  BY <1>1, ScheduleShape DEF Buckets
<1>4. IsBehind
  BY <1>1, ScheduleShape DEF IsBehind
<1>5. Commands
  BY <1>1 DEF Commands
<1> QED
  BY <1>2, <1>3, <1>4, <1>5 DEF PeriodInv

LEMMA AppendCommand ==
  ASSUME NEW S, NEW s \in Seq(S), NEW e \in S
  PROVE  /\ Append(s, e) \in Seq(S) /\ Len(Append(s, e)) = Len(s) + 1 /\ Len(s) \in Nat
         /\ \A i \in 1..Len(s) : Append(s, e)[i] = s[i]
         /\ Append(s, e)[Len(s) + 1] = e
  OBVIOUS

LEMMA TailCommand ==
  ASSUME NEW S, NEW s \in Seq(S), s # << >>
  PROVE  /\ Tail(s) \in Seq(S) /\ 1 \in 1..Len(s) /\ Head(s) = s[1]
         /\ \A i \in 1..Len(Tail(s)) : Tail(s)[i] = s[i + 1] /\ i + 1 \in 1..Len(s)
  OBVIOUS

LEMMA CommandSent ==
  ASSUME Commands, NEW c \in [op : {"replace", "reference"}, name : DOMAIN Configs \cup Bests],
         c.op = "replace" => c.name \in DOMAIN Configs, cmd_ch' = Append(cmd_ch, c)
  PROVE  Commands'
<1> DEFINE Cmd == [op : {"replace", "reference"}, name : DOMAIN Configs \cup Bests]
<1>1. cmd_ch \in Seq(Cmd) /\ c \in Cmd
  BY DEF Commands
<1> HIDE DEF Cmd
<1>2. /\ cmd_ch' \in Seq(Cmd) /\ Len(cmd_ch') = Len(cmd_ch) + 1 /\ Len(cmd_ch) \in Nat
      /\ \A i \in 1..Len(cmd_ch) : cmd_ch'[i] = cmd_ch[i]
      /\ cmd_ch'[Len(cmd_ch) + 1] = c
  BY <1>1, AppendCommand
<1>3. ASSUME NEW n \in 1..Len(cmd_ch'), cmd_ch'[n].op = "replace"
      PROVE  cmd_ch'[n].name \in DOMAIN Configs
  <2>1. CASE n = Len(cmd_ch) + 1
    BY <1>2, <1>3, <2>1
  <2>2. CASE n \in 1..Len(cmd_ch)
    BY <1>2, <1>3, <2>2 DEF Commands
  <2> QED
    BY <1>2, <2>1, <2>2
<1> QED
  BY <1>2, <1>3 DEF Commands, Cmd

(* Who touches neither the schedule nor the clock. *)
LEMMA PeriodSame ==
  ASSUME PeriodInv, Commands', UNCHANGED <<now, config, due, since, served>>
  PROVE  PeriodInv'
  BY DEF PeriodInv, Clocks, Buckets, IsBehind

LEMMA PeriodStep == PeriodInv /\ [Next]_vars => PeriodInv'
<1> SUFFICES ASSUME PeriodInv, [Next]_vars PROVE PeriodInv'
  OBVIOUS
<1> USE DEF callerVars, engineVars, registryVars, historyVars
<1>0. Commands
  BY DEF PeriodInv
<1>1. ASSUME NEW c \in DOMAIN Configs, ReplaceItems(c) PROVE PeriodInv'
  <2>1. Commands'
    BY <1>0, <1>1, CommandSent DEF ReplaceItems
  <2> QED
    BY <1>1, <2>1, PeriodSame DEF ReplaceItems
<1>2. CASE Stop \/ JoinHolder \/ JoinDashboard \/ EndReplay
  <2>1. UNCHANGED <<now, config, due, since, served, cmd_ch>>
    BY <1>2 DEF Stop, JoinHolder, JoinDashboard, EndReplay
  <2> QED
    BY <1>0, <2>1, PeriodSame DEF Commands
<1>3. CASE PlayFrame
  <2>1. now' = now + 1 /\ NotifyLap(now') /\ UNCHANGED <<config, due, since, served>>
    BY <1>3 DEF PlayFrame
  <2>2. Commands'
    <3>1. CASE UNCHANGED cmd_ch
      BY <1>0, <3>1 DEF Commands
    <3>2. CASE \E b \in Bests : cmd_ch' = Append(cmd_ch, [op |-> "reference", name |-> b])
      BY <1>0, <3>2, CommandSent
    <3> QED
      BY <2>1, <3>1, <3>2 DEF NotifyLap
  <2>3. Clocks' /\ Buckets'
    BY <2>1 DEF PeriodInv, Clocks, Buckets
  <2>4. IsBehind'
    BY <2>1, Waits DEF PeriodInv, Clocks, IsBehind
  <2> QED
    BY <2>2, <2>3, <2>4 DEF PeriodInv
<1>4. CASE ProcessFrame
  <2>1. /\ due' = [d \in DOMAIN due |-> IF d \in DueIntervals THEN NextDue(d) ELSE due[d]]
        /\ served' = [d \in DOMAIN served |-> IF d \in DueIntervals THEN Period(d) ELSE served[d]]
        /\ UNCHANGED <<now, config, since, cmd_ch>>
    BY <1>4 DEF ProcessFrame
  <2>2. Commands' /\ Clocks' /\ Buckets'
    BY <1>0, <2>1 DEF PeriodInv, Clocks, Buckets, Commands
  <2>3. ASSUME NEW d \in DOMAIN due
        PROVE  Stands(d, due'[d], since, served'[d], now)
    <3>1. Stands(d, due[d], since, served[d], now) /\ d \in DOMAIN served
      BY DEF PeriodInv, IsBehind, Buckets
    <3>2. CASE d \notin DueIntervals
      BY <2>1, <3>1, <3>2
    <3>3. CASE d \in DueIntervals /\ d = 0
      BY <2>1, <3>1, <3>3 DEF Stands, NextDue, Period, PeriodInv, Clocks
    <3>4. CASE d \in DueIntervals /\ d # 0
      <4>1. now >= due[d]
        BY <3>4 DEF DueIntervals
      <4>2. /\ due'[d] = due[d] + d * ((now - due[d]) \div d + 1)
            /\ served'[d] = (now - since) \div d
        BY <2>1, <3>1, <3>4 DEF NextDue, Period
      <4>3. Stands(d, due[d] + d * ((now - due[d]) \div d + 1), since, (now - since) \div d, now)
        BY <3>1, <3>4, <4>1, DueNext DEF PeriodInv, Clocks
      <4> QED
        BY <4>2, <4>3
    <3> QED
      BY <3>2, <3>3, <3>4
  <2>4. IsBehind'
    BY <2>1, <2>3 DEF IsBehind
  <2> QED
    BY <2>2, <2>4 DEF PeriodInv
<1>5. CASE TakeCommand
  <2>1. cmd_ch # << >> /\ cmd_ch' = Tail(cmd_ch) /\ UNCHANGED now
    BY <1>5 DEF TakeCommand
  <2>2. Commands'
    BY <1>0, <2>1, TailCommand DEF Commands
  <2>3. CASE UNCHANGED <<config, due, since, served>>
    BY <2>1, <2>2, <2>3, PeriodSame
  <2>4. CASE /\ Head(cmd_ch).op = "replace" /\ config' = Head(cmd_ch).name
             /\ due' = Schedule(Head(cmd_ch).name, now) /\ since' = now
             /\ served' = [d \in Intervals[Head(cmd_ch).name] |-> 0]
    <3>1. config' \in DOMAIN Configs
      BY <1>0, <2>1, <2>4, TailCommand DEF Commands
    <3>2. now \in Nat
      BY DEF PeriodInv, Clocks
    <3>3. due' = Schedule(config', now) /\ served' = [d \in Intervals[config'] |-> 0]
      BY <2>4
    <3>4. Clocks'
      BY <2>1, <2>4, <3>2 DEF Clocks
    <3>5. Buckets'
      BY <3>1, <3>2, <3>3, ScheduleShape DEF Buckets
    <3>6. IsBehind'
      BY <2>1, <2>4, <3>1, <3>2, <3>3, ScheduleShape DEF IsBehind
    <3> QED
      BY <2>2, <3>4, <3>5, <3>6 DEF PeriodInv
  <2> QED
    BY <1>5, <2>3, <2>4 DEF TakeCommand
<1>6. CASE ServiceExit
  <2>1. cmd_ch' = << >> /\ UNCHANGED <<now, config, due, since, served>>
    BY <1>6 DEF ServiceExit
  <2>2. Commands'
    BY <2>1 DEF Commands
  <2> QED
    BY <2>1, <2>2, PeriodSame
<1>7. CASE Over \/ UNCHANGED vars
  <2>1. UNCHANGED <<now, config, due, since, served, cmd_ch>>
    BY <1>7 DEF Over, vars
  <2> QED
    BY <1>0, <2>1, PeriodSame DEF Commands
<1> QED
  BY <1>1, <1>2, <1>3, <1>4, <1>5, <1>6, <1>7 DEF Next, EngineStep, ServiceStep

(* Nothing else takes the frame. *)
LEMMA OnlyProcesses ==
  ASSUME [Next]_vars, FrameProcessed
  PROVE  ProcessFrame
<1> USE DEF callerVars, engineVars, registryVars, historyVars
<1>1. frame_ch # << >> /\ frame_ch' = << >>
  BY DEF FrameProcessed
<1>2. ~UNCHANGED vars /\ ~Over
  BY <1>1 DEF vars, Over
<1>3. ~\E c \in DOMAIN Configs : ReplaceItems(c)
  BY <1>1 DEF ReplaceItems
<1>4. ~(Stop \/ JoinHolder \/ JoinDashboard \/ EndReplay \/ TakeCommand \/ ServiceExit)
  BY <1>1 DEF Stop, JoinHolder, JoinDashboard, EndReplay, TakeCommand, ServiceExit
<1>5. ~PlayFrame
  BY <1>1 DEF PlayFrame, Distribute
<1>6. QED
  BY <1>2, <1>3, <1>4, <1>5 DEF Next, EngineStep, ServiceStep

(* However late frames come, however many are dropped and whenever the     *)
(* subscriptions change, process_frame computes an item in the first frame *)
(* of each of its periods and in no other.                                 *)
THEOREM ServesPeriods == Spec => PeriodsAreServed
<1>1. ASSUME PeriodInv, [Next]_vars, FrameProcessed, NEW i \in DOMAIN Subs
      PROVE  i \in sent'.items <=> Subs[i].interval = 0 \/ Period(Subs[i].interval) > served[Subs[i].interval]
  <2>1. ProcessFrame
    BY <1>1, OnlyProcesses
  <2> DEFINE d == Subs[i].interval
  <2>2. sent'.items = DueItems
    BY <2>1 DEF ProcessFrame
  <2>3. d \in DOMAIN due
    BY <1>1 DEF PeriodInv, Buckets, Intervals, Subs
  <2>4. i \in sent'.items <=> now >= due[d]
    BY <2>2, <2>3 DEF DueItems, DueIntervals
  <2>5. /\ Stands(d, due[d], since, served[d], now)
        /\ now \in Nat /\ since \in Nat /\ since <= now
    BY <1>1, <2>3 DEF PeriodInv, IsBehind, Clocks
  <2> HIDE DEF d
  <2>6. CASE d = 0
    <3>1. now >= due[d]
      BY <2>5, <2>6 DEF Stands
    <3> QED
      BY <2>4, <2>6, <3>1 DEF d
  <2>7. CASE d # 0
    <3>1. now >= due[d] <=> (now - since) \div d > served[d]
      BY <2>5, <2>7, DueOnce
    <3>2. Period(d) = (now - since) \div d
      BY <2>7 DEF Period
    <3> QED
      BY <2>4, <2>7, <3>1, <3>2 DEF d
  <2> QED
    BY <2>6, <2>7
<1>2. PeriodInv /\ [Next]_vars =>
        [FrameProcessed =>
           \A i \in DOMAIN Subs :
             LET d == Subs[i].interval IN
             i \in sent'.items <=> d = 0 \/ Period(d) > served[d]]_vars
  BY <1>1
<1> QED
  BY <1>2, PeriodInit, PeriodStep, PTL DEF Spec, PeriodsAreServed

-----------------------------------------------------------------------------
(* The sectors of a file.                                                  *)

CrossedIn(f, i, j) == {k \in (i + 1)..j : f[k].sector # f[k - 1].sector}

LEMMA FrameOf ==
  ASSUME NEW f \in Files, NEW n \in 1..Len(f)
  PROVE  /\ Len(f) \in Nat /\ f[n].sector \in Sectors /\ f[n].sector_time \in Nat
         /\ n > 1 /\ f[n].sector = f[n - 1].sector => f[n].sector_time = f[n - 1].sector_time
<1>1. f \in Seq(Frame)
  BY FilesAssumption DEF FilesAssumption
<1>2. Len(f) \in Nat /\ f[n] \in Frame
  BY <1>1
<1>3. n > 1 => n \in 2..Len(f)
  BY <1>2
<1>4. QED
  BY <1>2, <1>3, FilesAssumption DEF FilesAssumption, Frame

(* Between two frames without a crossing nothing changes.                  *)
LEMMA Steady ==
  ASSUME NEW f \in Files, NEW i \in 1..Len(f), NEW j \in i..Len(f), CrossedIn(f, i, j) = {}
  PROVE  f[j].sector = f[i].sector /\ f[j].sector_time = f[i].sector_time
<1> DEFINE Same(d) == i + d <= j =>
                        f[i + d].sector = f[i].sector /\ f[i + d].sector_time = f[i].sector_time
           T == {d \in Nat : Same(d)}
<1>1. Len(f) \in Nat /\ i \in Nat \ {0} /\ j \in Nat /\ i <= j /\ j <= Len(f)
  BY FrameOf
<1>2. 0 \in T
  <2>1. i + 0 = i
    BY <1>1
  <2>2. QED
    BY <2>1
<1>3. ASSUME NEW d \in Nat, d \in T PROVE d + 1 \in T
  <2> SUFFICES ASSUME i + (d + 1) <= j PROVE Same(d + 1)
    BY <1>3
  <2> DEFINE n == i + (d + 1)
  <2>1. n \in (i + 1)..j /\ n \in 1..Len(f) /\ n > 1 /\ n - 1 = i + d /\ i + d <= j
    BY <1>1
  <2>2. f[n].sector = f[n - 1].sector
    BY <2>1 DEF CrossedIn
  <2>3. f[n].sector_time = f[n - 1].sector_time
    BY <2>1, <2>2, FrameOf
  <2>4. f[i + d].sector = f[i].sector /\ f[i + d].sector_time = f[i].sector_time
    BY <1>3, <2>1
  <2>5. QED
    BY <2>1, <2>2, <2>3, <2>4
<1> HIDE DEF T
<1>4. Nat \subseteq T
  BY <1>2, <1>3, AllNat
<1>5. j - i \in T /\ i + (j - i) = j
  BY <1>1, <1>4
<1>6. QED
  BY <1>1, <1>5 DEF T

(* With one crossing there are the sector before it and the one behind it. *)
OnlyCrossing(f, i, j, k) == CrossedIn(f, i, j) = {k}

LEMMA OneCrossing ==
  ASSUME NEW f \in Files, NEW i \in 1..Len(f), NEW j \in i..Len(f), NEW k, OnlyCrossing(f, i, j, k)
  PROVE  /\ k \in (i + 1)..j /\ f[k - 1].sector = f[i].sector
         /\ f[j].sector = f[k].sector /\ f[j].sector_time = f[k].sector_time
         /\ f[j].sector # f[i].sector
<1>1. Len(f) \in Nat /\ i \in Nat \ {0} /\ j \in Nat /\ i <= j /\ j <= Len(f)
  BY FrameOf
<1>2. k \in (i + 1)..j /\ f[k].sector # f[k - 1].sector
  BY DEF CrossedIn, OnlyCrossing
<1>3. /\ k \in Nat /\ k \in 1..Len(f) /\ j \in k..Len(f)
      /\ k - 1 \in i..Len(f) /\ k - 1 \in Nat /\ k - 1 <= j
  BY <1>1, <1>2
<1>4. CrossedIn(f, k, j) = {} /\ CrossedIn(f, i, k - 1) = {}
  <2>1. ASSUME NEW n \in CrossedIn(f, k, j) PROVE FALSE
    <3>1. n \in CrossedIn(f, i, j) /\ n # k
      BY <1>1, <1>2, <1>3, <2>1 DEF CrossedIn
    <3>2. QED
      BY <3>1 DEF OnlyCrossing
  <2>2. ASSUME NEW n \in CrossedIn(f, i, k - 1) PROVE FALSE
    <3>1. n \in CrossedIn(f, i, j) /\ n # k
      BY <1>1, <1>2, <1>3, <2>2 DEF CrossedIn
    <3>2. QED
      BY <3>1 DEF OnlyCrossing
  <2>3. QED
    BY <2>1, <2>2
<1>5. f[j].sector = f[k].sector /\ f[j].sector_time = f[k].sector_time
  BY <1>3, <1>4, Steady
<1>6. f[k - 1].sector = f[i].sector
  BY <1>3, <1>4, Steady
<1>7. QED
  BY <1>2, <1>5, <1>6

LEMMA AtMostOne ==
  ASSUME NEW S, IsFiniteSet(S), ~(Cardinality(S) > 1)
  PROVE  S = {} \/ \E k : S = {k}
<1> SUFFICES ASSUME S # {} PROVE \E k : S = {k}
  OBVIOUS
<1>1. PICK k : k \in S
  OBVIOUS
<1>2. ASSUME NEW m \in S, m # k PROVE FALSE
  <2>1. {k, m} \subseteq S /\ IsFiniteSet({k}) /\ m \notin {k}
    BY <1>1, <1>2, FS_Singleton
  <2>2. Cardinality({k}) = 1 /\ {k} \cup {m} = {k, m}
    BY FS_Singleton
  <2>3. Cardinality({k, m}) = 2
    <3>1. Cardinality({k} \cup {m}) = Cardinality({k}) + 1
      BY <2>1, FS_AddElement
    <3>2. QED
      BY <2>2, <3>1
  <2>4. Cardinality({k, m}) <= Cardinality(S)
    BY <2>1, FS_Subset
  <2>5. Cardinality(S) \in Nat
    BY FS_CardinalityType
  <2>6. QED
    BY <2>3, <2>4, <2>5
<1>3. QED
  BY <1>1, <1>2

-----------------------------------------------------------------------------
(* Best times.  The times driven in a sector, of the crossings in v.       *)

TimesOf(f, v, s) == {f[k].sector_time : k \in {k \in v : f[k - 1].sector = s}} \ {0}
IsLeast(b, times) == IF times = {} THEN b = -1 ELSE b \in times /\ \A t \in times : b <= t

LEMMA LeastMore ==
  ASSUME NEW times \in SUBSET (Nat \ {0}), NEW b, IsLeast(b, times), NEW t \in Nat \ {0}
  PROVE  IsLeast(IF Better(t, b) THEN t ELSE b, times \cup {t})
<1>1. CASE times = {}
  <2>1. Better(t, b)
    BY <1>1 DEF IsLeast, Better
  <2>2. QED
    BY <1>1, <2>1 DEF IsLeast
<1>2. CASE times # {}
  <2>1. b \in times /\ b \in Nat \ {0} /\ \A x \in times : b <= x /\ x \in Nat
    BY <1>2 DEF IsLeast
  <2>2. CASE Better(t, b)
    <3>1. t < b
      BY <2>1, <2>2 DEF Better
    <3>2. \A x \in times \cup {t} : t <= x
      BY <2>1, <3>1
    <3>3. QED
      BY <2>2, <3>2 DEF IsLeast
  <2>3. CASE ~Better(t, b)
    <3>1. b <= t
      BY <2>1, <2>3 DEF Better
    <3>2. \A x \in times \cup {t} : b <= x
      BY <2>1, <3>1
    <3>3. QED
      BY <2>1, <2>3, <3>2 DEF IsLeast
  <2>4. QED
    BY <2>2, <2>3
<1>3. QED
  BY <1>1, <1>2

LEMMA TimesMore ==
  ASSUME NEW f, NEW v, NEW k, NEW s
  PROVE  TimesOf(f, v \cup {k}, s) =
           TimesOf(f, v, s) \cup (IF f[k - 1].sector = s THEN {f[k].sector_time} \ {0} ELSE {})
BY DEF TimesOf

(* One crossing more, in a valid lap.                                      *)
LEMMA BestMore ==
  ASSUME NEW f, NEW v, NEW k, NEW s \in Sectors, NEW best, DOMAIN best = Sectors,
         TimesOf(f, v, s) \subseteq Nat, IsLeast(best[s], TimesOf(f, v, s)),
         f[k - 1].sector \in Sectors, f[k].sector_time \in Nat,
         NEW new, new = IF f[k].sector_time > 0 /\ Better(f[k].sector_time, best[f[k - 1].sector])
                        THEN [best EXCEPT ![f[k - 1].sector] = f[k].sector_time] ELSE best
  PROVE  IsLeast(new[s], TimesOf(f, v \cup {k}, s))
<1> DEFINE done == f[k - 1].sector
           t == f[k].sector_time
           times == TimesOf(f, v, s)
           more == TimesOf(f, v \cup {k}, s)
<1>1. times \in SUBSET (Nat \ {0})
  BY DEF TimesOf
<1>2. more = times \cup (IF done = s THEN {t} \ {0} ELSE {})
  BY TimesMore
<1>3. new = IF t > 0 /\ Better(t, best[done]) THEN [best EXCEPT ![done] = t] ELSE best
  OBVIOUS
<1>4. IsLeast(best[s], times) /\ t \in Nat /\ done \in Sectors
  OBVIOUS
<1> HIDE DEF done, t, times, more
<1>5. CASE s # done
  <2>1. new[s] = best[s]
    BY <1>3, <1>5
  <2>2. more = times
    BY <1>2, <1>5
  <2>3. QED
    BY <1>4, <2>1, <2>2 DEF more
<1>6. CASE s = done /\ t = 0
  <2>1. new[s] = best[s]
    BY <1>3, <1>6
  <2>2. more = times
    BY <1>2, <1>6
  <2>3. QED
    BY <1>4, <2>1, <2>2 DEF more
<1>7. CASE s = done /\ t # 0
  <2>1. more = times \cup {t}
    BY <1>2, <1>7
  <2>2. t \in Nat \ {0} /\ t > 0
    BY <1>4, <1>7
  <2>3. new[s] = IF Better(t, best[s]) THEN t ELSE best[s]
    BY <1>3, <1>7, <2>2
  <2>4. IsLeast(IF Better(t, best[s]) THEN t ELSE best[s], times \cup {t})
    BY <1>1, <1>4, <2>2, LeastMore
  <2>5. QED
    BY <2>1, <2>3, <2>4 DEF more
<1>8. QED
  BY <1>5, <1>6, <1>7

-----------------------------------------------------------------------------
(* What the sector items remember.                                         *)

(* Frames come in their order, at most one of them waits.                  *)
Order ==
  /\ file \in Files /\ now \in 0..Len(file) /\ watched.last \in 0..now
  /\ frame_ch = << >> \/ \E t \in (watched.last + 1)..now : frame_ch = <<t>>

(* The crossings that were seen in a valid frame: those that the code      *)
(* counts.                                                                 *)
Accepted == {k \in DOMAIN watched.seen : file[watched.seen[k]].valid}

(* The crossing the previous-sector items show.                            *)
IsPrevious(k) ==
  /\ items.sector.number = file[k - 1].sector
  /\ items.sector.time = IF k \in Accepted THEN file[k].sector_time ELSE -1

(* What the previous-sector items remember, as a record.                   *)
IsSectorState(state) ==
  state = [seen |-> state.seen, time |-> state.time, number |-> state.number]

Watched ==
  /\ DOMAIN watched.seen \subseteq Crossings(watched.last)
  /\ IsSectorState(items.sector)
  /\ DOMAIN items.bests.best = Sectors
  /\ watched.last = 0 => /\ items.sector.seen = -1 /\ items.bests.seen = -1
  /\ watched.last # 0 => /\ items.sector.seen = file[watched.last].sector
                         /\ items.bests.seen = file[watched.last].sector

Bests_True ==
  \A s \in Sectors : IsLeast(items.bests.best[s], TimesOf(file, Accepted, s))

Previous_True ==
  \A k \in DOMAIN watched.seen : (\A j \in DOMAIN watched.seen : j <= k) => IsPrevious(k)

SectorInv ==
  /\ Order /\ Watched
  /\ ~watched.gap => Bests_True /\ Previous_True

(* But for the misjudged crossings, those that the code counts are those   *)
(* whose sector was driven in a valid lap.                                 *)
LEMMA WellJudged ==
  /\ OfValidLaps \ Misjudged \subseteq Accepted
  /\ Accepted \subseteq OfValidLaps \cup Misjudged
  /\ \A k \in DOMAIN watched.seen \ Misjudged : k \in OfValidLaps <=> k \in Accepted
<1>1. ASSUME NEW k \in DOMAIN watched.seen, k \notin Misjudged
      PROVE  file[LastOfLap(k)].valid <=> file[watched.seen[k]].valid
  <2>1. CASE LastOfLap(k) = watched.seen[k]
    BY <2>1
  <2>2. CASE LastOfLap(k) # watched.seen[k]
    BY <1>1, <2>2 DEF Misjudged
  <2>3. QED
    BY <2>1, <2>2
<1>2. \A k \in DOMAIN watched.seen \ Misjudged : k \in OfValidLaps <=> k \in Accepted
  BY <1>1 DEF OfValidLaps, Accepted
<1>3. /\ OfValidLaps \subseteq DOMAIN watched.seen /\ Accepted \subseteq DOMAIN watched.seen
  BY DEF OfValidLaps, Accepted
<1>4. QED
  BY <1>2, <1>3

LEMMA TimesInAre ==
  ASSUME NEW s, NEW crossings
  PROVE  TimesIn(s, crossings) = TimesOf(file, crossings, s)
BY DEF TimesIn, TimesOf, Driven

Nested(sure, times, all) == sure \subseteq times /\ times \subseteq all /\ times \subseteq Nat

LEMMA LeastBounds ==
  ASSUME NEW b, NEW sure, NEW times, NEW all, IsLeast(b, times), Nested(sure, times, all)
  PROVE  b \in all \cup {-1} /\ \A t \in sure : b \in 0..t
<1> USE DEF Nested
<1>1. CASE times = {}
  BY <1>1 DEF IsLeast
<1>2. CASE times # {}
  <2>1. b \in times /\ \A t \in times : b <= t
    BY <1>2 DEF IsLeast
  <2>2. QED
    BY <2>1
<1>3. QED
  BY <1>1, <1>2

LEMMA SectorsFollow == SectorInv => SectorsAreTrue
<1> SUFFICES ASSUME SectorInv, ~watched.gap PROVE SectorsAreTrue
  BY DEF SectorsAreTrue
<1>1. Bests_True /\ Previous_True
  BY DEF SectorInv
<1>2. ASSUME NEW s \in Sectors
      PROVE  /\ items.bests.best[s] \in TimesIn(s, OfValidLaps \cup Misjudged) \cup {-1}
             /\ \A t \in TimesIn(s, OfValidLaps \ (Misjudged \cup Spoiled)) :
                  items.bests.best[s] \in 0..t
  <2>1. IsLeast(items.bests.best[s], TimesIn(s, Accepted))
    BY <1>1, TimesInAre DEF Bests_True
  <2>2. /\ TimesIn(s, OfValidLaps \ (Misjudged \cup Spoiled)) \subseteq TimesIn(s, Accepted)
        /\ TimesIn(s, Accepted) \subseteq TimesIn(s, OfValidLaps \cup Misjudged)
    BY WellJudged DEF TimesIn
  <2>3. TimesIn(s, Accepted) \subseteq Nat
    <3>1. file \in Files /\ Len(file) \in Nat /\ watched.last \in 0..Len(file)
      BY FilesAssumption DEF SectorInv, Order, FilesAssumption
    <3>2. \A k \in Accepted : k \in 1..Len(file)
      BY <3>1 DEF SectorInv, Watched, Accepted, Crossings
    <3>3. QED
      BY <3>1, <3>2, FrameOf DEF TimesIn, Driven
  <2>4. Nested(TimesIn(s, OfValidLaps \ (Misjudged \cup Spoiled)), TimesIn(s, Accepted),
               TimesIn(s, OfValidLaps \cup Misjudged))
    BY <2>2, <2>3 DEF Nested
  <2>5. QED
    BY <2>1, <2>4, LeastBounds
<1>3. ASSUME NEW k \in DOMAIN watched.seen, \A j \in DOMAIN watched.seen : j <= k
      PROVE  /\ items.sector.number = Driven(k).sector
             /\ k \notin Misjudged =>
                  items.sector.time = IF k \in OfValidLaps THEN Driven(k).time ELSE -1
  <2>1. IsPrevious(k)
    BY <1>1, <1>3 DEF Previous_True
  <2>2. Driven(k).sector = file[k - 1].sector /\ Driven(k).time = file[k].sector_time
    BY DEF Driven
  <2>3. k \notin Misjudged => (k \in OfValidLaps <=> k \in Accepted)
    BY WellJudged
  <2>4. QED
    BY <2>1, <2>2, <2>3 DEF IsPrevious
<1>4. QED
  BY <1>2, <1>3 DEF SectorsAreTrue

LEMMA SectorInit == Init => SectorInv
<1> SUFFICES ASSUME Init PROVE SectorInv
  OBVIOUS
<1>1. /\ file \in Files /\ now = 0 /\ frame_ch = << >>
      /\ watched.last = 0 /\ watched.seen = << >>
      /\ items.sector = NoSector /\ items.bests = NoBests
  BY DEF Init
<1>2. Len(file) \in Nat
  BY <1>1, FilesAssumption DEF FilesAssumption
<1> DEFINE none == << >>
<1>. DOMAIN none = {}
  OBVIOUS
<1>. DOMAIN watched.seen = {}
  BY <1>1
<1> HIDE DEF none
<1>3. Order
  BY <1>1, <1>2 DEF Order
<1>4. Watched
  BY <1>1 DEF Watched, IsSectorState, NoSector, NoBests
<1>5. Bests_True
  BY <1>1 DEF Bests_True, Accepted, TimesOf, IsLeast, NoBests
<1>6. Previous_True
  BY DEF Previous_True
<1>7. QED
  BY <1>3, <1>4, <1>5, <1>6 DEF SectorInv

(* The items of a frame that was not computed keep what they have.         *)
LEMMA SectorSame ==
  ASSUME SectorInv, Order', UNCHANGED <<file, watched, items.sector, items.bests>>
  PROVE  SectorInv'
BY DEF SectorInv, Watched, Bests_True, Previous_True, IsPrevious, Accepted, Crossings

(* The sector items are computed together or not at all.                   *)
LEMMA Together ==
  ASSUME config \in DOMAIN Configs
  PROVE  DueItems \cap SectorItems = {} \/ SectorItems \subseteq DueItems
<1> SUFFICES ASSUME NEW i \in DueItems \cap SectorItems PROVE SectorItems \subseteq DueItems
  OBVIOUS
<1>1. i \in SectorItems \cap DOMAIN Configs[config] /\ Configs[config][i].interval \in DueIntervals
  BY DEF DueItems, Subs
<1>2. SectorItems \cap DOMAIN Configs[config] = SectorItems
  BY <1>1, ReplayAssumption DEF ReplayAssumption
<1>3. \A j \in SectorItems : /\ j \in DOMAIN Configs[config]
                             /\ Configs[config][j].interval = Configs[config][i].interval
  BY <1>1, <1>2, ReplayAssumption DEF ReplayAssumption
<1>4. QED
  BY <1>1, <1>3 DEF DueItems, Subs

LEMMA SectorsComputed ==
  ASSUME config \in DOMAIN Configs, ProcessFrame
  PROVE  \/ UNCHANGED <<watched, items.sector, items.bests>>
         \/ /\ watched' = Watch(Head(frame_ch))
            /\ items'.sector = PrevSector(items.sector, file[Head(frame_ch)])
            /\ items'.bests = SectorBest(items.bests, file[Head(frame_ch)])
<1>1. /\ items' = Remembered(DueItems, file[Head(frame_ch)])
      /\ watched' = IF DueItems \cap SectorItems = {} THEN watched ELSE Watch(Head(frame_ch))
  BY DEF ProcessFrame
<1>2. /\ items'.sector = IF DueItems \cap {PrevTime, PrevNumber} = {} THEN items.sector
                         ELSE PrevSector(items.sector, file[Head(frame_ch)])
      /\ items'.bests = IF DueItems \cap BestItems = {} THEN items.bests
                        ELSE SectorBest(items.bests, file[Head(frame_ch)])
  BY <1>1 DEF Remembered
<1>3. /\ {PrevTime, PrevNumber} \subseteq SectorItems /\ BestItems \subseteq SectorItems
      /\ PrevTime \in SectorItems /\ \E s \in Sectors : BestOf[s] \in BestItems
  <2>1. 0 \in Sectors
    BY DEF Sectors
  <2>2. QED
    BY <2>1 DEF SectorItems, BestItems
<1>4. CASE DueItems \cap SectorItems = {}
  BY <1>1, <1>2, <1>3, <1>4
<1>5. CASE SectorItems \subseteq DueItems
  <2>1. /\ DueItems \cap SectorItems # {} /\ DueItems \cap {PrevTime, PrevNumber} # {}
        /\ DueItems \cap BestItems # {}
    BY <1>3, <1>5
  <2>2. QED
    BY <1>1, <1>2, <2>1
<1>6. QED
  BY <1>4, <1>5, Together

(* The crossings between two computed frames. *)
LEMMA NewCrossings ==
  ASSUME NEW i \in Nat \ {0}, NEW j \in Nat, i < j
  PROVE  /\ Crossings(j) \ Crossings(i) = CrossedIn(file, i, j)
         /\ Crossings(j) = Crossings(i) \cup CrossedIn(file, i, j)
         /\ IsFiniteSet(CrossedIn(file, i, j))
<1>1. Crossings(j) \ Crossings(i) = CrossedIn(file, i, j)
  BY DEF Crossings, CrossedIn
<1>2. Crossings(j) = Crossings(i) \cup CrossedIn(file, i, j)
  BY DEF Crossings, CrossedIn
<1>3. IsFiniteSet((i + 1)..j) /\ CrossedIn(file, i, j) \subseteq (i + 1)..j
  BY FS_Interval DEF CrossedIn
<1>4. QED
  BY <1>1, <1>2, <1>3, FS_Subset

SectorDone(state, frame) == state.seen \notin {-1, frame.sector}

LEMMA PrevShape ==
  ASSUME NEW state, IsSectorState(state), NEW frame, NEW new, new = PrevSector(state, frame)
  PROVE  /\ IsSectorState(new)
         /\ new.seen = frame.sector
         /\ ~SectorDone(state, frame) =>
              new.number = state.number /\ new.time = state.time
         /\ SectorDone(state, frame) =>
              /\ new.number = state.seen
              /\ new.time = IF frame.valid THEN frame.sector_time ELSE -1
<1>1. CASE ~SectorDone(state, frame)
  <2>1. new = [seen |-> frame.sector, time |-> state.time, number |-> state.number]
    BY <1>1 DEF SectorDone, PrevSector, IsSectorState
  <2>2. QED
    BY <1>1, <2>1 DEF IsSectorState
<1>2. CASE SectorDone(state, frame)
  BY <1>2 DEF SectorDone, PrevSector, IsSectorState
<1>3. QED
  BY <1>1, <1>2

LEMMA BestShape ==
  ASSUME NEW state, DOMAIN state.best = Sectors, NEW frame,
         NEW new, new = SectorBest(state, frame)
  PROVE  /\ new.seen = frame.sector /\ DOMAIN new.best = Sectors
         /\ state.seen \notin Sectors \ {frame.sector} \/ ~frame.valid => new.best = state.best
         /\ state.seen \in Sectors \ {frame.sector} /\ frame.valid =>
              new.best = IF frame.sector_time > 0 /\ Better(frame.sector_time, state.best[state.seen])
                         THEN [state.best EXCEPT ![state.seen] = frame.sector_time]
                         ELSE state.best
BY DEF SectorBest

(* The first frame that is computed. *)
LEMMA WatchBegins ==
  ASSUME SectorInv, watched.last = 0, NEW tick \in 1..Len(file), Order',
         watched' = Watch(tick), file' = file,
         items'.sector = PrevSector(items.sector, file[tick]),
         items'.bests = SectorBest(items.bests, file[tick])
  PROVE  SectorInv'
<1>1. file \in Files /\ Len(file) \in Nat /\ tick \in Nat \ {0}
  BY FilesAssumption DEF SectorInv, Order, FilesAssumption
<1>2. Watched
  BY DEF SectorInv
<1>3. Crossings(0) = {} /\ DOMAIN watched.seen = {}
  BY <1>2 DEF Crossings, Watched
<1>4. watched'.last = tick /\ DOMAIN watched'.seen = {}
  BY <1>3 DEF Watch
<1>5. watched'.gap => watched.gap \/ Cardinality({}) > 1
  BY DEF Watch
<1>6. items.sector.seen = -1 /\ items.bests.seen = -1 /\ -1 \notin Sectors
  BY <1>2 DEF Watched, Sectors
<1>7. /\ IsSectorState(items'.sector)
      /\ items'.sector.seen = file[tick].sector
  <2>1. IsSectorState(items.sector)
    BY <1>2 DEF Watched
  <2>2. /\ IsSectorState(items'.sector)
        /\ items'.sector.seen = file[tick].sector
        /\ ~SectorDone(items.sector, file[tick]) =>
             /\ items'.sector.number = items.sector.number
             /\ items'.sector.time = items.sector.time
        /\ SectorDone(items.sector, file[tick]) =>
             /\ items'.sector.number = items.sector.seen
             /\ items'.sector.time = IF file[tick].valid THEN file[tick].sector_time ELSE -1
    BY <2>1, PrevShape
  <2>3. QED
    BY <2>2
<1>8. /\ items'.bests.seen = file[tick].sector /\ DOMAIN items'.bests.best = Sectors
      /\ items'.bests.best = items.bests.best
  <2>1. DOMAIN items.bests.best = Sectors
    BY <1>2 DEF Watched
  <2>2. items.bests.seen \notin Sectors \ {file[tick].sector}
    BY <1>6
  <2>3. /\ items'.bests.seen = file[tick].sector /\ DOMAIN items'.bests.best = Sectors
        /\ items.bests.seen \notin Sectors \ {file[tick].sector} \/ ~file[tick].valid =>
             items'.bests.best = items.bests.best
        /\ items.bests.seen \in Sectors \ {file[tick].sector} /\ file[tick].valid =>
             items'.bests.best =
               IF file[tick].sector_time > 0
                  /\ Better(file[tick].sector_time, items.bests.best[items.bests.seen])
               THEN [items.bests.best EXCEPT ![items.bests.seen] = file[tick].sector_time]
               ELSE items.bests.best
    BY <2>1, BestShape
  <2>4. QED
    BY <2>2, <2>3
<1>9. Watched'
  BY <1>1, <1>4, <1>7, <1>8 DEF Watched
<1>10. ~watched'.gap => ~watched.gap
  BY DEF Watch
<1>11. Bests_True => Bests_True'
  <2>1. Accepted = {} /\ Accepted' = {}
    BY <1>3, <1>4 DEF Accepted
  <2>2. QED
    BY <1>8, <2>1 DEF Bests_True
<1>12. Previous_True'
  BY <1>4 DEF Previous_True
<1>13. QED
  BY <1>9, <1>10, <1>11, <1>12 DEF SectorInv

(* And the later ones.                                                     *)
LEMMA WatchGoesOn ==
  ASSUME SectorInv, watched.last # 0, NEW tick \in (watched.last + 1)..Len(file), Order',
         watched' = Watch(tick), file' = file,
         items'.sector = PrevSector(items.sector, file[tick]),
         items'.bests = SectorBest(items.bests, file[tick])
  PROVE  SectorInv'
<1> DEFINE last == watched.last
           new == CrossedIn(file, last, tick)
           frame == file[tick]
<1>1. /\ file \in Files /\ Len(file) \in Nat /\ tick \in Nat \ {0} /\ last \in Nat \ {0}
      /\ last < tick /\ last \in 1..Len(file) /\ tick \in last..Len(file)
      /\ tick \in 1..Len(file)
  BY FilesAssumption DEF SectorInv, Order, FilesAssumption
<1>2. Watched
  BY DEF SectorInv
<1>3. /\ Crossings(tick) \ Crossings(last) = new
      /\ Crossings(tick) = Crossings(last) \cup new /\ IsFiniteSet(new)
  BY <1>1, NewCrossings
<1>4. /\ watched'.last = tick
      /\ watched'.gap = (watched.gap \/ Cardinality(new) > 1)
      /\ watched'.seen = [k \in DOMAIN watched.seen \cup new |->
                            IF k \in new THEN tick ELSE watched.seen[k]]
  BY <1>3 DEF Watch
<1>5. /\ items.sector.seen = file[last].sector /\ items.bests.seen = file[last].sector
      /\ DOMAIN watched.seen \subseteq Crossings(last) /\ DOMAIN items.bests.best = Sectors
  BY <1>2 DEF Watched
<1>6. file[last].sector \in Sectors /\ frame.sector \in Sectors /\ frame.sector_time \in Nat
  BY <1>1, FrameOf
<1>7. file[last].sector # -1
  BY <1>6 DEF Sectors
<1>8. /\ IsSectorState(items'.sector)
      /\ items'.sector.seen = frame.sector
      /\ file[last].sector = frame.sector =>
           items'.sector.number = items.sector.number /\ items'.sector.time = items.sector.time
      /\ file[last].sector # frame.sector =>
           /\ items'.sector.number = file[last].sector
           /\ items'.sector.time = IF frame.valid THEN frame.sector_time ELSE -1
  <2>1. IsSectorState(items.sector)
    BY <1>2 DEF Watched
  <2>2. /\ IsSectorState(items'.sector)
        /\ items'.sector.seen = file[tick].sector
        /\ ~SectorDone(items.sector, file[tick]) =>
             /\ items'.sector.number = items.sector.number
             /\ items'.sector.time = items.sector.time
        /\ SectorDone(items.sector, file[tick]) =>
             /\ items'.sector.number = items.sector.seen
             /\ items'.sector.time = IF file[tick].valid THEN file[tick].sector_time ELSE -1
    BY <2>1, PrevShape
  <2>3. file[last].sector = frame.sector => ~SectorDone(items.sector, file[tick])
    BY <1>5 DEF SectorDone
  <2>4. file[last].sector # frame.sector => SectorDone(items.sector, file[tick])
    BY <1>5, <1>7 DEF SectorDone
  <2>5. QED
    BY <1>5, <2>2, <2>3, <2>4
<1>9. /\ items'.bests.seen = frame.sector /\ DOMAIN items'.bests.best = Sectors
      /\ file[last].sector = frame.sector \/ ~frame.valid => items'.bests.best = items.bests.best
      /\ file[last].sector # frame.sector /\ frame.valid =>
           items'.bests.best =
             IF frame.sector_time > 0 /\ Better(frame.sector_time, items.bests.best[file[last].sector])
             THEN [items.bests.best EXCEPT ![file[last].sector] = frame.sector_time]
             ELSE items.bests.best
  BY <1>5, <1>6, BestShape
<1>10. Watched'
  <2>1. DOMAIN watched'.seen \subseteq Crossings(tick)'
    BY <1>3, <1>4, <1>5 DEF Crossings
  <2>2. tick # 0
    BY <1>1
  <2>3. QED
    BY <1>4, <1>8, <1>9, <2>1, <2>2 DEF Watched
<1>13. Accepted' = IF frame.valid THEN Accepted \cup new ELSE Accepted
  <2>1. new \cap DOMAIN watched.seen = {}
    BY <1>3, <1>5
  <2>2. \A k \in new : watched'.seen[k] = tick
    BY <1>4
  <2>3. \A k \in DOMAIN watched.seen : watched'.seen[k] = watched.seen[k]
    BY <1>4, <2>1
  <2>4. DOMAIN watched'.seen = DOMAIN watched.seen \cup new
    BY <1>4
  <2>5. \A k \in new : k \in Accepted' <=> frame.valid
    BY <2>2, <2>4 DEF Accepted
  <2>6. \A k \in DOMAIN watched.seen : k \in Accepted' <=> k \in Accepted
    BY <2>3, <2>4 DEF Accepted
  <2>7. Accepted \subseteq DOMAIN watched.seen /\ Accepted' \subseteq DOMAIN watched.seen \cup new
    BY <2>4 DEF Accepted
  <2> HIDE DEF new, frame
  <2>8. QED
    BY <2>5, <2>6, <2>7
<1>14. DOMAIN watched'.seen = DOMAIN watched.seen \cup new
  BY <1>4
<1>15. Accepted \subseteq DOMAIN watched.seen
  BY DEF Accepted
<1> HIDE DEF new, frame
<1>11. ASSUME ~watched'.gap PROVE Bests_True' /\ Previous_True'
  <2>1. Bests_True /\ Previous_True /\ ~(Cardinality(new) > 1)
    BY <1>4, <1>11 DEF SectorInv
  <2>2. new = {} \/ \E k : new = {k}
    BY <1>3, <2>1, AtMostOne
  <2>3. CASE new = {}
    <3>1. file[last].sector = frame.sector
      BY <1>1, <2>3, Steady DEF new, frame
    <3>2. Accepted' = Accepted /\ DOMAIN watched'.seen = DOMAIN watched.seen
      BY <1>13, <1>14, <2>3
    <3>3. Bests_True'
      BY <1>9, <2>1, <3>1, <3>2 DEF Bests_True
    <3>4. Previous_True'
      BY <1>8, <2>1, <3>1, <3>2 DEF Previous_True, IsPrevious
    <3>5. QED
      BY <3>3, <3>4
  <2>4. ASSUME NEW k, new = {k} PROVE Bests_True' /\ Previous_True'
    <3>1. /\ k \in (last + 1)..tick /\ file[k - 1].sector = file[last].sector
          /\ frame.sector = file[k].sector /\ frame.sector_time = file[k].sector_time
          /\ frame.sector # file[last].sector
      <4>1. OnlyCrossing(file, watched.last, tick, k)
        BY <2>4 DEF new, OnlyCrossing
      <4>2. /\ k \in (watched.last + 1)..tick /\ file[k - 1].sector = file[watched.last].sector
            /\ file[tick].sector = file[k].sector /\ file[tick].sector_time = file[k].sector_time
            /\ file[tick].sector # file[watched.last].sector
        <5>1. /\ file \in Files /\ watched.last \in 1..Len(file)
              /\ tick \in watched.last..Len(file)
          BY <1>1
        <5>2. QED
          BY <4>1, <5>1, OneCrossing
      <4>3. QED
        BY <4>2 DEF frame
    <3>2. k \notin Crossings(last) /\ k \notin Accepted
      BY <1>1, <1>5, <1>15, <3>1 DEF Crossings
    <3>3. Bests_True'
      <4> SUFFICES ASSUME NEW s \in Sectors
                   PROVE  IsLeast(items'.bests.best[s], TimesOf(file, Accepted', s))
        BY DEF Bests_True
      <4>1. IsLeast(items.bests.best[s], TimesOf(file, Accepted, s))
        BY <2>1 DEF Bests_True
      <4>2. CASE ~frame.valid
        BY <1>9, <1>13, <4>1, <4>2
      <4>3. CASE frame.valid
        <5>1. Accepted' = Accepted \cup {k}
          BY <1>13, <2>4, <4>3
        <5>2. TimesOf(file, Accepted, s) \subseteq Nat
          <6>1. \A n \in Accepted : n \in 1..Len(file)
            BY <1>1, <1>5, <1>15 DEF Crossings
          <6>2. QED
            BY <1>1, <6>1, FrameOf DEF TimesOf
        <5>3. items'.bests.best =
                IF file[k].sector_time > 0 /\ Better(file[k].sector_time, items.bests.best[file[k - 1].sector])
                THEN [items.bests.best EXCEPT ![file[k - 1].sector] = file[k].sector_time]
                ELSE items.bests.best
          BY <1>9, <3>1, <4>3
        <5>4. file[k - 1].sector \in Sectors /\ file[k].sector_time \in Nat
          BY <1>6, <3>1
        <5>5. IsLeast(items'.bests.best[s], TimesOf(file, Accepted \cup {k}, s))
          BY <1>5, <4>1, <5>2, <5>3, <5>4, BestMore
        <5>6. QED
          BY <5>1, <5>5
      <4>4. QED
        BY <4>2, <4>3
    <3>4. Previous_True'
      <4> SUFFICES ASSUME NEW m \in DOMAIN watched'.seen,
                          \A j \in DOMAIN watched'.seen : j <= m
                   PROVE  IsPrevious(m)'
        BY DEF Previous_True
      <4>1. m = k
        <5>1. k <= m /\ (m = k \/ m \in Crossings(last))
          BY <1>5, <1>14, <2>4
        <5>2. m \in Crossings(last) => m <= last
          BY DEF Crossings
        <5>3. m \in Crossings(last) => m \in Nat
          BY <1>1 DEF Crossings
        <5>4. QED
          BY <1>1, <3>1, <5>1, <5>2, <5>3
      <4>2. k \in Accepted' <=> frame.valid
        BY <1>13, <2>4, <3>2
      <4>3. /\ items'.sector.number = file[k - 1].sector
            /\ items'.sector.time = IF k \in Accepted' THEN file[k].sector_time ELSE -1
        BY <1>8, <3>1, <4>2
      <4>4. QED
        BY <4>1, <4>3 DEF IsPrevious
    <3>5. QED
      BY <3>3, <3>4
  <2>5. QED
    BY <2>2, <2>3, <2>4
<1>12. QED
  BY <1>10, <1>11 DEF SectorInv

LEMMA SectorProcess ==
  ASSUME SectorInv, config \in DOMAIN Configs, ProcessFrame
  PROVE  SectorInv'
<1>1. Order
  BY DEF SectorInv
<1>2. /\ frame_ch # << >> /\ frame_ch' = << >> /\ file' = file /\ now' = now
  BY DEF ProcessFrame, engineVars
<1>3. PICK tick \in (watched.last + 1)..now : frame_ch = <<tick>>
  BY <1>1, <1>2 DEF Order
<1>4. Head(frame_ch) = tick
  BY <1>3
<1>5. /\ Len(file) \in Nat /\ now \in Nat /\ now <= Len(file) /\ watched.last \in Nat
      /\ tick \in Nat \ {0} /\ tick <= now
  BY <1>1, <1>3, FilesAssumption DEF Order, FilesAssumption
<1>6. CASE UNCHANGED <<watched, items.sector, items.bests>>
  <2>1. Order'
    BY <1>1, <1>2, <1>6 DEF Order
  <2>2. QED
    BY <1>2, <1>6, <2>1, SectorSame
<1>7. CASE /\ watched' = Watch(tick)
           /\ items'.sector = PrevSector(items.sector, file[tick])
           /\ items'.bests = SectorBest(items.bests, file[tick])
  <2>1. watched'.last = tick
    BY <1>7 DEF Watch
  <2>2. Order'
    BY <1>1, <1>2, <1>5, <2>1 DEF Order
  <2>3. CASE watched.last = 0
    <3>1. tick \in 1..Len(file)
      BY <1>5
    <3>2. QED
      BY <1>2, <1>7, <2>2, <2>3, <3>1, WatchBegins
  <2>4. CASE watched.last # 0
    <3>1. tick \in (watched.last + 1)..Len(file)
      BY <1>3, <1>5
    <3>2. QED
      BY <1>2, <1>7, <2>2, <2>4, <3>1, WatchGoesOn
  <2>5. QED
    BY <2>3, <2>4
<1>8. QED
  BY <1>4, <1>6, <1>7, SectorsComputed

LEMMA SectorStep == PeriodInv /\ SectorInv /\ [Next]_vars => SectorInv'
<1> SUFFICES ASSUME PeriodInv, SectorInv, [Next]_vars PROVE SectorInv'
  OBVIOUS
<1> USE DEF callerVars, engineVars, registryVars, historyVars
<1>1. CASE ProcessFrame
  BY <1>1, SectorProcess DEF PeriodInv, Buckets
<1>2. CASE PlayFrame
  <2>1. /\ now < Len(file) /\ now' = now + 1 /\ UNCHANGED <<file, watched, items>>
        /\ frame_ch' = frame_ch \/ frame_ch' = <<now + 1>>
    BY <1>2 DEF PlayFrame, Distribute
  <2>2. Order /\ Len(file) \in Nat
    BY FilesAssumption DEF SectorInv, Order, FilesAssumption
  <2>3. now' \in 0..Len(file) /\ watched.last \in 0..now' /\ now + 1 \in (watched.last + 1)..now'
    BY <2>1, <2>2 DEF Order
  <2>4. frame_ch' = << >> \/ \E t \in (watched.last + 1)..now' : frame_ch' = <<t>>
    <3>1. CASE frame_ch' = <<now + 1>>
      BY <2>3, <3>1
    <3>2. CASE frame_ch' = frame_ch
      <4>1. \A t \in (watched.last + 1)..now : t \in (watched.last + 1)..now'
        BY <2>1, <2>2 DEF Order
      <4>2. QED
        BY <2>2, <3>2, <4>1 DEF Order
    <3>3. QED
      BY <2>1, <3>1, <3>2
  <2>5. Order'
    BY <2>1, <2>2, <2>3, <2>4 DEF Order
  <2>6. QED
    BY <2>1, <2>5, SectorSame
<1>3. CASE UNCHANGED <<file, watched, items, now, frame_ch>>
  <2>1. Order'
    BY <1>3 DEF SectorInv, Order
  <2>2. QED
    BY <1>3, <2>1, SectorSame
<1>4. ASSUME NEW c \in DOMAIN Configs, ReplaceItems(c)
      PROVE  UNCHANGED <<file, watched, items, now, frame_ch>>
  BY <1>4 DEF ReplaceItems
<1>5. Stop \/ JoinHolder \/ JoinDashboard \/ EndReplay \/ TakeCommand \/ ServiceExit
        => UNCHANGED <<file, watched, items, now, frame_ch>>
  BY DEF Stop, JoinHolder, JoinDashboard, EndReplay, TakeCommand, ServiceExit
<1>6. Over \/ UNCHANGED vars => UNCHANGED <<file, watched, items, now, frame_ch>>
  BY DEF Over, vars
<1>7. QED
  BY <1>1, <1>2, <1>3, <1>4, <1>5, <1>6 DEF Next, EngineStep, ServiceStep

(* However frames are dropped and whenever the items are computed, the     *)
(* best times are the least of each sector in valid laps and the previous  *)
(* sector is the one driven last, until a whole sector went by unseen;     *)
(* except for misjudged sectors and those of laps that turned invalid      *)
(* later, whose times may be among the best or not.                        *)
THEOREM TrueSectors == Spec => []SectorsAreTrue
<1>1. Init => PeriodInv /\ SectorInv
  BY PeriodInit, SectorInit
<1>2. PeriodInv /\ SectorInv /\ [Next]_vars => PeriodInv' /\ SectorInv'
  BY PeriodStep, SectorStep
<1>3. QED
  BY <1>1, <1>2, SectorsFollow, PTL DEF Spec

-----------------------------------------------------------------------------
(* The deltas.  A lap that goes forward from start on was at a place once; *)
(* there is the time it was at pos, to within slack.                       *)

Sample == [pos : 0..Track, time : Nat]

Goes(lap, start) ==
  /\ lap \in Seq(Sample) /\ start \in Nat \ {0}
  /\ \A k \in (start + 1)..Len(lap) : /\ lap[k - 1].pos < lap[k].pos
                                      /\ lap[k - 1].time <= lap[k].time

AtPlace(lap, start, pos, there, slack) ==
  \A k \in start..Len(lap) :
    /\ lap[k].pos <= pos => there >= lap[k].time - slack
    /\ lap[k].pos > pos => there <= lap[k].time + slack

LEMMA GoesTyped ==
  ASSUME NEW lap, NEW start, Goes(lap, start)
  PROVE  /\ Len(lap) \in Nat /\ start \in Nat \ {0}
         /\ \A k \in start..Len(lap) : lap[k].pos \in Nat /\ lap[k].time \in Nat
<1>1. lap \in Seq(Sample) /\ Len(lap) \in Nat /\ start \in Nat \ {0}
  BY DEF Goes
<1>2. ASSUME NEW k \in start..Len(lap) PROVE lap[k] \in Sample
  BY <1>1
<1>3. ASSUME NEW s \in Sample PROVE s.pos \in Nat /\ s.time \in Nat
  BY DEF Sample, Track
<1>4. QED
  BY <1>1, <1>2, <1>3

LEMMA GoesOn ==
  ASSUME NEW lap, NEW start, Goes(lap, start), NEW i \in start..Len(lap), NEW j \in i..Len(lap)
  PROVE  /\ lap[i].pos <= lap[j].pos /\ lap[i].time <= lap[j].time
         /\ i < j => lap[i].pos < lap[j].pos
<1>1. /\ Len(lap) \in Nat /\ start \in Nat \ {0}
      /\ \A k \in start..Len(lap) : lap[k].pos \in Nat /\ lap[k].time \in Nat
  BY GoesTyped
<1>2. \A k \in (start + 1)..Len(lap) : lap[k - 1].pos < lap[k].pos /\ lap[k - 1].time <= lap[k].time
  BY DEF Goes
<1> DEFINE n == Len(lap) - start
           times == [d \in 0..n |-> lap[start + d].time]
           places == [d \in 0..n |-> lap[start + d].pos - d]
<1>3. n \in Nat /\ i - start \in 0..n /\ j - start \in (i - start)..n
      /\ start + (i - start) = i /\ start + (j - start) = j
  BY <1>1
<1>4. \A d \in 0..n : times[d] \in Int /\ places[d] \in Int
  <2> SUFFICES ASSUME NEW d \in 0..n PROVE times[d] \in Int /\ places[d] \in Int
    OBVIOUS
  <2>1. start + d \in start..Len(lap)
    BY <1>1
  <2>2. QED
    BY <1>1, <2>1
<1>5. \A d \in 1..n : times[d - 1] <= times[d] /\ places[d - 1] <= places[d]
  <2> SUFFICES ASSUME NEW d \in 1..n PROVE times[d - 1] <= times[d] /\ places[d - 1] <= places[d]
    OBVIOUS
  <2>1. /\ start + d \in (start + 1)..Len(lap) /\ start + d \in start..Len(lap)
        /\ start + (d - 1) \in start..Len(lap) /\ (start + d) - 1 = start + (d - 1)
        /\ d \in 0..n /\ d - 1 \in 0..n
    BY <1>1
  <2>2. /\ lap[start + (d - 1)].time <= lap[start + d].time
        /\ lap[start + (d - 1)].pos < lap[start + d].pos
    BY <1>2, <2>1
  <2>3. lap[start + (d - 1)].pos \in Nat /\ lap[start + d].pos \in Nat
    BY <1>1, <2>1
  <2>4. /\ times[d - 1] = lap[start + (d - 1)].time /\ times[d] = lap[start + d].time
        /\ places[d - 1] = lap[start + (d - 1)].pos - (d - 1)
        /\ places[d] = lap[start + d].pos - d
    BY <2>1
  <2>5. QED
    BY <2>2, <2>3, <2>4
<1>6. /\ times[i - start] = lap[i].time /\ times[j - start] = lap[j].time
      /\ places[i - start] = lap[i].pos - (i - start)
      /\ places[j - start] = lap[j].pos - (j - start)
  BY <1>3
<1> HIDE DEF n, times, places
<1>7. \A c \in 0..n : \A d \in c..n : times[c] <= times[d]
  BY <1>3, <1>4, <1>5, Climbs
<1>8. \A c \in 0..n : \A d \in c..n : places[c] <= places[d]
  BY <1>3, <1>4, <1>5, Climbs
<1>9. times[i - start] <= times[j - start] /\ places[i - start] <= places[j - start]
  BY <1>3, <1>7, <1>8
<1>10. i \in start..Len(lap) /\ j \in start..Len(lap)
  BY <1>1
<1>11. lap[i].pos \in Nat /\ lap[j].pos \in Nat /\ i - start <= j - start
  BY <1>1, <1>10
<1>12. lap[i].time <= lap[j].time
  BY <1>6, <1>9
<1> DEFINE p == lap[i].pos
           q == lap[j].pos
           a == i - start
           b == j - start
<1>13. p - a <= q - b
  BY <1>6, <1>9
<1>14. p \in Int /\ q \in Int /\ a <= b
  BY <1>11
<1>15. a \in Int /\ b \in Int /\ (i < j => a < b)
  BY <1>1
<1> HIDE DEF p, q, a, b
<1>16. p <= q /\ (a < b => p < q)
  BY <1>13, <1>14, <1>15
<1>17. p <= q /\ (i < j => p < q)
  BY <1>15, <1>16
<1>18. QED
  BY <1>12, <1>17 DEF p, q

(* The library's Max and Min of two numbers, or of one. *)
LEMMA MaxOfTwo ==
  ASSUME NEW a \in Int, NEW b \in Int
  PROVE  Max({a, b}) = IF a <= b THEN b ELSE a
<1> DEFINE S == {a, b}
           c == IF a <= b THEN b ELSE a
           m == CHOOSE x \in S : \A y \in S : x >= y
<1>1. c \in S /\ \A y \in S : c >= y
  OBVIOUS
<1>2. m \in S /\ \A y \in S : m >= y
  <2>1. \E x \in S : \A y \in S : x >= y
    BY <1>1
  <2>2. QED
    BY <2>1
<1> HIDE DEF m
<1>3. m = c
  BY <1>1, <1>2
<1>4. QED
  BY <1>3 DEF Max, m

LEMMA MinOfTwo ==
  ASSUME NEW a \in Int, NEW b \in Int
  PROVE  Min({a, b}) = IF a <= b THEN a ELSE b
<1> DEFINE S == {a, b}
           c == IF a <= b THEN a ELSE b
           m == CHOOSE x \in S : \A y \in S : x =< y
<1>1. c \in S /\ \A y \in S : c <= y
  OBVIOUS
<1>2. m \in S /\ \A y \in S : m <= y
  <2>1. \E x \in S : \A y \in S : x <= y
    BY <1>1
  <2>2. QED
    BY <2>1
<1> HIDE DEF m
<1>3. m = c
  BY <1>1, <1>2
<1>4. QED
  BY <1>3 DEF Min, m

(* The search from a sample that is not behind the car finds one, the last *)
(* one the car has passed or the start.                                    *)
LEMMA FoundOne ==
  ASSUME NEW lap, NEW start, Goes(lap, start), NEW from \in start..Len(lap), NEW pos \in Nat
  PROVE  \E i \in from..Len(lap) :
           /\ Found(lap, from, pos) = {i}
           /\ from = start \/ pos >= lap[from].pos => AtPlace(lap, start, pos, lap[i].time, 0)
<1>1. /\ Len(lap) \in Nat /\ start \in Nat \ {0}
      /\ \A k \in start..Len(lap) : lap[k].pos \in Nat /\ lap[k].time \in Nat
  BY GoesTyped
<1> DEFINE T == {i \in from..Len(lap) : i = Len(lap) \/ pos < lap[i + 1].pos}
<1>2. PICK i \in T : \A m \in T : i <= m
  <2>1. T \subseteq Nat /\ Len(lap) \in T
    BY <1>1
  <2>2. QED
    BY <2>1, LeastNat
<1>3. i \in from..Len(lap) /\ i \in start..Len(lap) /\ (i = Len(lap) \/ pos < lap[i + 1].pos)
  BY <1>1, <1>2
<1>4. \A k \in from..(i - 1) : pos >= lap[k + 1].pos
  <2> SUFFICES ASSUME NEW k \in from..(i - 1) PROVE pos >= lap[k + 1].pos
    OBVIOUS
  <2>1. k \in from..Len(lap) /\ k < i /\ k + 1 \in start..Len(lap)
    BY <1>1, <1>3
  <2>2. k \notin T
    BY <1>1, <1>2, <2>1
  <2>3. lap[k + 1].pos \in Nat /\ ~(pos < lap[k + 1].pos)
    BY <1>1, <2>1, <2>2
  <2>4. QED
    BY <2>3
<1>5. i \in Found(lap, from, pos)
  BY <1>3, <1>4 DEF Found
<1>6. ASSUME NEW m \in Found(lap, from, pos) PROVE m = i
  <2>1. /\ m \in from..Len(lap) /\ (m = Len(lap) \/ pos < lap[m + 1].pos)
        /\ \A k \in from..(m - 1) : pos >= lap[k + 1].pos
    BY DEF Found
  <2>2. m \in T /\ i <= m
    BY <1>2, <2>1
  <2>3. CASE i < m
    <3>1. i \in from..(m - 1) /\ i # Len(lap) /\ i + 1 \in start..Len(lap)
      BY <1>1, <1>3, <2>1, <2>3
    <3>2. pos >= lap[i + 1].pos /\ pos < lap[i + 1].pos /\ lap[i + 1].pos \in Nat
      BY <1>1, <1>3, <2>1, <3>1
    <3>3. QED
      BY <3>2
  <2>4. QED
    BY <1>1, <1>3, <2>1, <2>2, <2>3
<1>7. Found(lap, from, pos) = {i}
  BY <1>5, <1>6
<1>8. ASSUME from = start \/ pos >= lap[from].pos, NEW k \in start..Len(lap)
      PROVE  /\ lap[k].pos <= pos => lap[i].time >= lap[k].time - 0
             /\ lap[k].pos > pos => lap[i].time <= lap[k].time + 0
  <2>1. lap[k].pos \in Nat /\ lap[k].time \in Nat /\ lap[i].pos \in Nat /\ lap[i].time \in Nat
    BY <1>1, <1>3
  <2>2. CASE k <= i
    <3>1. i \in k..Len(lap)
      BY <1>1, <1>3, <2>2
    <3>2. lap[k].time <= lap[i].time /\ lap[k].pos <= lap[i].pos
      BY <3>1, GoesOn
    <3>3. lap[k].pos > pos => k = i
      <4>1. SUFFICES ASSUME lap[k].pos > pos, k # i PROVE FALSE
        OBVIOUS
      <4>2. CASE k < from
        <5>1. from \in k..Len(lap) /\ from # start
          BY <1>1, <4>2
        <5>2. lap[k].pos <= lap[from].pos /\ pos >= lap[from].pos
          BY <1>8, <5>1, GoesOn
        <5>3. lap[from].pos \in Nat
          BY <1>1
        <5>4. QED
          BY <2>1, <4>1, <5>2, <5>3
      <4>3. CASE k >= from
        <5>1. k \in from..(i - 1) /\ k + 1 \in k..Len(lap) /\ k + 1 \in start..Len(lap)
          BY <1>1, <1>3, <2>2, <4>1, <4>3
        <5>2. pos >= lap[k + 1].pos /\ lap[k].pos <= lap[k + 1].pos /\ lap[k + 1].pos \in Nat
          BY <1>1, <1>4, <5>1, GoesOn
        <5>3. QED
          BY <2>1, <4>1, <5>2
      <4>4. QED
        BY <1>1, <4>2, <4>3
    <3>4. QED
      BY <2>1, <3>2, <3>3
  <2>3. CASE k > i
    <3>1. k \in i..Len(lap) /\ k \in (i + 1)..Len(lap) /\ i + 1 \in start..Len(lap) /\ i # Len(lap)
      BY <1>1, <1>3, <2>3
    <3>2. lap[i].time <= lap[k].time
      BY <1>3, <3>1, GoesOn
    <3>3. lap[i + 1].pos <= lap[k].pos /\ pos < lap[i + 1].pos /\ lap[i + 1].pos \in Nat
      BY <1>1, <1>3, <3>1, GoesOn
    <3>4. QED
      BY <2>1, <3>2, <3>3
  <2>4. QED
    BY <1>1, <1>3, <2>2, <2>3
<1>9. QED
  BY <1>3, <1>7, <1>8 DEF AtPlace

(* Rounding to ten is exact to five. *)
LEMMA Rounded ==
  ASSUME NEW num \in Int, NEW den \in Nat \ {0}
  PROVE  /\ RoundedTen(num, den) \in Int
         /\ num - 5 * den <= RoundedTen(num, den) * den
         /\ RoundedTen(num, den) * den <= num + 5 * den
<1> DEFINE size == IF num < 0 THEN -num ELSE num
           a == 2 * size + 10 * den
           d == 20 * den
           tens == a \div d
           p == den * tens
<1>1. size \in Nat /\ a \in Nat /\ d \in Nat \ {0}
  OBVIOUS
<1>2. tens \in Nat
  <2> HIDE DEF a, d
  <2>1. QED
    BY <1>1, DivNat
<1>3. RoundedTen(num, den) = IF num < 0 THEN -10 * tens ELSE 10 * tens
  BY DEF RoundedTen
<1>4. d * tens <= a /\ ~(d * (tens + 1) <= a)
  <2> HIDE DEF a, d
  <2>1. a >= d * tens /\ ~(a >= d * (tens + 1))
    <3>1. tens + 1 \in Nat /\ ~(a \div d >= tens + 1) /\ a \div d >= tens
      BY <1>2
    <3> HIDE DEF tens
    <3>2. QED
      BY <1>1, <1>2, <3>1, DivAtLeast
  <2>2. d * tens \in Nat /\ d * (tens + 1) \in Nat
    BY <1>1, <1>2, Product
  <2>3. QED
    BY <1>1, <2>1, <2>2
<1> HIDE DEF tens
<1>5. p \in Nat
  BY <1>2, Product
<1>6. d * tens = 20 * p /\ d * (tens + 1) = 20 * p + d
  BY <1>2, Z3
<1>7. RoundedTen(num, den) * den = IF num < 0 THEN -(10 * p) ELSE 10 * p
  BY <1>2, <1>3, Z3
<1> HIDE DEF p
<1>8. 20 * p <= 2 * size + 10 * den /\ 2 * size + 10 * den < 20 * p + 20 * den
  BY <1>1, <1>4, <1>5, <1>6
<1>9. QED
  BY <1>1, <1>2, <1>3, <1>5, <1>7, <1>8

LEMMA RoundedOne ==
  ASSUME NEW num \in Int
  PROVE  RoundedTen(num, 1) \in (num - 5)..(num + 5)
<1> DEFINE r == RoundedTen(num, 1)
<1>1. r \in Int /\ num - 5 * 1 <= r * 1 /\ r * 1 <= num + 5 * 1
  BY Rounded
<1> HIDE DEF r
<1>2. r \in (num - 5)..(num + 5)
  BY <1>1
<1>3. QED
  BY <1>2 DEF r

LEMMA Looser ==
  ASSUME NEW lap, NEW start, Goes(lap, start), NEW pos \in Nat, NEW t \in Int, NEW there \in (t - 5)..(t + 5),
         AtPlace(lap, start, pos, t, 0)
  PROVE  AtPlace(lap, start, pos, there, 5)
<1> SUFFICES ASSUME NEW k \in start..Len(lap)
             PROVE  /\ lap[k].pos <= pos => there >= lap[k].time - 5
                    /\ lap[k].pos > pos => there <= lap[k].time + 5
  BY DEF AtPlace
<1>1. lap[k].pos \in Nat /\ lap[k].time \in Nat
  BY GoesTyped
<1>2. /\ lap[k].pos <= pos => t >= lap[k].time - 0
      /\ lap[k].pos > pos => t <= lap[k].time + 0
  BY DEF AtPlace
<1>3. QED
  BY <1>1, <1>2

(* What a search that began at from remembers: the sample it found.        *)
LEMMA MaxWith ==
  ASSUME NEW found, NEW from \in Nat, NEW i \in Nat, found = {} \/ (found = {i} /\ from <= i)
  PROVE  Max(found \cup {from}) = IF found = {} THEN from ELSE i
<1>1. CASE found = {}
  <2>1. found \cup {from} = {from, from}
    BY <1>1
  <2>2. QED
    BY <1>1, <2>1, MaxOfTwo
<1>2. CASE found # {}
  <2>1. found \cup {from} = {from, i}
    BY <1>2
  <2>2. QED
    BY <1>2, <2>1, MaxOfTwo
<1>3. QED
  BY <1>1, <1>2

(* A search that goes on where one ended, or from the start.               *)
LEMMA RestartIs ==
  ASSUME NEW lap, NEW start, Goes(lap, start), start <= Len(lap),
         NEW index \in Nat, index >= start, NEW pos \in Nat
  PROVE  \/ /\ index \in start..Len(lap) /\ Restart(index, start, lap, pos) \in start..Len(lap)
            /\ \/ Restart(index, start, lap, pos) = start
               \/ pos >= lap[Restart(index, start, lap, pos)].pos
         \/ index > Len(lap) /\ Restart(index, start, lap, pos) = index
<1>1. /\ Len(lap) \in Nat /\ start \in Nat \ {0}
      /\ \A k \in start..Len(lap) : lap[k].pos \in Nat /\ lap[k].time \in Nat
  BY GoesTyped
<1>2. CASE index > Len(lap)
  BY <1>1, <1>2 DEF Restart
<1>3. CASE index <= Len(lap)
  <2>1. index \in start..Len(lap) /\ start \in start..Len(lap) /\ lap[index].pos \in Nat
    BY <1>1, <1>3
  <2>2. Restart(index, start, lap, pos) = IF pos < lap[index].pos THEN start ELSE index
    BY <1>3 DEF Restart
  <2>3. QED
    BY <2>1, <2>2
<1>4. QED
  BY <1>1, <1>2, <1>3

BeginsAt(from, index, lap, start, pos) == from = Restart(index, start, lap, pos)

SearchEnds(from, index, lap, start, pos) ==
  /\ from \in Nat /\ from >= start
  /\ \/ /\ index <= Len(lap) /\ from <= Len(lap)
        /\ \E i \in from..Len(lap) :
             /\ Found(lap, from, pos) = {i} /\ AtPlace(lap, start, pos, lap[i].time, 0)
             /\ Max(Found(lap, from, pos) \cup {from}) = i
     \/ /\ index > Len(lap) /\ Found(lap, from, pos) = {}
        /\ Max(Found(lap, from, pos) \cup {from}) = from

LEMMA SearchIs ==
  ASSUME NEW lap, NEW start, Goes(lap, start), start <= Len(lap),
         NEW index \in Nat, index >= start, NEW pos \in Nat,
         NEW from, BeginsAt(from, index, lap, start, pos)
  PROVE  SearchEnds(from, index, lap, start, pos)
<1>1. Len(lap) \in Nat /\ start \in Nat \ {0}
  BY GoesTyped
<1>2. \/ index \in start..Len(lap) /\ from \in start..Len(lap) /\ (from = start \/ pos >= lap[from].pos)
      \/ index > Len(lap) /\ from = index
  BY RestartIs DEF BeginsAt
<1>3. CASE from \in start..Len(lap) /\ index \in start..Len(lap)
           /\ (from = start \/ pos >= lap[from].pos)
  <2>1. PICK i \in from..Len(lap) :
          /\ Found(lap, from, pos) = {i}
          /\ from = start \/ pos >= lap[from].pos => AtPlace(lap, start, pos, lap[i].time, 0)
    BY <1>3, FoundOne
  <2>2. i \in Nat /\ from \in Nat /\ from <= i
    BY <1>1, <1>3
  <2>3. Max(Found(lap, from, pos) \cup {from}) = i
    BY <2>1, <2>2, MaxWith
  <2>4. index <= Len(lap) /\ from <= Len(lap) /\ from >= start /\ from \in Nat
    BY <1>1, <1>3
  <2>5. Found(lap, from, pos) = {i} /\ AtPlace(lap, start, pos, lap[i].time, 0)
    BY <1>3, <2>1
  <2>6. QED
    BY <2>3, <2>4, <2>5 DEF SearchEnds
<1>4. CASE index > Len(lap) /\ from = index
  <2>1. Found(lap, from, pos) = {}
    BY <1>1, <1>4 DEF Found
  <2>2. Max(Found(lap, from, pos) \cup {from}) = from
    BY <1>4, <2>1, MaxWith
  <2>3. QED
    BY <1>1, <1>4, <2>1, <2>2 DEF SearchEnds
<1>5. QED
  BY <1>2, <1>3, <1>4

Moment(frame) == frame.pos \in 0..Track /\ frame.time \in Nat

(* What a delta item makes of a lap: a true value, one at least as long as *)
(* what it remembers is a sample of the lap.                               *)
DeltaIs(delta, lap, start, state, frame) ==
  /\ delta.state.index \in Nat \ {0}
  /\ \A v \in delta.value : v \in Int /\ AtPlace(lap, start, frame.pos, frame.time - v, 5)
  /\ state.index <= Len(lap) => delta.value # {} /\ delta.state.index <= Len(lap)

LEMMA Resumes ==
  ASSUME NEW state, NEW frame, state.index \in Nat \ {0}
  PROVE  Resumed(state, frame) \in {1, state.index} /\ Resumed(state, frame) \in Nat \ {0}
BY DEF Resumed

LEMMA LifeDeltaIs ==
  ASSUME NEW lap, Goes(lap, 1), lap # << >>, NEW state, state.index \in Nat \ {0},
         NEW frame, Moment(frame)
  PROVE  DeltaIs(DeltaToLifeBest({lap}, state, frame), lap, 1, state, frame)
<1> DEFINE index == Resumed(state, frame)
           pos == frame.pos
           from == Restart(index, 1, lap, pos)
           found == Found(lap, from, pos)
           delta == DeltaToLifeBest({lap}, state, frame)
<1>1. Len(lap) \in Nat /\ 1 <= Len(lap)
      /\ \A k \in 1..Len(lap) : lap[k].time \in Nat
  <2>1. lap \in Seq(Sample)
    BY DEF Goes
  <2>2. Len(lap) \in Nat /\ Len(lap) # 0
    BY <2>1
  <2>3. QED
    BY <2>2, GoesTyped
<1>2. pos \in Nat /\ frame.time \in Nat
  BY DEF Moment, Track
<1>3. index \in Nat /\ index >= 1 /\ index \in {1, state.index}
  BY Resumes
<1>4. delta = [state |-> [lap |-> frame.lap, index |-> Max(found \cup {from})],
               value |-> {frame.time - lap[i].time : i \in found}]
  BY DEF DeltaToLifeBest, NoReference
<1> HIDE DEF delta, found, from, index, pos
<1>5. /\ from \in Nat /\ from >= 1
      /\ \/ /\ index <= Len(lap) /\ from <= Len(lap)
            /\ \E i \in from..Len(lap) :
                 /\ found = {i} /\ AtPlace(lap, 1, pos, lap[i].time, 0)
                 /\ Max(found \cup {from}) = i
         \/ /\ index > Len(lap) /\ found = {}
            /\ Max(found \cup {from}) = from
  <2>1. BeginsAt(from, index, lap, 1, pos)
    BY DEF BeginsAt, from
  <2>2. SearchEnds(from, index, lap, 1, pos)
    BY <1>1, <1>2, <1>3, <2>1, SearchIs
  <2>3. QED
    BY <2>2 DEF SearchEnds, found
<1>6. CASE found = {}
  <2>1. index > Len(lap) /\ Max(found \cup {from}) = from
    BY <1>5, <1>6
  <2>2. delta.value = {} /\ delta.state.index = from
    BY <1>4, <1>6, <2>1
  <2>3. state.index > Len(lap)
    BY <1>1, <1>3, <2>1
  <2>4. DeltaIs(delta, lap, 1, state, frame)
    BY <1>1, <1>5, <2>2, <2>3 DEF DeltaIs
  <2>5. QED
    BY <2>4 DEF delta
<1>7. CASE found # {}
  <2>1. PICK i \in from..Len(lap) : /\ found = {i} /\ AtPlace(lap, 1, pos, lap[i].time, 0)
                                    /\ Max(found \cup {from}) = i
    BY <1>5, <1>7
  <2> DEFINE v == frame.time - lap[i].time
  <2>2. delta.value = {v} /\ delta.state.index = i
    BY <1>4, <2>1
  <2>3. i \in 1..Len(lap) /\ lap[i].time \in Nat
    BY <1>1, <1>5
  <2>4. v \in Int /\ frame.time - v = lap[i].time
    BY <1>2, <2>3
  <2> HIDE DEF v
  <2>5. frame.time - v \in (lap[i].time - 5)..(lap[i].time + 5)
    BY <1>2, <2>3, <2>4
  <2>6. AtPlace(lap, 1, pos, frame.time - v, 5)
    BY <1>2, <2>1, <2>3, <2>5, Looser
  <2>7. AtPlace(lap, 1, frame.pos, frame.time - v, 5)
    BY <2>6 DEF pos
  <2>8. DeltaIs(delta, lap, 1, state, frame)
    BY <2>2, <2>3, <2>4, <2>7 DEF DeltaIs
  <2>9. QED
    BY <2>8 DEF delta
<1>8. QED
  BY <1>6, <1>7

SearchesFrom(lap, start) == lap # << >> /\ start <= Len(lap) /\ SearchStart(lap) = start

LEMMA SessionDeltaIs ==
  ASSUME NEW lap, NEW start, Goes(lap, start), SearchesFrom(lap, start),
         NEW state, state.index \in Nat \ {0}, NEW frame, Moment(frame)
  PROVE  DeltaIs(DeltaToSessionBest({lap}, state, frame), lap, start, state, frame)
<1> DEFINE resumed == Resumed(state, frame)
           index == Max({resumed, start})
           pos == frame.pos
           from == Restart(index, start, lap, pos)
           all == Found(lap, from, pos)
           found == {i \in all : \A k \in (from + 1)..i : lap[k].time >= lap[k - 1].time}
           early == start > 1 /\ pos < lap[start].pos
           delta == DeltaToSessionBest({lap}, state, frame)
<1>1. /\ Len(lap) \in Nat /\ start \in Nat \ {0} /\ start <= Len(lap) /\ start \in start..Len(lap)
      /\ \A k \in start..Len(lap) : lap[k].time \in Nat /\ lap[k].pos \in Nat
  BY GoesTyped DEF SearchesFrom
<1>2. pos \in Nat /\ frame.time \in Nat
  BY DEF Moment, Track
<1>3. index \in Nat /\ index >= start /\ (state.index <= Len(lap) => index <= Len(lap))
  <2>1. resumed \in {1, state.index} /\ resumed \in Nat \ {0}
    BY Resumes
  <2> HIDE DEF resumed
  <2>2. index = IF resumed <= start THEN start ELSE resumed
    BY <1>1, <2>1, MaxOfTwo
  <2> HIDE DEF index
  <2>3. QED
    BY <1>1, <2>1, <2>2
<1>4. delta = IF early
              THEN [state |-> [lap |-> frame.lap, index |-> from], value |-> {frame.time}]
              ELSE [state |-> [lap |-> frame.lap, index |-> Max(found \cup {from})],
                    value |-> {RoundedTen(frame.time - lap[i].time, 1) : i \in found}]
  BY DEF DeltaToSessionBest, NoReference, SearchesFrom
<1> HIDE DEF delta, found, from, index, pos, early, resumed, all
<1>5. SearchEnds(from, index, lap, start, pos)
  <2>1. BeginsAt(from, index, lap, start, pos)
    BY DEF BeginsAt, from
  <2>2. QED
    BY <1>1, <1>2, <1>3, <2>1, SearchIs
<1>6. /\ from \in Nat \ {0} /\ from >= start
      /\ \/ /\ index <= Len(lap) /\ from <= Len(lap)
            /\ \E i \in from..Len(lap) :
                 /\ all = {i} /\ AtPlace(lap, start, pos, lap[i].time, 0)
                 /\ Max(all \cup {from}) = i
         \/ /\ index > Len(lap) /\ all = {}
            /\ Max(all \cup {from}) = from
  <2>1. /\ from \in Nat /\ from >= start
        /\ \/ /\ index <= Len(lap) /\ from <= Len(lap)
              /\ \E i \in from..Len(lap) :
                   /\ all = {i} /\ AtPlace(lap, start, pos, lap[i].time, 0)
                   /\ Max(all \cup {from}) = i
           \/ /\ index > Len(lap) /\ all = {}
              /\ Max(all \cup {from}) = from
    BY <1>5 DEF SearchEnds, all
  <2>2. from # 0
    BY <1>1, <2>1
  <2>3. QED
    BY <2>1, <2>2
<1>7. found = all
  <2>1. ASSUME NEW i \in all, NEW k \in (from + 1)..i PROVE lap[k].time >= lap[k - 1].time
    <3>1. i \in from..Len(lap)
      BY <1>6, <2>1
    <3>2. k - 1 \in start..Len(lap) /\ k \in (k - 1)..Len(lap)
      BY <1>1, <1>6, <3>1
    <3>3. lap[k - 1].time <= lap[k].time
      BY <3>2, GoesOn
    <3>4. k \in start..Len(lap)
      BY <1>1, <3>2
    <3>5. QED
      BY <1>1, <3>2, <3>3, <3>4
  <2>2. QED
    BY <2>1 DEF found
<1>8. CASE early
  <2>1. delta.value = {frame.time} /\ delta.state.index = from
    BY <1>4, <1>8
  <2>2. pos < lap[start].pos /\ lap[start].pos \in Nat
    BY <1>1, <1>8 DEF early
  <2>3. AtPlace(lap, start, pos, 0, 5)
    <3> SUFFICES ASSUME NEW k \in start..Len(lap)
                 PROVE  /\ lap[k].pos <= pos => 0 >= lap[k].time - 5
                        /\ lap[k].pos > pos => 0 <= lap[k].time + 5
      BY DEF AtPlace
    <3>1. lap[start].pos <= lap[k].pos /\ lap[k].pos \in Nat /\ lap[k].time \in Nat
      BY <1>1, GoesOn
    <3>2. QED
      BY <1>2, <2>2, <3>1
  <2>4. frame.time - frame.time = 0 /\ frame.time \in Int
    BY <1>2
  <2>5. AtPlace(lap, start, frame.pos, frame.time - frame.time, 5)
    BY <2>3, <2>4 DEF pos
  <2>6. state.index <= Len(lap) => from <= Len(lap)
    BY <1>1, <1>3, <1>6
  <2>7. DeltaIs(delta, lap, start, state, frame)
    BY <1>6, <2>1, <2>4, <2>5, <2>6 DEF DeltaIs
  <2>8. QED
    BY <2>7 DEF delta
<1>9. CASE ~early /\ all = {}
  <2>1. index > Len(lap) /\ Max(found \cup {from}) = from
    BY <1>6, <1>7, <1>9
  <2>2. delta.value = {} /\ delta.state.index = from
    BY <1>4, <1>7, <1>9, <2>1
  <2>3. ~(state.index <= Len(lap))
    BY <1>1, <1>3, <2>1
  <2>4. DeltaIs(delta, lap, start, state, frame)
    BY <1>6, <2>2, <2>3 DEF DeltaIs
  <2>5. QED
    BY <2>4 DEF delta
<1>10. CASE ~early /\ all # {}
  <2>1. PICK i \in from..Len(lap) : /\ found = {i} /\ AtPlace(lap, start, pos, lap[i].time, 0)
                                    /\ Max(found \cup {from}) = i
    BY <1>6, <1>7, <1>10
  <2> DEFINE d == frame.time - lap[i].time
             v == RoundedTen(d, 1)
  <2>2. delta.value = {v} /\ delta.state.index = i
    BY <1>4, <1>10, <2>1
  <2>3. i \in start..Len(lap) /\ i \in Nat \ {0} /\ i <= Len(lap) /\ lap[i].time \in Nat
    BY <1>1, <1>6
  <2>4. d \in Int /\ frame.time = d + lap[i].time
    BY <1>2, <2>3
  <2> HIDE DEF d
  <2>5. v \in (d - 5)..(d + 5)
    BY <2>4, RoundedOne
  <2> HIDE DEF v
  <2>6. v \in Int /\ frame.time - v \in (lap[i].time - 5)..(lap[i].time + 5)
    BY <1>2, <2>3, <2>4, <2>5
  <2>7. AtPlace(lap, start, pos, frame.time - v, 5)
    BY <1>2, <2>1, <2>3, <2>6, Looser
  <2>8. AtPlace(lap, start, frame.pos, frame.time - v, 5)
    BY <2>7 DEF pos
  <2>9. DeltaIs(delta, lap, start, state, frame)
    BY <2>2, <2>3, <2>6, <2>8 DEF DeltaIs
  <2>10. QED
    BY <2>9 DEF delta
<1>11. QED
  BY <1>8, <1>9, <1>10

-----------------------------------------------------------------------------
(* The points of a lap that goes forward are its samples from the start,   *)
(* behind the origin if it begins later.                                   *)

IsRising(f, r) ==
  f = [n \in 0..Len(r) |->
         IF n = 0 THEN << >>
         ELSE CHOOSE points \in {Kept(p, r[n]) : p \in {f[n - 1]}} : TRUE]

LEMMA KeptNext ==
  ASSUME NEW r, Goes(r, 1), NEW n \in 1..Len(r)
  PROVE  Kept(SubSeq(r, 1, n - 1), r[n]) = SubSeq(r, 1, n)
<1> DEFINE s == SubSeq(r, 1, n - 1)
<1>1. r \in Seq(Sample) /\ Len(r) \in Nat /\ r[n] \in Sample
  BY DEF Goes
<1>2. /\ s \in Seq(Sample) /\ Len(s) = n - 1 /\ \A k \in 1..(n - 1) : s[k] = r[k]
  BY <1>1
<1>3. SubSeq(r, 1, n) = Append(s, r[n])
  BY <1>1
<1>4. Usable(r[n])
  BY <1>1 DEF Usable, Sample
<1>5. Rises(s, r[n])
  <2>1. CASE n = 1
    <3>1. s = << >>
      BY <1>2, <2>1
    <3>2. QED
      BY <3>1 DEF Rises
  <2>2. CASE n # 1
    <3>1. n - 1 \in 1..Len(r) /\ n \in (n - 1)..Len(r) /\ n - 1 < n /\ n - 1 \in 1..(n - 1)
      BY <1>1, <2>2
    <3>2. r[n - 1].pos < r[n].pos /\ r[n - 1].time <= r[n].time
      BY <3>1, GoesOn
    <3>3. Last(s) = r[n - 1]
      BY <1>2, <3>1 DEF Last
    <3>4. /\ r[n - 1].pos \in Nat /\ r[n].pos \in Nat /\ r[n - 1].time \in Nat /\ r[n].time \in Nat
      BY <3>1, GoesTyped
    <3>5. r[n].pos > Last(s).pos /\ r[n].time >= Last(s).time
      BY <3>2, <3>3, <3>4
    <3>6. QED
      BY <3>5 DEF Rises
  <2>3. QED
    BY <2>1, <2>2
<1>6. QED
  BY <1>3, <1>4, <1>5 DEF Kept

LEMMA RisingIs ==
  ASSUME NEW r, Goes(r, 1), NEW f, IsRising(f, r)
  PROVE  f[Len(r)] = SubSeq(r, 1, Len(r))
<1>1. Len(r) \in Nat
  BY GoesTyped
<1> DEFINE T == {n \in Nat : n <= Len(r) => f[n] = SubSeq(r, 1, n)}
<1>2. f[0] = << >> /\ 0 \in 0..Len(r)
  BY <1>1 DEF IsRising
<1>3. 0 \in T
  <2>1. SubSeq(r, 1, 0) = << >>
    BY DEF Goes
  <2>2. QED
    BY <1>2, <2>1
<1>4. ASSUME NEW n \in Nat, n \in T PROVE n + 1 \in T
  <2>1. SUFFICES ASSUME n + 1 <= Len(r) PROVE f[n + 1] = SubSeq(r, 1, n + 1)
    OBVIOUS
  <2>2. f[n] = SubSeq(r, 1, n) /\ n + 1 \in 1..Len(r) /\ n + 1 \in 0..Len(r)
        /\ (n + 1) - 1 = n /\ n + 1 # 0
    BY <1>1, <1>4, <2>1
  <2>3. f[n + 1] = CHOOSE points \in {Kept(p, r[n + 1]) : p \in {f[n]}} : TRUE
    <3>1. f[n + 1] = IF n + 1 = 0 THEN << >>
                     ELSE CHOOSE points \in {Kept(p, r[n + 1]) : p \in {f[(n + 1) - 1]}} : TRUE
      BY <2>2 DEF IsRising
    <3>2. QED
      BY <2>2, <3>1
  <2>4. f[n + 1] = Kept(SubSeq(r, 1, n), r[n + 1])
    BY <2>2, <2>3
  <2>5. QED
    BY <2>2, <2>4, KeptNext
<1> HIDE DEF T
<1>5. Nat \subseteq T
  BY <1>3, <1>4, AllNat
<1>6. QED
  BY <1>1, <1>5 DEF T

LEMMA RisingExists ==
  ASSUME NEW r, Goes(r, 1)
  PROVE  \E f : IsRising(f, r)
<1> DEFINE g == [n \in 0..Len(r) |-> SubSeq(r, 1, n)]
<1>1. Len(r) \in Nat
  BY GoesTyped
<1>2. ASSUME NEW n \in 0..Len(r)
      PROVE  g[n] = IF n = 0 THEN << >>
                    ELSE CHOOSE points \in {Kept(p, r[n]) : p \in {g[n - 1]}} : TRUE
  <2>1. CASE n = 0
    BY <1>1, <2>1 DEF Goes
  <2>2. CASE n # 0
    <3>1. n \in 1..Len(r) /\ g[n] = SubSeq(r, 1, n) /\ g[n - 1] = SubSeq(r, 1, n - 1)
      BY <1>1, <2>2
    <3> HIDE DEF g
    <3>2. g[n] = Kept(g[n - 1], r[n])
      BY <3>1, KeptNext
    <3>3. QED
      BY <2>2, <3>2
  <2>3. QED
    BY <2>1, <2>2
<1>3. g = [n \in 0..Len(r) |-> g[n]]
  OBVIOUS
<1> HIDE DEF g
<1>4. IsRising(g, r)
  BY <1>2, <1>3 DEF IsRising
<1>5. QED
  BY <1>4

Origin == [pos |-> 0, time |-> 0]

LEMMA PointsAre ==
  ASSUME NEW lap, Goes(AfterWrap(lap), 1)
  PROVE  Points(lap) = IF /\ AfterWrap(lap) # << >>
                          /\ AfterWrap(lap)[1].pos > 0 /\ AfterWrap(lap)[1].time > 0
                       THEN <<Origin>> \o AfterWrap(lap) ELSE AfterWrap(lap)
<1> DEFINE r == AfterWrap(lap)
           F == CHOOSE f : IsRising(f, r)
           points == F[Len(r)]
<1>1. IsRising(F, r)
  BY RisingExists
<1>2. Points(lap) = IF points # << >> /\ points[1].pos > 0 /\ points[1].time > 0
                    THEN << [pos |-> 0, time |-> 0] >> \o points
                    ELSE points
  BY DEF Points, IsRising
<1> HIDE DEF F
<1>3. points = SubSeq(r, 1, Len(r))
  BY <1>1, RisingIs
<1>4. SubSeq(r, 1, Len(r)) = r
  <2>1. r \in Seq(Sample)
    BY DEF Goes
  <2> HIDE DEF r
  <2>2. QED
    BY <2>1
<1>5. points = r
  BY <1>3, <1>4
<1>6. QED
  BY <1>2, <1>5 DEF Origin

-----------------------------------------------------------------------------
(* The part of a lap behind its start is a lap that goes from its first    *)
(* sample on.                                                              *)

Starts(lap, start) == LapStart(lap) = start /\ start <= Len(lap)

IsAfter(r, lap, start) ==
  /\ Len(r) = Len(lap) - start + 1
  /\ \A k \in start..Len(lap) : k - start + 1 \in 1..Len(r) /\ r[k - start + 1] = lap[k]

LEMMA AfterWrapIs ==
  ASSUME NEW lap, NEW start, Goes(lap, start), Starts(lap, start)
  PROVE  Goes(AfterWrap(lap), 1) /\ IsAfter(AfterWrap(lap), lap, start)
<1> DEFINE r == AfterWrap(lap)
           n == Len(lap)
<1>1. lap \in Seq(Sample) /\ n \in Nat /\ start \in Nat \ {0} /\ start <= n
  BY GoesTyped DEF Goes, Starts
<1>2. r = SubSeq(lap, start, n)
  BY DEF AfterWrap, Starts
<1>3. /\ r \in Seq(Sample) /\ Len(r) = n - start + 1
      /\ \A k \in 1..(n - start + 1) : r[k] = lap[start + k - 1]
  <2> HIDE DEF r
  <2>1. start - 1 \in 0..n /\ n \in (start - 1)..n /\ (start - 1) + 1 = start
        /\ n - (start - 1) = n - start + 1
    BY <1>1
  <2>2. /\ SubSeq(lap, (start - 1) + 1, n) \in Seq(Sample)
        /\ Len(SubSeq(lap, (start - 1) + 1, n)) = n - (start - 1)
        /\ \A k \in 1..(n - (start - 1)) : SubSeq(lap, (start - 1) + 1, n)[k] = lap[(start - 1) + k]
    BY <1>1, <2>1, SubSeqShape
  <2>3. ASSUME NEW k \in 1..(n - start + 1) PROVE r[k] = lap[start + k - 1]
    <3>1. (start - 1) + k = start + k - 1
      BY <1>1
    <3>2. QED
      BY <1>2, <2>1, <2>2, <3>1
  <2>4. QED
    BY <1>2, <2>1, <2>2, <2>3
<1> HIDE DEF r
<1>4. IsAfter(r, lap, start)
  <2>1. ASSUME NEW k \in start..n PROVE k - start + 1 \in 1..Len(r) /\ r[k - start + 1] = lap[k]
    <3>1. k - start + 1 \in 1..(n - start + 1) /\ start + (k - start + 1) - 1 = k
      BY <1>1
    <3>2. QED
      BY <1>3, <3>1
  <2>2. QED
    BY <1>3, <2>1 DEF IsAfter
<1>5. ASSUME NEW k \in (1 + 1)..Len(r) PROVE r[k - 1].pos < r[k].pos /\ r[k - 1].time <= r[k].time
  <2> DEFINE j == start + k - 1
  <2>1. /\ k \in 1..(n - start + 1) /\ k - 1 \in 1..(n - start + 1)
        /\ start + (k - 1) - 1 = j - 1 /\ j \in (start + 1)..n
    BY <1>1, <1>3
  <2>2. r[k] = lap[j] /\ r[k - 1] = lap[j - 1]
    BY <1>3, <2>1
  <2> HIDE DEF j
  <2>3. lap[j - 1].pos < lap[j].pos /\ lap[j - 1].time <= lap[j].time
    BY <2>1 DEF Goes
  <2>4. QED
    BY <2>2, <2>3
<1>6. Goes(r, 1)
  BY <1>3, <1>5 DEF Goes
<1>7. QED
  BY <1>4, <1>6 DEF r

LEMMA AfterPlace ==
  ASSUME NEW r, NEW lap, NEW start, IsAfter(r, lap, start),
         NEW pos, NEW there, NEW slack, AtPlace(r, 1, pos, there, slack)
  PROVE  AtPlace(lap, start, pos, there, slack)
<1> SUFFICES ASSUME NEW k \in start..Len(lap)
             PROVE  /\ lap[k].pos <= pos => there >= lap[k].time - slack
                    /\ lap[k].pos > pos => there <= lap[k].time + slack
  BY DEF AtPlace
<1> DEFINE j == k - start + 1
<1>1. j \in 1..Len(r) /\ r[j] = lap[k]
  BY DEF IsAfter
<1> HIDE DEF j
<1>2. /\ r[j].pos <= pos => there >= r[j].time - slack
      /\ r[j].pos > pos => there <= r[j].time + slack
  BY <1>1 DEF AtPlace
<1>3. QED
  BY <1>1, <1>2

(* A rounded interpolation between two points.                             *)
LEMMA ProductsRise ==
  ASSUME NEW a \in Int, NEW b \in Int, NEW d \in Nat, a <= b
  PROVE  a * d <= b * d /\ a * d \in Int /\ b * d \in Int
  BY Z3

LEMMA ProductsFall ==
  ASSUME NEW a \in Int, NEW b \in Int, NEW s \in Nat \ {0}, a * s <= b * s
  PROVE  a <= b
  BY Z3

IsBetween(ap, at, bp, bt, fp, ft, v) ==
  /\ (ft - at) * (bp - ap) - (fp - ap) * (bt - at) - 5 * (bp - ap) <= v * (bp - ap)
  /\ v * (bp - ap) <= (ft - at) * (bp - ap) - (fp - ap) * (bt - at) + 5 * (bp - ap)

LEMMA Between ==
  ASSUME NEW ap \in Nat, NEW at \in Nat, NEW bp \in Nat, NEW bt \in Nat, ap < bp, at <= bt,
         NEW fp \in Nat, NEW ft \in Nat, NEW v \in Int,
         IsBetween(ap, at, bp, bt, fp, ft, v)
  PROVE  /\ fp >= ap => ft - v >= at - 5
         /\ fp >= bp => ft - v >= bt - 5
         /\ fp <= ap => ft - v <= at + 5
         /\ fp <= bp => ft - v <= bt + 5
<1> DEFINE s == bp - ap
           d == bt - at
           y == fp - ap
           x == ft - v - at
<1>1. s \in Nat \ {0} /\ d \in Nat /\ y \in Int /\ x \in Int
  OBVIOUS
<1>2. (x - 5) * s <= y * d /\ y * d <= (x + 5) * s
  <2> DEFINE u == ft - at
  <2>1. u * s - y * d - 5 * s <= v * s /\ v * s <= u * s - y * d + 5 * s
    BY DEF IsBetween
  <2>2. u \in Int /\ x = u - v
    OBVIOUS
  <2> HIDE DEF u, s, d, y, x
  <2>3. u * s \in Int /\ v * s \in Int /\ y * d \in Int /\ 5 * s \in Int
    BY <1>1, <2>2
  <2>4. (x - 5) * s = u * s - v * s - 5 * s /\ (x + 5) * s = u * s - v * s + 5 * s
    BY <1>1, <2>2, Z3
  <2> DEFINE us == u * s
             vs == v * s
             yd == y * d
             fs == 5 * s
  <2>5. us - yd - fs <= vs /\ vs <= us - yd + fs
        /\ us \in Int /\ vs \in Int /\ yd \in Int /\ fs \in Int
    BY <2>1, <2>3
  <2> HIDE DEF us, vs, yd, fs
  <2>6. us - vs - fs <= yd /\ yd <= us - vs + fs
    BY <2>5
  <2>7. QED
    BY <2>4, <2>6 DEF us, vs, yd, fs
<1>3. /\ fp >= ap => 0 <= y
      /\ fp >= bp => s <= y
      /\ fp <= ap => y <= 0
      /\ fp <= bp => y <= s
  OBVIOUS
<1>4. /\ x + 5 >= 0 => ft - v >= at - 5
      /\ x + 5 >= d => ft - v >= bt - 5
      /\ x - 5 <= 0 => ft - v <= at + 5
      /\ x - 5 <= d => ft - v <= bt + 5
  OBVIOUS
<1> HIDE DEF s, d, y, x
<1>5. s * d = d * s /\ 0 * d = 0 /\ 0 * s = 0 /\ s * d \in Int
      /\ y * d \in Int /\ (x - 5) * s \in Int /\ (x + 5) * s \in Int
  BY <1>1, Z3
<1>6. x - 5 \in Int /\ x + 5 \in Int /\ s \in Int /\ d \in Int /\ 0 \in Int
  BY <1>1
<1>7. 0 <= y => x + 5 >= 0
  <2>1. SUFFICES ASSUME 0 <= y PROVE x + 5 >= 0
    OBVIOUS
  <2>2. 0 * d <= y * d
    BY <1>1, <1>6, <2>1, ProductsRise
  <2>3. 0 * s <= (x + 5) * s
    BY <1>2, <1>5, <2>2
  <2>4. 0 <= x + 5
    BY <1>1, <1>6, <2>3, ProductsFall
  <2>5. QED
    BY <1>6, <2>4
<1>8. s <= y => x + 5 >= d
  <2>1. SUFFICES ASSUME s <= y PROVE x + 5 >= d
    OBVIOUS
  <2>2. s * d <= y * d
    BY <1>1, <1>6, <2>1, ProductsRise
  <2>3. d * s <= (x + 5) * s
    BY <1>2, <1>5, <2>2
  <2>4. d <= x + 5
    BY <1>1, <1>6, <2>3, ProductsFall
  <2>5. QED
    BY <1>6, <2>4
<1>9. y <= 0 => x - 5 <= 0
  <2>1. SUFFICES ASSUME y <= 0 PROVE x - 5 <= 0
    OBVIOUS
  <2>2. y * d <= 0 * d
    BY <1>1, <1>6, <2>1, ProductsRise
  <2>3. (x - 5) * s <= 0 * s
    BY <1>2, <1>5, <2>2
  <2>4. QED
    BY <1>1, <1>6, <2>3, ProductsFall
<1>10. y <= s => x - 5 <= d
  <2>1. SUFFICES ASSUME y <= s PROVE x - 5 <= d
    OBVIOUS
  <2>2. y * d <= s * d
    BY <1>1, <1>6, <2>1, ProductsRise
  <2>3. (x - 5) * s <= d * s
    BY <1>2, <1>5, <2>2
  <2>4. QED
    BY <1>1, <1>6, <2>3, ProductsFall
<1>11. QED
  BY <1>3, <1>4, <1>7, <1>8, <1>9, <1>10

(* The points the car has passed are the first ones of the lap.            *)
HasPassed(points, pos, m) ==
  /\ m \in 0..Len(points)
  /\ {i \in DOMAIN points : points[i].pos <= pos} = 1..m
  /\ \A k \in 1..Len(points) : points[k].pos <= pos <=> k <= m

LEMMA PassedFirst ==
  ASSUME NEW points, Goes(points, 1), NEW pos \in Nat
  PROVE  \E m : HasPassed(points, pos, m)
<1> DEFINE n == Len(points)
           P == {i \in DOMAIN points : points[i].pos <= pos}
<1>1. /\ n \in Nat /\ DOMAIN points = 1..n
      /\ \A k \in 1..n : points[k].pos \in Nat
  <2>1. points \in Seq(Sample)
    BY DEF Goes
  <2>2. QED
    BY <2>1, GoesTyped
<1>2. \E m \in 0..n : \A k \in 1..n : points[k].pos <= pos <=> k <= m
  <2>1. CASE P = {}
    <3>1. \A k \in 1..n : ~(points[k].pos <= pos) /\ ~(k <= 0)
      BY <1>1, <2>1
    <3>2. 0 \in 0..n
      BY <1>1
    <3>3. QED
      BY <3>1, <3>2
  <2>2. CASE P # {}
    <3>1. P \subseteq 0..n
      BY <1>1
    <3>2. PICK m \in P : \A k \in P : k <= m
      <4> HIDE DEF P
      <4>1. QED
        BY <1>1, <2>2, <3>1, GreatestNat
    <3>3. m \in 1..n /\ m \in 0..n /\ points[m].pos <= pos
      BY <1>1, <3>2
    <3>4. ASSUME NEW k \in 1..n, k <= m PROVE points[k].pos <= pos
      <4>1. m \in k..n /\ k \in 1..n
        BY <1>1, <3>3, <3>4
      <4>2. points[k].pos <= points[m].pos /\ points[k].pos \in Nat /\ points[m].pos \in Nat
        BY <1>1, <3>3, <4>1, GoesOn
      <4>3. QED
        BY <3>3, <4>2
    <3>5. ASSUME NEW k \in 1..n, points[k].pos <= pos PROVE k <= m
      BY <1>1, <3>2, <3>5
    <3>6. QED
      BY <3>3, <3>4, <3>5
  <2>3. QED
    BY <2>1, <2>2
<1>3. PICK m \in 0..n : \A k \in 1..n : points[k].pos <= pos <=> k <= m
  BY <1>2
<1>4. P = 1..m
  <2>1. ASSUME NEW k PROVE k \in P <=> k \in 1..m
    BY <1>1, <1>3
  <2> HIDE DEF P
  <2>2. QED
    BY <2>1
<1>5. HasPassed(points, pos, m)
  BY <1>3, <1>4 DEF HasPassed
<1>6. QED
  BY <1>5

(* The sample from which the points are interpolated.                      *)
IsLower(low, points, m) ==
  /\ low \in 1..(Len(points) - 1)
  /\ m = 0 => low = 1
  /\ m = Len(points) => low = m - 1
  /\ m \in 1..(Len(points) - 1) => low = m

LEMMA LowerIs ==
  ASSUME NEW points, Goes(points, 1), Len(points) >= 2, NEW pos, NEW m, HasPassed(points, pos, m)
  PROVE  IsLower(Min({Max({Cardinality({i \in DOMAIN points : points[i].pos <= pos}), 1}),
                      Len(points) - 1}), points, m)
<1> DEFINE n == Len(points)
           c == Cardinality({i \in DOMAIN points : points[i].pos <= pos})
           most == Max({c, 1})
           low == Min({most, n - 1})
<1>1. n \in Nat /\ m \in 0..n
  BY GoesTyped DEF HasPassed
<1>2. c = m
  <2>1. Cardinality(1..m) = IF 1 > m THEN 0 ELSE m - 1 + 1
    BY <1>1, FS_Interval
  <2>2. c = Cardinality(1..m)
    BY DEF HasPassed
  <2> HIDE DEF c
  <2>3. QED
    BY <1>1, <2>1, <2>2
<1> HIDE DEF c
<1>3. most = IF m <= 1 THEN 1 ELSE m
  BY <1>1, <1>2, MaxOfTwo
<1>4. most \in Int /\ n - 1 \in Int
  BY <1>1, <1>3
<1> HIDE DEF most
<1>5. low = IF most <= n - 1 THEN most ELSE n - 1
  BY <1>4, MinOfTwo
<1> HIDE DEF low
<1>6. IsLower(low, points, m)
  BY <1>1, <1>3, <1>5 DEF IsLower
<1>7. QED
  BY <1>6 DEF low, most, c

(* Interpolated between two points the car is at the place, to five.       *)
LEMMA InterpolatedIs ==
  ASSUME NEW points, Goes(points, 1), Len(points) >= 2, NEW frame, Moment(frame)
  PROVE  \E v \in Int : /\ Interpolated({points}, frame) = {v}
                        /\ AtPlace(points, 1, frame.pos, frame.time - v, 5)
<1> DEFINE pos == frame.pos
           ft == frame.time
           n == Len(points)
           low == Min({Max({Cardinality({i \in DOMAIN points : points[i].pos <= pos}), 1}), n - 1})
           a == points[low]
           b == points[low + 1]
           s == b.pos - a.pos
           num == (ft - a.time) * s - (pos - a.pos) * (b.time - a.time)
           v == RoundedTen(num, s)
<1>1. pos \in Nat /\ ft \in Nat /\ Usable(frame)
  BY DEF Moment, Track, Usable
<1>2. PICK m : HasPassed(points, pos, m)
  BY <1>1, PassedFirst
<1>3. IsLower(low, points, m)
  BY <1>2, LowerIs
<1>4. Interpolated({points}, frame) = {v}
  <2>1. ~(n < 2)
    BY GoesTyped
  <2>2. Interpolated({points}, frame) = UNION {{v}}
    BY <1>1, <2>1 DEF Interpolated
  <2> HIDE DEF v
  <2>3. QED
    BY <2>2
<1> HIDE DEF low
<1>5. /\ n \in Nat /\ \A k \in 1..n : points[k].pos \in Nat /\ points[k].time \in Nat
  BY GoesTyped
<1>6. low \in 1..n /\ low + 1 \in low..n /\ low + 1 \in 1..n /\ low < low + 1
  BY <1>3, <1>5 DEF IsLower
<1>7. /\ a.pos \in Nat /\ a.time \in Nat /\ b.pos \in Nat /\ b.time \in Nat
      /\ a.pos < b.pos /\ a.time <= b.time
  BY <1>5, <1>6, GoesOn
<1>8. s \in Nat \ {0} /\ num \in Int
  <2>1. s \in Nat \ {0}
    BY <1>7
  <2> DEFINE x == ft - a.time
             y == pos - a.pos
             z == b.time - a.time
  <2>2. x \in Int /\ y \in Int /\ z \in Int
    <3> HIDE DEF a, b, pos, ft, num, v, s
    <3>1. x \in Int
      BY <1>1, <1>7
    <3>2. y \in Int
      BY <1>1, <1>7
    <3>3. z \in Int
      BY <1>7
    <3>4. QED
      BY <3>1, <3>2, <3>3
  <2> HIDE DEF x, y, z, s
  <2>3. s \in Int
    BY <2>1
  <2>4. x * s - y * z \in Int
    BY <2>2, <2>3, Z3
  <2>5. QED
    BY <2>1, <2>4 DEF x, y, z
<1>9. v \in Int /\ num - 5 * s <= v * s /\ v * s <= num + 5 * s
  <2> HIDE DEF num, s
  <2>1. QED
    BY <1>8, Rounded
<1>10. IsBetween(a.pos, a.time, b.pos, b.time, pos, ft, v)
  <2> HIDE DEF v
  <2>1. QED
    BY <1>9 DEF IsBetween
<1> HIDE DEF v, a, b
<1>11. /\ pos >= a.pos => ft - v >= a.time - 5
       /\ pos >= b.pos => ft - v >= b.time - 5
       /\ pos <= a.pos => ft - v <= a.time + 5
       /\ pos <= b.pos => ft - v <= b.time + 5
  <2> HIDE DEF pos, ft, num, s, n
  <2> DEFINE ap == a.pos
             at == a.time
             bp == b.pos
             bt == b.time
  <2>1. /\ ap \in Nat /\ at \in Nat /\ bp \in Nat /\ bt \in Nat /\ ap < bp /\ at <= bt
        /\ pos \in Nat /\ ft \in Nat /\ v \in Int
    BY <1>1, <1>7, <1>9
  <2>2. IsBetween(ap, at, bp, bt, pos, ft, v)
    BY <1>10
  <2> HIDE DEF ap, at, bp, bt
  <2>3. /\ pos >= ap => ft - v >= at - 5
        /\ pos >= bp => ft - v >= bt - 5
        /\ pos <= ap => ft - v <= at + 5
        /\ pos <= bp => ft - v <= bt + 5
    BY <2>1, <2>2, Between
  <2>4. QED
    BY <2>3 DEF ap, at, bp, bt
<1>12. ASSUME NEW k \in 1..n
       PROVE  /\ points[k].pos <= pos => ft - v >= points[k].time - 5
              /\ points[k].pos > pos => ft - v <= points[k].time + 5
  <2> DEFINE p == points[k]
             there == ft - v
  <2>1. p.pos \in Nat /\ p.time \in Nat /\ there \in Int /\ m \in 0..n
    BY <1>1, <1>2, <1>5, <1>9 DEF HasPassed
  <2>2. (p.pos <= pos <=> k <= m) /\ (a.pos <= pos <=> low <= m) /\ (b.pos <= pos <=> low + 1 <= m)
    BY <1>2, <1>6 DEF HasPassed, a, b
  <2>3. /\ k <= low => p.time <= a.time
        /\ k <= low + 1 => p.time <= b.time
        /\ k >= low => p.time >= a.time
        /\ k >= low + 1 => p.time >= b.time
    <3>1. /\ k <= low => low \in k..n
          /\ k <= low + 1 => low + 1 \in k..n
          /\ k >= low => k \in low..n
          /\ k >= low + 1 => k \in (low + 1)..n
      BY <1>5, <1>6
    <3>2. /\ low \in k..n => p.time <= a.time
          /\ low + 1 \in k..n => p.time <= b.time
          /\ k \in low..n => a.time <= p.time
          /\ k \in (low + 1)..n => b.time <= p.time
      BY <1>6, GoesOn DEF a, b
    <3>3. QED
      BY <1>7, <2>1, <3>1, <3>2
  <2>4. /\ pos >= a.pos => there >= a.time - 5
        /\ pos >= b.pos => there >= b.time - 5
        /\ pos <= a.pos => there <= a.time + 5
        /\ pos <= b.pos => there <= b.time + 5
    BY <1>11
  <2>5. /\ m = 0 => low = 1
        /\ m = n => low = m - 1
        /\ m \in 1..(n - 1) => low = m
        /\ low \in 1..(n - 1)
    BY <1>3 DEF IsLower
  <2> HIDE DEF p, there, pos
  <2>6. k <= m => there >= p.time - 5
    <3>1. SUFFICES ASSUME k <= m PROVE there >= p.time - 5
      OBVIOUS
    <3>2. CASE m = n
      <4>1. low + 1 <= m /\ k <= low + 1
        BY <1>5, <2>1, <2>5, <3>1, <3>2
      <4>2. b.pos <= pos /\ p.time <= b.time
        BY <2>2, <2>3, <4>1
      <4>3. there >= b.time - 5
        BY <1>1, <1>7, <2>4, <4>2
      <4>4. QED
        BY <1>7, <2>1, <4>2, <4>3
    <3>3. CASE m # n
      <4>1. low <= m /\ k <= low
        BY <1>5, <2>1, <2>5, <3>1, <3>3
      <4>2. a.pos <= pos /\ p.time <= a.time
        BY <2>2, <2>3, <4>1
      <4>3. there >= a.time - 5
        BY <1>1, <1>7, <2>4, <4>2
      <4>4. QED
        BY <1>7, <2>1, <4>2, <4>3
    <3>4. QED
      BY <3>2, <3>3
  <2>7. ~(k <= m) => there <= p.time + 5
    <3>1. SUFFICES ASSUME ~(k <= m) PROVE there <= p.time + 5
      OBVIOUS
    <3>2. CASE m = 0
      <4>1. low = 1 /\ k >= low /\ ~(low <= m)
        BY <1>5, <2>1, <2>5, <3>1, <3>2
      <4>2. ~(a.pos <= pos) /\ p.time >= a.time
        BY <2>2, <2>3, <4>1
      <4>3. there <= a.time + 5
        BY <1>1, <1>7, <2>4, <4>2
      <4>4. QED
        BY <1>7, <2>1, <4>2, <4>3
    <3>3. CASE m # 0
      <4>1. low = m /\ k >= low + 1 /\ ~(low + 1 <= m)
        BY <1>5, <2>1, <2>5, <3>1, <3>3
      <4>2. ~(b.pos <= pos) /\ p.time >= b.time
        BY <2>2, <2>3, <4>1
      <4>3. there <= b.time + 5
        BY <1>1, <1>7, <2>4, <4>2
      <4>4. QED
        BY <1>7, <2>1, <4>2, <4>3
    <3>4. QED
      BY <3>2, <3>3
  <2>8. p.pos > pos => ~(p.pos <= pos)
    BY <1>1, <2>1
  <2>9. /\ p.pos <= pos => there >= p.time - 5
        /\ p.pos > pos => there <= p.time + 5
    BY <2>2, <2>6, <2>7, <2>8
  <2>10. QED
    BY <2>9 DEF p, there
<1>13. AtPlace(points, 1, frame.pos, frame.time - v, 5)
  BY <1>12 DEF AtPlace
<1>14. QED
  BY <1>4, <1>9, <1>13

-----------------------------------------------------------------------------
(* The laps of the registry. *)

LEMMA LapStartIs ==
  ASSUME NEW lap, Len(lap) \in Nat
  PROVE  LapStart(lap) \in {1} \cup 2..Len(lap)
<1> DEFINE S == {1} \cup {i \in 2..Len(lap) : 2 * lap[i].pos + Track < 2 * lap[i - 1].pos}
           m == CHOOSE x \in S : \A y \in S : x >= y
<1>1. S \subseteq {1} \cup 2..Len(lap) /\ S \subseteq 0..(Len(lap) + 1) /\ S # {} /\ Len(lap) + 1 \in Nat
  OBVIOUS
<1> HIDE DEF S
<1>2. \E x \in S : \A y \in S : y <= x
  BY <1>1, GreatestNat
<1>3. \E x \in S : \A y \in S : x >= y
  <2>1. PICK x \in S : \A y \in S : y <= x
    BY <1>2
  <2>2. \A y \in S : x >= y
    BY <1>1, <2>1
  <2>3. QED
    BY <2>2
<1>4. m \in S
  BY <1>3
<1>5. LapStart(lap) = m
  BY DEF LapStart, Max, S, m
<1> HIDE DEF m
<1>6. QED
  BY <1>1, <1>4, <1>5

LEMMA ForwardGoes ==
  ASSUME NEW lap, GoesForward(lap), lap # << >>
  PROVE  /\ Goes(lap, LapStart(lap)) /\ Starts(lap, LapStart(lap)) /\ SearchesFrom(lap, LapStart(lap))
         /\ LapStart(lap) < Len(lap)
<1>1. lap \in Seq(Sample) /\ Len(lap) \in Nat
  BY DEF GoesForward, Sample
<1>2. LapStart(lap) \in Nat \ {0}
  BY <1>1, LapStartIs
<1>3. LapStart(lap) < Len(lap) /\ SearchStart(lap) = LapStart(lap)
  BY DEF GoesForward
<1>4. Goes(lap, LapStart(lap))
  BY <1>1, <1>2 DEF Goes, GoesForward
<1>5. Starts(lap, LapStart(lap)) /\ SearchesFrom(lap, LapStart(lap))
  BY <1>1, <1>2, <1>3 DEF Starts, SearchesFrom
<1>6. QED
  BY <1>3, <1>4, <1>5

LEMMA AfterNone == AfterWrap(<< >>) = << >>
<1>1. Len(<< >>) = 0 /\ << >> \in Seq(Sample)
  OBVIOUS
<1>2. LapStart(<< >>) \in {1} \cup 2..Len(<< >>)
  BY <1>1, LapStartIs
<1>3. LapStart(<< >>) = 1
  BY <1>1, <1>2
<1>4. SubSeq(<< >>, 1, 0) = << >>
  OBVIOUS
<1>5. QED
  BY <1>1, <1>3, <1>4 DEF AfterWrap

(* The origin before the samples is one more sample of the lap.            *)
FollowsOrigin(p, r) ==
  Len(p) = Len(r) + 1 /\ \A k \in 1..Len(r) : k + 1 \in 1..Len(p) /\ p[k + 1] = r[k]

LEMMA OriginGoes ==
  ASSUME NEW r, Goes(r, 1), Len(r) >= 1, r[1].pos > 0, r[1].time > 0
  PROVE  Goes(<<Origin>> \o r, 1) /\ FollowsOrigin(<<Origin>> \o r, r)
<1> DEFINE p == <<Origin>> \o r
           n == Len(r)
<1>1. r \in Seq(Sample) /\ n \in Nat
  BY DEF Goes
<1>2. Origin \in Sample
  BY DEF Origin, Sample, Track
<1>3. /\ p \in Seq(Sample) /\ Len(p) = n + 1 /\ p[1] = Origin
      /\ \A k \in 1..n : p[k + 1] = r[k]
  BY <1>1, <1>2
<1> HIDE DEF p
<1>4. ASSUME NEW k \in 2..Len(p) PROVE k - 1 \in 1..n /\ p[k] = r[k - 1]
  <2>1. k - 1 \in 1..n /\ (k - 1) + 1 = k
    BY <1>1, <1>3
  <2>2. QED
    BY <1>3, <2>1
<1>5. ASSUME NEW k \in (1 + 1)..Len(p) PROVE p[k - 1].pos < p[k].pos /\ p[k - 1].time <= p[k].time
  <2>1. CASE k = 2
    <3>1. p[k] = r[1] /\ p[k - 1] = Origin
      BY <1>1, <1>3, <1>4, <2>1
    <3>2. r[1].pos \in Nat /\ r[1].time \in Nat /\ Origin.pos = 0 /\ Origin.time = 0
      BY <1>1, GoesTyped DEF Origin
    <3>3. QED
      BY <3>1, <3>2
  <2>2. CASE k # 2
    <3>1. k \in 2..Len(p) /\ k - 1 \in 2..Len(p) /\ k - 1 \in (1 + 1)..n
      BY <1>1, <1>3, <2>2
    <3>2. p[k] = r[k - 1] /\ p[k - 1] = r[(k - 1) - 1]
      BY <1>4, <3>1
    <3>3. r[(k - 1) - 1].pos < r[k - 1].pos /\ r[(k - 1) - 1].time <= r[k - 1].time
      BY <3>1 DEF Goes
    <3>4. QED
      BY <3>2, <3>3
  <2>3. QED
    BY <2>1, <2>2
<1>6. Goes(p, 1)
  BY <1>3, <1>5 DEF Goes
<1>7. FollowsOrigin(p, r)
  BY <1>1, <1>3 DEF FollowsOrigin
<1>8. QED
  BY <1>6, <1>7 DEF p

(* The interpolated difference to a lap, from its points.                  *)
Placed(values, lap, frame) ==
  \E v \in Int : values = {v} /\ AtPlace(lap, LapStart(lap), frame.pos, frame.time - v, 5)

LEMMA LapInterpolatedIs ==
  ASSUME NEW lap, GoesForward(lap), lap # << >>, NEW frame, Moment(frame)
  PROVE  Placed(Interpolated({Points(lap)}, frame), lap, frame)
<1> DEFINE r == AfterWrap(lap)
           start == LapStart(lap)
           points == Points(lap)
<1>1. Goes(lap, start) /\ Starts(lap, start) /\ start < Len(lap)
  BY ForwardGoes
<1>2. Goes(r, 1) /\ IsAfter(r, lap, start)
  BY <1>1, AfterWrapIs
<1>3. Len(r) \in Nat /\ Len(r) >= 2 /\ r # << >>
      /\ r[1].pos \in Nat /\ r[1].time \in Nat
  <2>1. Len(lap) \in Nat /\ start \in Nat
    BY <1>1, GoesTyped
  <2>2. Len(r) = Len(lap) - start + 1
    BY <1>2 DEF IsAfter
  <2>3. Len(r) \in Nat /\ Len(r) >= 2
    BY <1>1, <2>1, <2>2
  <2> HIDE DEF r
  <2>4. 1 \in 1..Len(r) /\ r # << >>
    BY <2>3
  <2>5. QED
    BY <1>2, <2>3, <2>4, GoesTyped
<1>4. points = IF r # << >> /\ r[1].pos > 0 /\ r[1].time > 0 THEN <<Origin>> \o r ELSE r
  BY <1>2, PointsAre
<1> HIDE DEF r, points, start
<1>5. /\ Goes(points, 1) /\ Len(points) >= 2
      /\ \A pos, there : AtPlace(points, 1, pos, there, 5) => AtPlace(r, 1, pos, there, 5)
  <2>1. CASE r[1].pos > 0 /\ r[1].time > 0
    <3>1. Goes(points, 1) /\ FollowsOrigin(points, r)
      <4>1. points = <<Origin>> \o r
        BY <1>3, <1>4, <2>1
      <4>2. Len(r) >= 1
        BY <1>3
      <4>3. Goes(<<Origin>> \o r, 1) /\ FollowsOrigin(<<Origin>> \o r, r)
        BY <1>2, <2>1, <4>2, OriginGoes
      <4>4. QED
        BY <4>1, <4>3
    <3>2. Len(points) >= 2
      BY <1>3, <3>1 DEF FollowsOrigin
    <3>3. ASSUME NEW pos, NEW there, AtPlace(points, 1, pos, there, 5)
          PROVE  AtPlace(r, 1, pos, there, 5)
      <4> SUFFICES ASSUME NEW k \in 1..Len(r)
                   PROVE  /\ r[k].pos <= pos => there >= r[k].time - 5
                          /\ r[k].pos > pos => there <= r[k].time + 5
        BY DEF AtPlace
      <4>1. k + 1 \in 1..Len(points) /\ points[k + 1] = r[k]
        BY <3>1 DEF FollowsOrigin
      <4>2. /\ points[k + 1].pos <= pos => there >= points[k + 1].time - 5
            /\ points[k + 1].pos > pos => there <= points[k + 1].time + 5
        BY <3>3, <4>1 DEF AtPlace
      <4>3. QED
        BY <4>1, <4>2
    <3>4. QED
      BY <3>1, <3>2, <3>3
  <2>2. CASE ~(r[1].pos > 0 /\ r[1].time > 0)
    BY <1>2, <1>3, <1>4, <2>2
  <2>3. QED
    BY <2>1, <2>2
<1>6. PICK v \in Int : /\ Interpolated({points}, frame) = {v}
                      /\ AtPlace(points, 1, frame.pos, frame.time - v, 5)
  BY <1>5, InterpolatedIs
<1>7. AtPlace(lap, start, frame.pos, frame.time - v, 5)
  BY <1>2, <1>5, <1>6, AfterPlace
<1>8. QED
  BY <1>6, <1>7 DEF Placed, points, start

-----------------------------------------------------------------------------
(* The laps the deltas are to.                                             *)
SessionLap == IF session = "" THEN << >> ELSE Laps[session]
LifeLap == IF Readable(SourceOf(LifeDelta)) THEN Laps[SourceOf(LifeDelta)] ELSE << >>

(* A session best is a lap of the replay, a cached lap one that was read.  *)
References ==
  /\ \A n \in 1..Len(cmd_ch) : cmd_ch[n].op = "reference" => cmd_ch[n].name \in Bests
  /\ session = "" \/ session \in Bests
  /\ life = "" \/ Readable(life)

(* A search is at a sample of the lap of its item, while that is one lap.  *)
SessionSearch ==
  /\ session = "" => items.session.index = 1
  /\ SessionLap # << >> => items.session.index <= Len(SessionLap)

LifeSearch ==
  LifeDelta \in DOMAIN Subs /\ LifeLap # << >> => items.life.index <= Len(AfterWrap(LifeLap))

DeltaInv ==
  /\ References
  /\ items.life.index \in Nat \ {0} /\ items.session.index \in Nat \ {0}
  /\ ~switched => SessionSearch /\ LifeSearch

LEMMA SourceIs ==
  ASSUME config \in DOMAIN Configs, NEW i \in LifeItems, i \in DOMAIN Subs
  PROVE  SourceOf(i) \notin {"", Session}
<1>1. i \notin SessionItems
  BY DEF LifeItems, SessionItems, LifeDelta, LifeInterpolated, LifePredicted,
         SessionDelta, SessionInterpolated, SessionPredicted
<1>2. SourceOf(i) = Configs[config][i].source
  BY <1>1 DEF SourceOf, Subs
<1>3. Configs[config][i].source \notin {"", Session}
  BY ReplayAssumption DEF ReplayAssumption, Subs
<1>4. QED
  BY <1>2, <1>3

LEMMA ResolvedSession == Resolved(Session) = IF session = "" THEN {} ELSE {session}
BY DEF Resolved

LEMMA ResolvedLife ==
  ASSUME References, NEW source, source \notin {"", Session}
  PROVE  Resolved(source) = IF Readable(source) THEN {source} ELSE {}
<1>1. CASE life = source
  <2>1. Readable(source)
    BY <1>1 DEF References
  <2>2. Resolved(source) = {life}
    BY <1>1 DEF Resolved
  <2>3. QED
    BY <1>1, <2>1, <2>2
<1>2. CASE life # source
  BY <1>2 DEF Resolved
<1>3. QED
  BY <1>1, <1>2

LEMMA ForwardLap ==
  ASSUME GoForward, References
  PROVE  /\ SessionLap # << >> => session \in DOMAIN Laps /\ session # "" /\ GoesForward(SessionLap)
         /\ LifeLap # << >> => /\ SourceOf(LifeDelta) \in DOMAIN Laps /\ Readable(SourceOf(LifeDelta))
                               /\ GoesForward(LifeLap)
<1>1. Bests \subseteq DOMAIN Laps
  BY ReplayAssumption DEF ReplayAssumption
<1>2. SessionLap # << >> => session # "" /\ session \in DOMAIN Laps /\ SessionLap = Laps[session]
  BY <1>1 DEF SessionLap, References
<1>3. LifeLap # << >> => /\ Readable(SourceOf(LifeDelta)) /\ SourceOf(LifeDelta) \in DOMAIN Laps
                         /\ LifeLap = Laps[SourceOf(LifeDelta)]
  BY DEF LifeLap, Readable
<1>4. QED
  BY <1>2, <1>3 DEF GoForward

LEMMA AfterLong ==
  ASSUME NEW lap, GoesForward(lap), lap # << >>
  PROVE  /\ Goes(AfterWrap(lap), 1) /\ IsAfter(AfterWrap(lap), lap, LapStart(lap))
         /\ AfterWrap(lap) # << >> /\ Len(AfterWrap(lap)) \in Nat /\ Len(AfterWrap(lap)) >= 1
<1> DEFINE r == AfterWrap(lap)
           start == LapStart(lap)
<1>1. Goes(lap, start) /\ Starts(lap, start) /\ start < Len(lap)
  BY ForwardGoes
<1>2. Goes(r, 1) /\ IsAfter(r, lap, start)
  BY <1>1, AfterWrapIs
<1>3. Len(lap) \in Nat /\ start \in Nat
  BY <1>1, GoesTyped
<1> HIDE DEF r, start
<1>4. Len(r) = Len(lap) - start + 1
  BY <1>2 DEF IsAfter
<1>5. Len(r) \in Nat /\ Len(r) >= 1
  BY <1>1, <1>3, <1>4
<1>6. r # << >>
  BY <1>5
<1>7. QED
  BY <1>2, <1>5, <1>6 DEF r, start

(* The step of a delta item for one lap, or for none.                      *)
Unmoved(step, state) == step.value = {} /\ step.state = state

LEMMA NoDelta ==
  ASSUME NEW laps, laps \subseteq {<< >>}, NEW state, NEW frame
  PROVE  /\ Unmoved(DeltaToLifeBest(laps, state, frame), state)
         /\ Unmoved(DeltaToSessionBest(laps, state, frame), state)
<1>1. NoReference(laps)
  BY DEF NoReference
<1>2. DeltaToLifeBest(laps, state, frame) = [state |-> state, value |-> {}]
  BY <1>1 DEF DeltaToLifeBest
<1>3. DeltaToSessionBest(laps, state, frame) = [state |-> state, value |-> {}]
  BY <1>1 DEF DeltaToSessionBest
<1>4. QED
  BY <1>2, <1>3 DEF Unmoved

LEMMA SessionStepIs ==
  ASSUME GoForward, DeltaInv, NEW frame, Moment(frame)
  PROVE  /\ SessionLap = << >> => Unmoved(SessionStep(frame), items.session)
         /\ SessionLap # << >> =>
              DeltaIs(SessionStep(frame), SessionLap, LapStart(SessionLap), items.session, frame)
<1> DEFINE laps == {Laps[l] : l \in Resolved(Session)}
<1>1. References /\ items.session.index \in Nat \ {0}
  BY DEF DeltaInv
<1>2. SessionStep(frame) = DeltaToSessionBest(laps, items.session, frame)
  BY DEF SessionStep
<1>3. laps = IF session = "" THEN {} ELSE {SessionLap}
  BY ResolvedSession DEF SessionLap
<1> HIDE DEF laps
<1>4. CASE SessionLap = << >>
  <2>1. laps \subseteq {<< >>}
    BY <1>3, <1>4
  <2>2. Unmoved(DeltaToSessionBest(laps, items.session, frame), items.session)
    BY <2>1, NoDelta
  <2>3. QED
    BY <1>2, <1>4, <2>2
<1>5. CASE SessionLap # << >>
  <2>1. session # "" /\ GoesForward(SessionLap)
    BY <1>1, <1>5, ForwardLap
  <2> DEFINE lap == SessionLap
  <2>2. Goes(lap, LapStart(lap)) /\ SearchesFrom(lap, LapStart(lap))
    BY <1>5, <2>1, ForwardGoes
  <2>3. laps = {lap}
    BY <1>3, <2>1
  <2> HIDE DEF lap
  <2>4. DeltaIs(DeltaToSessionBest({lap}, items.session, frame), lap, LapStart(lap), items.session, frame)
    BY <1>1, <2>2, SessionDeltaIs
  <2>5. QED
    BY <1>2, <1>5, <2>3, <2>4 DEF lap
<1>6. QED
  BY <1>4, <1>5

LEMMA LifeStepIs ==
  ASSUME GoForward, DeltaInv, config \in DOMAIN Configs, LifeDelta \in DOMAIN Subs,
         NEW frame, Moment(frame)
  PROVE  /\ LifeLap = << >> => Unmoved(LifeStep(frame), items.life)
         /\ LifeLap # << >> => DeltaIs(LifeStep(frame), AfterWrap(LifeLap), 1, items.life, frame)
<1> DEFINE source == SourceOf(LifeDelta)
           laps == {LastLapOf[l] : l \in Resolved(source)}
<1>1. References /\ items.life.index \in Nat \ {0}
  BY DEF DeltaInv
<1>2. LifeStep(frame) = DeltaToLifeBest(laps, items.life, frame)
  BY DEF LifeStep
<1>3. laps = IF Readable(source) THEN {AfterWrap(LifeLap)} ELSE {}
  <2>1. LifeDelta \in LifeItems
    BY DEF LifeItems
  <2>2. source \notin {"", Session}
    BY <2>1, SourceIs
  <2>3. Resolved(source) = IF Readable(source) THEN {source} ELSE {}
    BY <1>1, <2>2, ResolvedLife
  <2>4. Readable(source) => source \in DOMAIN Laps /\ LifeLap = Laps[source]
    BY DEF Readable, LifeLap
  <2> HIDE DEF source
  <2>5. CASE Readable(source)
    <3>1. LastLapOf[source] = AfterWrap(LifeLap)
      BY <2>4, <2>5 DEF LastLapOf
    <3>2. QED
      BY <2>3, <2>5, <3>1
  <2>6. CASE ~Readable(source)
    BY <2>3, <2>6
  <2>7. QED
    BY <2>5, <2>6
<1> HIDE DEF laps
<1>4. CASE LifeLap = << >>
  <2>1. laps \subseteq {<< >>}
    BY <1>3, <1>4, AfterNone
  <2>2. Unmoved(DeltaToLifeBest(laps, items.life, frame), items.life)
    BY <2>1, NoDelta
  <2>3. QED
    BY <1>2, <1>4, <2>2
<1>5. CASE LifeLap # << >>
  <2>1. Readable(source) /\ GoesForward(LifeLap)
    BY <1>1, <1>5, ForwardLap
  <2> DEFINE lap == AfterWrap(LifeLap)
  <2>2. Goes(lap, 1) /\ lap # << >>
    BY <1>5, <2>1, AfterLong
  <2>3. laps = {lap}
    BY <1>3, <2>1
  <2> HIDE DEF lap
  <2>4. DeltaIs(DeltaToLifeBest({lap}, items.life, frame), lap, 1, items.life, frame)
    BY <1>1, <2>2, LifeDeltaIs
  <2>5. QED
    BY <1>2, <1>5, <2>3, <2>4 DEF lap
<1>6. QED
  BY <1>4, <1>5

LEMMA DeltaInit == GoForward /\ Init => DeltaInv
<1> SUFFICES ASSUME GoForward, Init PROVE DeltaInv
  OBVIOUS
<1>1. cmd_ch = << >> /\ session = "" /\ life = "" /\ items.life = NoSearch /\ items.session = NoSearch
  BY DEF Init
<1>2. References
  <2>1. Len(cmd_ch) = 0
    BY <1>1
  <2>2. \A n \in 1..Len(cmd_ch) : FALSE
    BY <2>1
  <2>3. QED
    BY <1>1, <2>2 DEF References
<1>3. items.life.index = 1 /\ items.session.index = 1
  <2>1. NoSearch.index = 1
    BY DEF NoSearch
  <2>2. items.life = NoSearch /\ items.session = NoSearch
    BY DEF Init
  <2> HIDE DEF NoSearch
  <2>3. QED
    BY <2>1, <2>2
<1>4. SessionSearch
  BY <1>1, <1>3 DEF SessionSearch, SessionLap
<1>5. LifeLap # << >> => GoesForward(LifeLap)
  BY <1>2, ForwardLap
<1>6. LifeSearch
  BY <1>3, <1>5, AfterLong DEF LifeSearch
<1>7. QED
  BY <1>2, <1>3, <1>4, <1>6 DEF DeltaInv

(* The frame that waits is a moment of the file.                           *)
LEMMA FrameIsMoment ==
  ASSUME GoForward, Order, frame_ch # << >>
  PROVE  Moment(file[Head(frame_ch)])
<1>1. /\ file \in Files /\ now \in 0..Len(file) /\ watched.last \in 0..now
  BY DEF Order
<1>2. PICK tick \in (watched.last + 1)..now : frame_ch = <<tick>>
  BY DEF Order
<1>3. Head(frame_ch) = tick
  BY <1>2
<1>4. file \in Seq(Frame) /\ Len(file) \in Nat
  BY <1>1, FilesAssumption DEF FilesAssumption
<1>5. tick \in 1..Len(file)
  BY <1>1, <1>2, <1>4
<1>6. file[tick] \in Frame
  BY <1>4, <1>5
<1>7. file[tick].pos \in Nat /\ file[tick].time \in Nat
  BY <1>6 DEF Frame
<1>8. file[tick].pos <= Track
  BY <1>1, <1>5 DEF GoForward
<1>9. file[tick].pos \in 0..Track
  BY <1>7, <1>8 DEF Track
<1>10. QED
  BY <1>3, <1>7, <1>9 DEF Moment

(* What the searches remember is theirs to change.                         *)
LEMMA DeltaSame ==
  ASSUME DeltaInv, References',
         UNCHANGED <<session, items.session, items.life, config>>,
         switched' = switched
  PROVE  DeltaInv'
<1>1. SessionLap' = SessionLap /\ LifeLap' = LifeLap /\ Subs' = Subs
  BY DEF SessionLap, LifeLap, SourceOf, Subs
<1>2. SessionSearch => SessionSearch'
  BY <1>1 DEF SessionSearch
<1>3. LifeSearch => LifeSearch'
  BY <1>1 DEF LifeSearch
<1>4. QED
  BY <1>2, <1>3 DEF DeltaInv

LEMMA SessionRemembers ==
  ASSUME GoForward, DeltaInv, NEW frame, Moment(frame)
  PROVE  /\ SessionStep(frame).state.index \in Nat \ {0}
         /\ SessionSearch => /\ session = "" => SessionStep(frame).state.index = 1
                             /\ SessionLap # << >> => SessionStep(frame).state.index <= Len(SessionLap)
<1>1. items.session.index \in Nat \ {0} /\ (session = "" => SessionLap = << >>)
  BY DEF DeltaInv, SessionLap
<1>2. CASE SessionLap = << >>
  <2>1. SessionStep(frame).state = items.session
    BY <1>2, SessionStepIs DEF Unmoved
  <2>2. QED
    BY <1>1, <1>2, <2>1 DEF SessionSearch
<1>3. CASE SessionLap # << >>
  <2>1. DeltaIs(SessionStep(frame), SessionLap, LapStart(SessionLap), items.session, frame)
    BY <1>3, SessionStepIs
  <2>2. QED
    BY <1>1, <1>3, <2>1 DEF SessionSearch, DeltaIs
<1>4. QED
  BY <1>2, <1>3

LEMMA LifeRemembers ==
  ASSUME GoForward, DeltaInv, config \in DOMAIN Configs, LifeDelta \in DOMAIN Subs,
         NEW frame, Moment(frame)
  PROVE  /\ LifeStep(frame).state.index \in Nat \ {0}
         /\ LifeSearch /\ LifeLap # << >> => LifeStep(frame).state.index <= Len(AfterWrap(LifeLap))
<1>1. items.life.index \in Nat \ {0}
  BY DEF DeltaInv
<1>2. CASE LifeLap = << >>
  <2>1. LifeStep(frame).state = items.life
    BY <1>2, LifeStepIs DEF Unmoved
  <2>2. QED
    BY <1>1, <1>2, <2>1
<1>3. CASE LifeLap # << >>
  <2>1. DeltaIs(LifeStep(frame), AfterWrap(LifeLap), 1, items.life, frame)
    BY <1>3, LifeStepIs
  <2>2. QED
    BY <1>3, <2>1 DEF LifeSearch, DeltaIs
<1>4. QED
  BY <1>2, <1>3

LEMMA DeltaProcess ==
  ASSUME GoForward, PeriodInv, Order, DeltaInv, ProcessFrame
  PROVE  DeltaInv'
<1> DEFINE frame == file[Head(frame_ch)]
<1>1. /\ items' = Remembered(DueItems, frame) /\ life' \in Loaded(DueItems)
      /\ UNCHANGED <<config, session, cmd_ch, switched>>
  BY DEF ProcessFrame
<1>2. Moment(frame) /\ config \in DOMAIN Configs
  BY FrameIsMoment DEF ProcessFrame, PeriodInv, Buckets
<1> HIDE DEF frame
<1>3. /\ items'.life = IF LifeDelta \in DueItems THEN LifeStep(frame).state ELSE items.life
      /\ items'.session = IF SessionDelta \in DueItems THEN SessionStep(frame).state ELSE items.session
  BY <1>1 DEF Remembered
<1>4. LifeDelta \in DueItems => LifeDelta \in DOMAIN Subs
  BY DEF DueItems
<1>5. References'
  <2>1. life' = life \/ Readable(life')
    BY <1>1 DEF Loaded
  <2>2. References
    BY DEF DeltaInv
  <2>3. QED
    BY <1>1, <2>1, <2>2 DEF References, Readable
<1>6. SessionLap' = SessionLap /\ LifeLap' = LifeLap /\ Subs' = Subs
  BY <1>1 DEF SessionLap, LifeLap, SourceOf, Subs
<1>7. items'.session.index \in Nat \ {0} /\ (SessionSearch => SessionSearch')
  <2>1. CASE SessionDelta \in DueItems
    <3>1. items'.session = SessionStep(frame).state
      BY <1>3, <2>1
    <3>2. QED
      BY <1>1, <1>2, <1>6, <3>1, SessionRemembers DEF SessionSearch
  <2>2. CASE SessionDelta \notin DueItems
    BY <1>1, <1>3, <1>6, <2>2 DEF SessionSearch, DeltaInv
  <2>3. QED
    BY <2>1, <2>2
<1>8. items'.life.index \in Nat \ {0} /\ (LifeSearch => LifeSearch')
  <2>1. CASE LifeDelta \in DueItems
    <3>1. items'.life = LifeStep(frame).state
      BY <1>3, <2>1
    <3>2. QED
      BY <1>2, <1>4, <1>6, <2>1, <3>1, LifeRemembers DEF LifeSearch
  <2>2. CASE LifeDelta \notin DueItems
    BY <1>3, <1>6, <2>2 DEF LifeSearch, DeltaInv
  <2>3. QED
    BY <2>1, <2>2
<1>9. QED
  BY <1>1, <1>5, <1>7, <1>8 DEF DeltaInv

(* A command that is sent, or taken, is about a lap of the replay.         *)
LEMMA ReferenceSent ==
  ASSUME Commands, References, NEW c, cmd_ch' = Append(cmd_ch, c),
         c.op = "reference" => c.name \in Bests, UNCHANGED <<session, life>>
  PROVE  References'
<1> DEFINE Cmd == [op : {"replace", "reference"}, name : DOMAIN Configs \cup Bests]
<1>1. cmd_ch \in Seq(Cmd)
  BY DEF Commands
<1> HIDE DEF Cmd
<1>2. /\ Len(cmd_ch') = Len(cmd_ch) + 1 /\ Len(cmd_ch) \in Nat
      /\ \A i \in 1..Len(cmd_ch) : cmd_ch'[i] = cmd_ch[i]
      /\ cmd_ch'[Len(cmd_ch) + 1] = c
  BY <1>1
<1>3. ASSUME NEW n \in 1..Len(cmd_ch'), cmd_ch'[n].op = "reference"
      PROVE  cmd_ch'[n].name \in Bests
  <2>1. CASE n = Len(cmd_ch) + 1
    BY <1>2, <1>3, <2>1
  <2>2. CASE n \in 1..Len(cmd_ch)
    BY <1>2, <1>3, <2>2 DEF References
  <2>3. QED
    BY <1>2, <2>1, <2>2
<1>4. QED
  BY <1>3 DEF References, Readable

LEMMA DeltaTake ==
  ASSUME GoForward, PeriodInv, DeltaInv, TakeCommand
  PROVE  DeltaInv'
<1>1. /\ cmd_ch # << >> /\ cmd_ch' = Tail(cmd_ch) /\ UNCHANGED <<life, items>>
      /\ \/ switched' = TRUE /\ UNCHANGED session
         \/ /\ Head(cmd_ch).op = "reference" /\ session' = Head(cmd_ch).name
            /\ switched' = (switched \/ session # "") /\ config' = config
  BY DEF TakeCommand, registryVars
<1>2. cmd_ch \in Seq([op : {"replace", "reference"}, name : DOMAIN Configs \cup Bests])
  BY DEF PeriodInv, Commands
<1>3. /\ 1 \in 1..Len(cmd_ch) /\ Head(cmd_ch) = cmd_ch[1]
      /\ \A i \in 1..Len(cmd_ch') : cmd_ch'[i] = cmd_ch[i + 1] /\ i + 1 \in 1..Len(cmd_ch)
  BY <1>1, <1>2, TailCommand
<1>4. References
  BY DEF DeltaInv
<1>5. session' = session \/ session' \in Bests
  BY <1>1, <1>3, <1>4 DEF References
<1>6. References'
  <2>1. \A n \in 1..Len(cmd_ch') : cmd_ch'[n].op = "reference" => cmd_ch'[n].name \in Bests
    BY <1>3, <1>4 DEF References
  <2>2. QED
    BY <1>1, <1>4, <1>5, <2>1 DEF References, Readable
<1>7. ASSUME ~switched' PROVE SessionSearch' /\ LifeSearch'
  <2>1. /\ session' = Head(cmd_ch).name /\ session' \in Bests /\ session = "" /\ ~switched
        /\ config' = config
    BY <1>1, <1>3, <1>4, <1>7 DEF References
  <2>2. SessionSearch /\ LifeSearch /\ items.session.index = 1
    BY <2>1 DEF DeltaInv, SessionSearch
  <2>3. LifeSearch'
    BY <1>1, <2>1, <2>2 DEF LifeSearch, LifeLap, SourceOf, Subs
  <2>4. session' # "" /\ session' \in DOMAIN Laps
    BY <2>1, ReplayAssumption DEF ReplayAssumption
  <2>5. SessionLap' = Laps[session']
    BY <2>4 DEF SessionLap
  <2>6. GoesForward(Laps[session'])
    BY <2>4 DEF GoForward
  <2>7. Laps[session'] # << >> => 1 <= Len(Laps[session'])
    <3> DEFINE lap == Laps[session']
    <3>1. GoesForward(lap)
      BY <2>6
    <3> HIDE DEF lap
    <3>2. lap # << >> => 1 <= Len(lap)
      BY <3>1, ForwardGoes, GoesTyped DEF GoesForward
    <3>3. QED
      BY <3>2 DEF lap
  <2>8. SessionSearch'
    BY <1>1, <2>2, <2>4, <2>5, <2>7 DEF SessionSearch
  <2>9. QED
    BY <2>3, <2>8
<1>8. items'.life.index \in Nat \ {0} /\ items'.session.index \in Nat \ {0}
  BY <1>1 DEF DeltaInv
<1>9. QED
  BY <1>6, <1>7, <1>8 DEF DeltaInv

LEMMA DeltaStep ==
  ASSUME GoForward, PeriodInv, Order, DeltaInv, [Next]_vars
  PROVE  DeltaInv'
<1> USE DEF callerVars, engineVars, registryVars, historyVars
<1>1. References /\ Commands
  BY DEF DeltaInv, PeriodInv
<1>2. ASSUME NEW c \in DOMAIN Configs, ReplaceItems(c) PROVE DeltaInv'
  <2>1. /\ cmd_ch' = Append(cmd_ch, [op |-> "replace", name |-> c])
        /\ UNCHANGED <<session, life, items, config, switched>>
    BY <1>2 DEF ReplaceItems
  <2>2. References'
    BY <1>1, <2>1, ReferenceSent
  <2>3. QED
    BY <2>1, <2>2, DeltaSame
<1>3. CASE PlayFrame
  <2>1. NotifyLap(now') /\ UNCHANGED <<session, life, items, config, switched>>
    BY <1>3 DEF PlayFrame
  <2>2. CASE UNCHANGED cmd_ch
    <3>1. References'
      BY <1>1, <2>1, <2>2 DEF References, Readable
    <3>2. QED
      BY <2>1, <3>1, DeltaSame
  <2>3. CASE \E b \in Bests : cmd_ch' = Append(cmd_ch, [op |-> "reference", name |-> b])
    <3>1. References'
      BY <1>1, <2>1, <2>3, ReferenceSent
    <3>2. QED
      BY <2>1, <3>1, DeltaSame
  <2>4. QED
    BY <2>1, <2>2, <2>3 DEF NotifyLap
<1>4. CASE ServiceExit
  <2>1. cmd_ch' = << >> /\ UNCHANGED <<session, life, items, config, switched>>
    BY <1>4 DEF ServiceExit
  <2>2. \A n \in 1..Len(cmd_ch') : FALSE
    <3>1. Len(cmd_ch') = 0
      BY <2>1
    <3>2. QED
      BY <3>1
  <2>3. References'
    BY <1>1, <2>1, <2>2 DEF References, Readable
  <2>4. QED
    BY <2>1, <2>3, DeltaSame
<1>5. CASE UNCHANGED <<cmd_ch, session, life, items, config, switched>>
  <2>1. References'
    BY <1>1, <1>5 DEF References, Readable
  <2>2. QED
    BY <1>5, <2>1, DeltaSame
<1>6. Stop \/ JoinHolder \/ JoinDashboard \/ EndReplay
        => UNCHANGED <<cmd_ch, session, life, items, config, switched>>
  BY DEF Stop, JoinHolder, JoinDashboard, EndReplay
<1>7. Over \/ UNCHANGED vars => UNCHANGED <<cmd_ch, session, life, items, config, switched>>
  BY DEF Over, vars
<1>8. QED
  BY <1>2, <1>3, <1>4, <1>5, <1>6, <1>7, DeltaProcess, DeltaTake DEF Next, EngineStep, ServiceStep

-----------------------------------------------------------------------------
(* The values of a frame. *)

LEMMA ComputedIs ==
  ASSUME NEW computed, NEW frame, NEW i \in computed, i \notin PredictItems
  PROVE  /\ i \in DOMAIN Computed(computed, frame) <=> Value(i, frame, << >>) # {}
         /\ i \in DOMAIN Computed(computed, frame) =>
              Computed(computed, frame)[i] \in Value(i, frame, << >>)
<1> DEFINE first == Results(computed \ PredictItems, frame, << >>)
           second == Results(computed \cap PredictItems, frame, first)
           values == Computed(computed, frame)
<1>1. values = [j \in DOMAIN first \cup DOMAIN second |->
                  IF j \in DOMAIN first THEN first[j] ELSE second[j]]
  BY DEF Computed
<1>2. first = [j \in {j \in computed \ PredictItems : Value(j, frame, << >>) # {}} |->
                 CHOOSE v \in Value(j, frame, << >>) : TRUE]
  BY DEF Results
<1>3. DOMAIN second \subseteq PredictItems
  BY DEF Results
<1> HIDE DEF first, second, values
<1>4. i \in DOMAIN first <=> Value(i, frame, << >>) # {}
  BY <1>2
<1>5. i \in DOMAIN values <=> i \in DOMAIN first
  BY <1>1, <1>3
<1>6. ASSUME i \in DOMAIN values PROVE values[i] \in Value(i, frame, << >>)
  <2>1. values[i] = first[i]
    BY <1>1, <1>5, <1>6
  <2>2. first[i] = CHOOSE v \in Value(i, frame, << >>) : TRUE
    BY <1>2, <1>5, <1>6
  <2>3. Value(i, frame, << >>) # {}
    BY <1>4, <1>5, <1>6
  <2>4. QED
    BY <2>1, <2>2, <2>3
<1>7. QED
  BY <1>4, <1>5, <1>6 DEF values

DeltaItems == {LifeDelta, SessionDelta, LifeInterpolated, SessionInterpolated}

LEMMA NotSectors ==
  ASSUME NEW i \in DeltaItems
  PROVE  i \notin {PrevTime, PrevNumber} /\ i \notin BestItems /\ i \notin PredictItems
<1>1. i \notin {PrevTime, PrevNumber} /\ i \notin PredictItems
  BY DEF DeltaItems, LifeDelta, LifeInterpolated, SessionDelta, SessionInterpolated,
         PrevTime, PrevNumber, PredictItems, LifePredicted, SessionPredicted
<1>2. ASSUME NEW s \in Sectors PROVE BestOf[s] # i
  <2>1. BestOf[s] \in {"calc:sector_best_1", "calc:sector_best_2", "calc:sector_best_3"}
    <3>1. s \in {0, 1, 2}
      BY DEF Sectors
    <3>2. BestOf[s] = <<"calc:sector_best_1", "calc:sector_best_2", "calc:sector_best_3">>[s + 1]
      BY DEF BestOf
    <3>3. QED
      BY <3>1, <3>2
  <2>2. QED
    BY <2>1 DEF DeltaItems, LifeDelta, LifeInterpolated, SessionDelta, SessionInterpolated
<1>3. QED
  BY <1>1, <1>2 DEF BestItems

LEMMA ValuesAre ==
  ASSUME NEW frame
  PROVE  /\ Value(LifeDelta, frame, << >>) = LifeStep(frame).value
         /\ Value(SessionDelta, frame, << >>) = SessionStep(frame).value
         /\ \A i \in {LifeInterpolated, SessionInterpolated} :
              Value(i, frame, << >>) = Interpolated(PointsFor(SourceOf(i)), frame)
<1>1. \A i \in DeltaItems : i # PrevTime /\ i # PrevNumber /\ i \notin BestItems
                             /\ i # LifePredicted /\ i # SessionPredicted
  BY NotSectors DEF PredictItems
<1>2. /\ LifeDelta # SessionDelta
      /\ \A i \in {LifeInterpolated, SessionInterpolated} : i # LifeDelta /\ i # SessionDelta
  BY DEF LifeDelta, LifeInterpolated, SessionDelta, SessionInterpolated
<1>3. /\ LifeDelta \in DeltaItems /\ SessionDelta \in DeltaItems
      /\ LifeInterpolated \in DeltaItems /\ SessionInterpolated \in DeltaItems
  BY DEF DeltaItems
<1>4. Value(LifeDelta, frame, << >>) = LifeStep(frame).value
  <2> DEFINE i == LifeDelta
  <2>1. /\ i # PrevTime /\ i # PrevNumber /\ i \notin BestItems /\ i = LifeDelta /\ i # SessionDelta
        /\ i # LifeInterpolated /\ i # SessionInterpolated /\ i # LifePredicted /\ i # SessionPredicted
    BY <1>1, <1>2, <1>3
  <2>2. QED
    BY <2>1 DEF Value
<1>5. Value(SessionDelta, frame, << >>) = SessionStep(frame).value
  <2> DEFINE i == SessionDelta
  <2>1. /\ i # PrevTime /\ i # PrevNumber /\ i \notin BestItems /\ i # LifeDelta /\ i = SessionDelta
        /\ i # LifeInterpolated /\ i # SessionInterpolated /\ i # LifePredicted /\ i # SessionPredicted
    BY <1>1, <1>2, <1>3
  <2>2. QED
    BY <2>1 DEF Value
<1>6. ASSUME NEW i \in {LifeInterpolated, SessionInterpolated}
      PROVE  Value(i, frame, << >>) = Interpolated(PointsFor(SourceOf(i)), frame)
  <2>1. /\ i # PrevTime /\ i # PrevNumber /\ i \notin BestItems /\ i # LifeDelta /\ i # SessionDelta
        /\ i # LifePredicted /\ i # SessionPredicted
    BY <1>1, <1>2, <1>3
  <2>2. QED
    BY <2>1 DEF Value
<1>7. QED
  BY <1>4, <1>5, <1>6

LEMMA LapsOfItems ==
  /\ LapOf(SessionDelta) = SessionLap /\ LapOf(SessionInterpolated) = SessionLap
  /\ LapOf(LifeDelta) = LifeLap
  /\ LapOf(LifeInterpolated) = IF Readable(SourceOf(LifeInterpolated))
                               THEN Laps[SourceOf(LifeInterpolated)] ELSE << >>
  /\ SourceOf(SessionInterpolated) = Session
<1>1. SessionDelta \in SessionItems /\ SessionInterpolated \in SessionItems
  BY DEF SessionItems
<1>2. LifeDelta \in LifeItems /\ LifeInterpolated \in LifeItems
  BY DEF LifeItems
<1>3. /\ LifeDelta \notin SessionItems /\ LifeInterpolated \notin SessionItems
      /\ SessionDelta \notin LifeItems /\ SessionInterpolated \notin LifeItems
  BY DEF SessionItems, LifeItems, LifeDelta, LifeInterpolated, LifePredicted,
         SessionDelta, SessionInterpolated, SessionPredicted
<1>4. LapOf(SessionDelta) = SessionLap /\ LapOf(SessionInterpolated) = SessionLap
  BY <1>1, <1>3 DEF LapOf, SessionLap
<1>5. LapOf(LifeDelta) = LifeLap
  BY <1>2, <1>3 DEF LapOf, LifeLap
<1>6. LapOf(LifeInterpolated) = IF Readable(SourceOf(LifeInterpolated))
                                THEN Laps[SourceOf(LifeInterpolated)] ELSE << >>
  BY <1>2, <1>3 DEF LapOf
<1>7. SourceOf(SessionInterpolated) = Session
  BY <1>1 DEF SourceOf
<1>8. QED
  BY <1>4, <1>5, <1>6, <1>7

(* A set of values, all of them differences to the lap at that place.      *)
TrueTo(values, lap, frame) ==
  lap # << >> =>
    \A v \in values : v \in Int /\ AtPlace(lap, LapStart(lap), frame.pos, frame.time - v, 5)

LEMMA InterpolatedOf ==
  ASSUME NEW lap, lap = << >> \/ GoesForward(lap), NEW frame, Moment(frame)
  PROVE  /\ TrueTo(Interpolated({Points(lap)}, frame), lap, frame)
         /\ lap # << >> => Interpolated({Points(lap)}, frame) # {}
<1>1. CASE lap = << >>
  BY <1>1 DEF TrueTo
<1>2. CASE lap # << >>
  <2>1. Placed(Interpolated({Points(lap)}, frame), lap, frame)
    BY <1>2, LapInterpolatedIs
  <2>2. QED
    BY <2>1 DEF Placed, TrueTo
<1>3. QED
  BY <1>1, <1>2

LEMMA TrueValues ==
  ASSUME GoForward, DeltaInv, config \in DOMAIN Configs,
         NEW i \in DeltaItems, i \in DOMAIN Subs, NEW frame, Moment(frame)
  PROVE  /\ TrueTo(Value(i, frame, << >>), LapOf(i), frame)
         /\ LapOf(i) # << >> /\ ~switched => Value(i, frame, << >>) # {}
<1>1. References /\ (~switched => SessionSearch /\ LifeSearch)
  BY DEF DeltaInv
<1>2. CASE i = SessionDelta
  <2>1. Value(i, frame, << >>) = SessionStep(frame).value /\ LapOf(i) = SessionLap
    BY <1>2, ValuesAre, LapsOfItems
  <2>2. CASE SessionLap # << >>
    <3>1. DeltaIs(SessionStep(frame), SessionLap, LapStart(SessionLap), items.session, frame)
      BY <2>2, SessionStepIs
    <3>2. /\ \A v \in SessionStep(frame).value :
               v \in Int /\ AtPlace(SessionLap, LapStart(SessionLap), frame.pos, frame.time - v, 5)
          /\ items.session.index <= Len(SessionLap) => SessionStep(frame).value # {}
      BY <3>1 DEF DeltaIs
    <3>3. QED
      BY <1>1, <2>1, <2>2, <3>2 DEF TrueTo, SessionSearch
  <2>3. QED
    BY <2>1, <2>2 DEF TrueTo
<1>3. CASE i = LifeDelta
  <2>1. Value(i, frame, << >>) = LifeStep(frame).value /\ LapOf(i) = LifeLap
    BY <1>3, ValuesAre, LapsOfItems
  <2>2. CASE LifeLap # << >>
    <3>1. DeltaIs(LifeStep(frame), AfterWrap(LifeLap), 1, items.life, frame)
      BY <1>3, <2>2, LifeStepIs
    <3>2. IsAfter(AfterWrap(LifeLap), LifeLap, LapStart(LifeLap))
      BY <1>1, <2>2, ForwardLap, AfterLong
    <3>3. /\ \A v \in LifeStep(frame).value :
               v \in Int /\ AtPlace(LifeLap, LapStart(LifeLap), frame.pos, frame.time - v, 5)
          /\ items.life.index <= Len(AfterWrap(LifeLap)) => LifeStep(frame).value # {}
      BY <3>1, <3>2, AfterPlace DEF DeltaIs
    <3>4. QED
      BY <1>1, <1>3, <2>1, <2>2, <3>3 DEF TrueTo, LifeSearch
  <2>3. QED
    BY <2>1, <2>2 DEF TrueTo
<1>4. CASE i = SessionInterpolated
  <2>1. /\ Value(i, frame, << >>) = Interpolated(PointsFor(Session), frame)
        /\ LapOf(i) = SessionLap
    BY <1>4, ValuesAre, LapsOfItems
  <2>2. CASE SessionLap # << >>
    <3>1. session # "" /\ session \in DOMAIN Laps /\ GoesForward(SessionLap)
      BY <1>1, <2>2, ForwardLap
    <3>2. PointsFor(Session) = {Points(SessionLap)}
      BY <3>1, ResolvedSession DEF PointsFor, PointsOf, SessionLap
    <3>3. QED
      BY <2>1, <3>1, <3>2, InterpolatedOf
  <2>3. QED
    BY <2>1, <2>2 DEF TrueTo
<1>5. CASE i = LifeInterpolated
  <2> DEFINE source == SourceOf(LifeInterpolated)
  <2>1. /\ Value(i, frame, << >>) = Interpolated(PointsFor(source), frame)
        /\ LapOf(i) = IF Readable(source) THEN Laps[source] ELSE << >>
    BY <1>5, ValuesAre, LapsOfItems
  <2>2. source \notin {"", Session}
    BY <1>5, SourceIs DEF LifeItems
  <2>3. Resolved(source) = IF Readable(source) THEN {source} ELSE {}
    BY <1>1, <2>2, ResolvedLife
  <2> HIDE DEF source
  <2>4. CASE Readable(source)
    <3>1. source \in DOMAIN Laps
      BY <2>4 DEF Readable
    <3>2. PointsFor(source) = {Points(Laps[source])}
      BY <2>3, <2>4, <3>1 DEF PointsFor, PointsOf
    <3>3. GoesForward(Laps[source])
      BY <3>1 DEF GoForward
    <3>4. QED
      BY <2>1, <2>4, <3>2, <3>3, InterpolatedOf
  <2>5. CASE ~Readable(source)
    BY <2>1, <2>5 DEF TrueTo
  <2>6. QED
    BY <2>4, <2>5
<1>6. QED
  BY <1>2, <1>3, <1>4, <1>5 DEF DeltaItems

(* Whatever the search remembers and whichever frames are dropped, a delta *)
(* to a lap that goes forward is the distance in time to where that lap    *)
(* was at this position, and there is one while the lap stays the same.    *)
THEOREM TrueDeltas == GoForward => (Spec => DeltasAreTrue)
<1> SUFFICES ASSUME GoForward PROVE Spec => DeltasAreTrue
  OBVIOUS
<1>1. ASSUME PeriodInv, SectorInv, DeltaInv, [Next]_vars, FrameProcessed,
             NEW i \in sent'.items \cap {LifeDelta, SessionDelta, LifeInterpolated, SessionInterpolated}
      PROVE  LET lap   == LapOf(i)
                 pos   == file[sent'.tick].pos
                 there == file[sent'.tick].time - sent'.values[i]
             IN  /\ i \in DOMAIN sent'.values =>
                      /\ \A k \in Passed(lap, pos) : there >= lap[k].time - 5
                      /\ \A k \in Ahead(lap, pos) : there <= lap[k].time + 5
                 /\ lap # << >> /\ ~switched => i \in DOMAIN sent'.values
  <2> DEFINE tick == Head(frame_ch)
             frame == file[tick]
             values == Computed(DueItems, frame)
             lap == LapOf(i)
             there == frame.time - values[i]
  <2>1. ProcessFrame
    BY <1>1, OnlyProcesses
  <2>2. sent' = [tick |-> tick, items |-> DueItems, values |-> values] /\ frame_ch # << >>
    BY <2>1 DEF ProcessFrame
  <2>3. sent'.tick = tick /\ sent'.items = DueItems /\ sent'.values = values
    <3> HIDE DEF tick, values
    <3>1. QED
      BY <2>2
  <2>4. Moment(frame) /\ config \in DOMAIN Configs
    BY <1>1, <2>2, FrameIsMoment DEF SectorInv, PeriodInv, Buckets
  <2>5. i \in DeltaItems /\ i \in DueItems /\ i \in DOMAIN Subs
    BY <1>1, <2>3 DEF DeltaItems, DueItems
  <2> HIDE DEF frame, tick
  <2>6. /\ i \in DOMAIN values <=> Value(i, frame, << >>) # {}
        /\ i \in DOMAIN values => values[i] \in Value(i, frame, << >>)
    BY <2>5, ComputedIs, NotSectors
  <2>7. /\ TrueTo(Value(i, frame, << >>), lap, frame)
        /\ lap # << >> /\ ~switched => Value(i, frame, << >>) # {}
    BY <1>1, <2>4, <2>5, TrueValues
  <2> HIDE DEF values, lap
  <2>8. ASSUME i \in DOMAIN values
        PROVE  /\ \A k \in Passed(lap, frame.pos) : there >= lap[k].time - 5
               /\ \A k \in Ahead(lap, frame.pos) : there <= lap[k].time + 5
    <3>1. CASE lap = << >>
      <4>1. LapStart(<< >>) \in {1} \cup 2..Len(<< >>) /\ Len(<< >>) = 0
        <5>1. Len(<< >>) = 0
          OBVIOUS
        <5>2. QED
          BY <5>1, LapStartIs
      <4>2. LapStart(lap)..Len(lap) = {}
        BY <3>1, <4>1
      <4>3. QED
        BY <4>2 DEF Passed, Ahead
    <3>2. CASE lap # << >>
      <4>1. AtPlace(lap, LapStart(lap), frame.pos, there, 5)
        BY <2>6, <2>7, <2>8, <3>2 DEF TrueTo
      <4> HIDE DEF there
      <4>2. QED
        BY <4>1 DEF AtPlace, Passed, Ahead
    <3>3. QED
      BY <3>1, <3>2
  <2>9. /\ i \in DOMAIN values =>
             /\ \A k \in Passed(lap, frame.pos) : there >= lap[k].time - 5
             /\ \A k \in Ahead(lap, frame.pos) : there <= lap[k].time + 5
        /\ lap # << >> /\ ~switched => i \in DOMAIN values
    BY <2>6, <2>7, <2>8
  <2>10. QED
    BY <2>3, <2>9 DEF frame, lap
<1>2. PeriodInv /\ SectorInv /\ DeltaInv /\ [Next]_vars =>
        [FrameProcessed =>
           \A i \in sent'.items \cap {LifeDelta, SessionDelta, LifeInterpolated, SessionInterpolated} :
             LET lap   == LapOf(i)
                 pos   == file[sent'.tick].pos
                 there == file[sent'.tick].time - sent'.values[i]
             IN  /\ i \in DOMAIN sent'.values =>
                      /\ \A k \in Passed(lap, pos) : there >= lap[k].time - 5
                      /\ \A k \in Ahead(lap, pos) : there <= lap[k].time + 5
                 /\ lap # << >> /\ ~switched => i \in DOMAIN sent'.values]_vars
  BY <1>1
<1>3. Init => PeriodInv /\ SectorInv /\ DeltaInv
  BY PeriodInit, SectorInit, DeltaInit
<1>4. PeriodInv /\ SectorInv /\ DeltaInv /\ [Next]_vars => PeriodInv' /\ SectorInv' /\ DeltaInv'
  BY PeriodStep, SectorStep, DeltaStep DEF SectorInv
<1>5. QED
  BY <1>2, <1>3, <1>4, PTL DEF Spec, DeltasAreTrue

-----------------------------------------------------------------------------
(* The predictions.                                                        *)

(* All keys of calculated items. *)
CalcItems == SectorItems \cup SessionItems \cup LifeItems

LEMMA BestKeys == BestItems \subseteq {"calc:sector_best_1", "calc:sector_best_2", "calc:sector_best_3"}
<1>1. ASSUME NEW s \in Sectors
      PROVE  BestOf[s] \in {"calc:sector_best_1", "calc:sector_best_2", "calc:sector_best_3"}
  <2>1. s \in {0, 1, 2}
    BY DEF Sectors
  <2>2. BestOf[s] = <<"calc:sector_best_1", "calc:sector_best_2", "calc:sector_best_3">>[s + 1]
    BY DEF BestOf
  <2>3. QED
    BY <2>1, <2>2
<1>2. QED
  BY <1>1 DEF BestItems

(* No key is the bare name that a prediction looks for. *)
LEMMA KeysAreNotNames ==
  /\ "delta_time_to_life_best_lap_interpolated" \notin CalcItems
  /\ "delta_time_to_session_best_lap_interpolated" \notin CalcItems
<1>1. \A name \in {"delta_time_to_life_best_lap_interpolated",
                   "delta_time_to_session_best_lap_interpolated"} :
        /\ name \notin SessionItems /\ name \notin LifeItems
        /\ name \notin {PrevTime, PrevNumber} /\ name \notin BestItems
  BY BestKeys DEF SessionItems, LifeItems, PrevTime, PrevNumber, LifeDelta,
                LifeInterpolated, LifePredicted, SessionDelta, SessionInterpolated, SessionPredicted
<1>2. QED
  BY <1>1 DEF CalcItems, SectorItems

LEMMA PredictionIs ==
  ASSUME NEW frame, NEW values
  PROVE  /\ Value(LifePredicted, frame, values)
              = PredictedLapTime(PointsFor(SourceOf(LifePredicted)),
                                 "delta_time_to_life_best_lap_interpolated", values)
         /\ Value(SessionPredicted, frame, values)
              = PredictedLapTime(PointsFor(Session),
                                 "delta_time_to_session_best_lap_interpolated", values)
<1>1. \A i \in PredictItems : i # PrevTime /\ i # PrevNumber /\ i \notin DeltaItems
  BY DEF DeltaItems, LifeDelta, LifeInterpolated, SessionDelta, SessionInterpolated,
         PrevTime, PrevNumber, PredictItems, LifePredicted, SessionPredicted
<1>2. \A i \in PredictItems : i \notin BestItems
  BY BestKeys DEF PredictItems, LifePredicted, SessionPredicted
<1>3. /\ LifePredicted \in PredictItems /\ SessionPredicted \in PredictItems
      /\ LifePredicted # SessionPredicted
  BY DEF PredictItems, LifePredicted, SessionPredicted
<1>4. Value(LifePredicted, frame, values)
        = PredictedLapTime(PointsFor(SourceOf(LifePredicted)),
                           "delta_time_to_life_best_lap_interpolated", values)
  <2> DEFINE i == LifePredicted
  <2>1. /\ i # PrevTime /\ i # PrevNumber /\ i \notin BestItems /\ i # LifeDelta /\ i # SessionDelta
        /\ i # LifeInterpolated /\ i # SessionInterpolated /\ i = LifePredicted
        /\ i # SessionPredicted
    BY <1>1, <1>2, <1>3 DEF DeltaItems
  <2>2. QED
    BY <2>1 DEF Value
<1>5. Value(SessionPredicted, frame, values)
        = PredictedLapTime(PointsFor(Session),
                           "delta_time_to_session_best_lap_interpolated", values)
  <2> DEFINE i == SessionPredicted
  <2>1. /\ i # PrevTime /\ i # PrevNumber /\ i \notin BestItems /\ i # LifeDelta /\ i # SessionDelta
        /\ i # LifeInterpolated /\ i # SessionInterpolated /\ i # LifePredicted
        /\ i = SessionPredicted
    BY <1>1, <1>2, <1>3 DEF DeltaItems
  <2>2. QED
    BY <2>1 DEF Value
<1>6. QED
  BY <1>4, <1>5

(* So whatever is computed, it has no value. *)
LEMMA NoneIsPredicted ==
  ASSUME NEW due_items, NEW frame, due_items \subseteq CalcItems
  PROVE  PredictItems \cap DOMAIN Computed(due_items, frame) = {}
<1> DEFINE first == Results(due_items \ PredictItems, frame, << >>)
           second == Results(due_items \cap PredictItems, frame, first)
<1>1. DOMAIN first \subseteq due_items \ PredictItems
  BY DEF Results
<1>2. ASSUME NEW i \in DOMAIN second PROVE FALSE
  <2>1. i \in PredictItems /\ Value(i, frame, first) # {}
    BY <1>2 DEF Results
  <2> HIDE DEF first, second
  <2>2. /\ "delta_time_to_life_best_lap_interpolated" \notin DOMAIN first
        /\ "delta_time_to_session_best_lap_interpolated" \notin DOMAIN first
    BY <1>1, KeysAreNotNames
  <2>3. \A references :
          /\ PredictedLapTime(references, "delta_time_to_life_best_lap_interpolated", first) = {}
          /\ PredictedLapTime(references, "delta_time_to_session_best_lap_interpolated", first) = {}
    BY <2>2 DEF PredictedLapTime
  <2>4. CASE i = LifePredicted
    <3>1. Value(i, frame, first)
            = PredictedLapTime(PointsFor(SourceOf(i)), "delta_time_to_life_best_lap_interpolated", first)
      BY <2>4, PredictionIs
    <3>2. QED
      BY <2>1, <2>3, <3>1
  <2>5. CASE i = SessionPredicted
    <3>1. Value(i, frame, first)
            = PredictedLapTime(PointsFor(Session), "delta_time_to_session_best_lap_interpolated", first)
      BY <2>5, PredictionIs
    <3>2. QED
      BY <2>1, <2>3, <3>1
  <2>6. QED
    BY <2>1, <2>4, <2>5 DEF PredictItems
<1>3. DOMAIN Computed(due_items, frame) = DOMAIN first \cup DOMAIN second
  BY DEF Computed
<1>4. QED
  BY <1>1, <1>2, <1>3

(* Against dashboard/service.rs:505, and whatever is subscribed, no frame  *)
(* that the service sends ever has a prediction in it: no value is kept    *)
(* under the name that process_frame's items look for.                     *)
THEOREM NothingIsPredicted == Spec => [](PredictItems \cap DOMAIN sent.values = {})
<1> DEFINE None == PredictItems \cap DOMAIN sent.values = {}
<1>1. ASSUME Init PROVE None
  <2>1. sent.values = << >>
    BY <1>1 DEF Init
  <2>2. DOMAIN << >> = {}
    OBVIOUS
  <2>3. QED
    BY <2>1, <2>2
<1>2. ASSUME PeriodInv, None, [Next]_vars PROVE None'
  <2>1. CASE ProcessFrame
    <3>1. DueItems \subseteq CalcItems
      <4>1. DueItems \subseteq DOMAIN Configs[config] /\ config \in DOMAIN Configs
        BY <1>2 DEF DueItems, Subs, PeriodInv, Buckets
      <4>2. QED
        BY <4>1, ReplayAssumption DEF ReplayAssumption, CalcItems
    <3>2. sent'.values = Computed(DueItems, file[Head(frame_ch)])
      BY <2>1 DEF ProcessFrame
    <3>3. QED
      BY <3>1, <3>2, NoneIsPredicted
  <2>2. CASE UNCHANGED sent
    BY <1>2, <2>2
  <2>3. [Next]_vars => ProcessFrame \/ UNCHANGED sent
    BY DEF Next, vars, EngineStep, ServiceStep, ReplaceItems, Stop, JoinHolder, JoinDashboard,
           PlayFrame, EndReplay, TakeCommand, ServiceExit, Over
  <2>4. QED
    BY <1>2, <2>1, <2>2, <2>3
<1>3. Init => PeriodInv
  BY PeriodInit
<1>4. PeriodInv /\ [Next]_vars => PeriodInv'
  BY PeriodStep
<1>5. QED
  BY <1>1, <1>2, <1>3, <1>4, PTL DEF Spec
=============================================================================
