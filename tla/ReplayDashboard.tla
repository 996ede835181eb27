--------------------------- MODULE ReplayDashboard ---------------------------
(***************************************************************************)
(* The dashboard of a replay: the replay thread that plays a recorded      *)
(* file, the channel that keeps one frame, the service with its schedule,  *)
(* the registry with its reference laps and the calculated items, and the  *)
(* controller that replaces subscriptions and stops the replay.            *)
(*                                                                         *)
(* Commands, generations and the sink are those of DashboardService; here  *)
(* is what a frame is computed into.  Time is counted in polls, and a frame *)
(* is known by its sample_tick, its place in the file.                     *)
(***************************************************************************)
EXTENDS ComputeItems

CONSTANTS
  Configs,      \* named sets of subscriptions: item -> interval and source
  Laps,         \* the reference laps: source -> samples
  Bests,        \* those that are laps of the replay itself
  Unreadable,   \* sources whose file does not load
  Files,        \* the recorded files, as sequences of frames
  CmdCapacity,  \* capacity of the command channel (16 in the code)
  MaxChanges    \* bound: replacements of the subscriptions

(* The keys of the calculated items. *)
PrevTime == "calc:prev_sector_time"
PrevNumber == "calc:prev_sector_number"
BestOf == [s \in Sectors |-> <<"calc:sector_best_1", "calc:sector_best_2",
                               "calc:sector_best_3">>[s + 1]]
LifeDelta == "calc:delta_time_to_life_best_lap"
LifeInterpolated == "calc:delta_time_to_life_best_lap_interpolated"
LifePredicted == "calc:predict_lap_time_by_life_best_lap"
SessionDelta == "calc:delta_time_to_session_best_lap"
SessionInterpolated == "calc:delta_time_to_session_best_lap_interpolated"
SessionPredicted == "calc:predict_lap_time_by_session_best_lap"

BestItems == {BestOf[s] : s \in Sectors}
SectorItems == {PrevTime, PrevNumber} \cup BestItems
SessionItems == {SessionDelta, SessionInterpolated, SessionPredicted}
LifeItems == {LifeDelta, LifeInterpolated, LifePredicted}
PredictItems == {LifePredicted, SessionPredicted}
Session == "<session-best>"

(* The sector items are subscribed together, so that one history is theirs. *)
(* A source is the path of a file.                                          *)
ASSUME ReplayAssumption ==
  /\ \A c \in DOMAIN Configs :
       /\ DOMAIN Configs[c] \subseteq SectorItems \cup SessionItems \cup LifeItems
       /\ SectorItems \cap DOMAIN Configs[c] \in {{}, SectorItems}
       /\ \A i, j \in SectorItems \cap DOMAIN Configs[c] :
            Configs[c][i].interval = Configs[c][j].interval
       /\ \A i \in DOMAIN Configs[c] : Configs[c][i].interval \in Nat
       /\ \A i \in LifeItems \cap DOMAIN Configs[c] : Configs[c][i].source \notin {"", Session}
  /\ Bests \subseteq DOMAIN Laps /\ "" \notin DOMAIN Laps
  /\ CmdCapacity \in Nat \ {0} /\ MaxChanges \in Nat

(* What a frame of a file holds for the items.  The time of the last       *)
(* sector is the game's own, and changes with the sector.                  *)
Frame == [lap : Nat, sector : Sectors, pos : Nat, time : Nat, sector_time : Nat,
          valid : BOOLEAN]

ASSUME FilesAssumption ==
  \A f \in Files :
    /\ f \in Seq(Frame)
    /\ \A n \in 2..Len(f) :
         f[n].sector = f[n - 1].sector => f[n].sector_time = f[n - 1].sector_time

VARIABLES
  file,      \* the frames of the file that is replayed
  caller,    \* the thread that may stop the replay
  changes,   \* replacements so far
  engine,    \* the replay thread
  now,       \* the clock, and the number of frames read
  frame_ch,  \* the distributor's channel, bounded(1)
  cmd_ch,    \* the command channel
  service,   \* the service thread
  config,    \* the name of its subscriptions
  due,       \* next_due of each bucket, by interval
  session,   \* session_best of the registry, "" for None
  life,      \* life_best_source of the registry, "" for None
  items,     \* what the calculated items remember
  sent,      \* the frame processed last, its items and its values
  watched,   \* history: which frame showed the sector items each crossing
  since,     \* history: when the schedule was built
  served,    \* history: by interval, the last period that was computed
  switched   \* history: a reference lap was replaced by another

callerVars == <<caller, changes>>
engineVars == <<file, engine, now>>
registryVars == <<session, life, items>>
historyVars == <<watched, since, served, switched>>
vars == <<callerVars, engineVars, frame_ch, cmd_ch, service, config, due, registryVars,
          sent, historyVars>>

Subs == Configs[config]
Intervals == [c \in DOMAIN Configs |-> {Configs[c][i].interval : i \in DOMAIN Configs[c]}]

(* rebuild_schedule_buckets. *)
Schedule(c, time) == [d \in Intervals[c] |-> time + d]

Init ==
  /\ caller = "running" /\ changes = 0
  /\ engine = "looping" /\ now = 0
  /\ file \in Files
  /\ frame_ch = << >> /\ cmd_ch = << >>
  /\ service = "select"
  /\ config \in DOMAIN Configs
  /\ due = Schedule(config, now)
  /\ session = "" /\ life = ""
  /\ items = [sector |-> NoSector, bests |-> NoBests, life |-> NoSearch, session |-> NoSearch]
  /\ sent = [tick |-> 0, items |-> {}, values |-> << >>]
  /\ watched = [last |-> 0, gap |-> FALSE, seen |-> << >>]
  /\ since = 0
  /\ served = [d \in Intervals[config] |-> 0]
  /\ switched = FALSE

-----------------------------------------------------------------------------
(* RecordingController *)

Fits == Len(cmd_ch) < CmdCapacity

ReplaceItems(c) ==
  /\ caller = "running" /\ changes < MaxChanges
  /\ Fits /\ service = "select"
  /\ cmd_ch' = Append(cmd_ch, [op |-> "replace", name |-> c])
  /\ changes' = changes + 1
  /\ UNCHANGED <<caller, engineVars, frame_ch, service, config, due, registryVars, sent, historyVars>>

(* stop(): a token for the loop, then both threads are joined.             *)
Stop ==
  /\ caller = "running"
  /\ caller' = "stopping"
  /\ UNCHANGED <<changes, engineVars, frame_ch, cmd_ch, service, config, due, registryVars,
                 sent, historyVars>>

JoinHolder ==
  /\ caller = "stopping" /\ engine = "over"
  /\ caller' = "joined"
  /\ UNCHANGED <<changes, engineVars, frame_ch, cmd_ch, service, config, due, registryVars,
                 sent, historyVars>>

JoinDashboard ==
  /\ caller = "joined" /\ service = "exited"
  /\ caller' = "returned"
  /\ UNCHANGED <<changes, engineVars, frame_ch, cmd_ch, service, config, due, registryVars,
                 sent, historyVars>>

-----------------------------------------------------------------------------
(* run_replay_loop *)

(* try_send keeps the frame that waits.                                    *)
Distribute(tick) ==
  frame_ch' = IF frame_ch = << >> /\ service = "select" THEN <<tick>> ELSE frame_ch

(* The callback of a completed lap may send a better reference lap.        *)
LapCompleted(tick) == tick > 1 /\ file[tick].lap > file[tick - 1].lap

NotifyLap(tick) ==
  \/ UNCHANGED cmd_ch
  \/ /\ LapCompleted(tick) /\ Fits /\ service = "select"
     /\ \E b \in Bests : cmd_ch' = Append(cmd_ch, [op |-> "reference", name |-> b])

(* One frame: lap detection, distribution, and the sleep to the next poll. *)
PlayFrame ==
  /\ engine = "looping" /\ caller = "running"
  /\ now < Len(file)
  /\ now' = now + 1
  /\ NotifyLap(now')
  /\ Distribute(now')
  /\ UNCHANGED <<callerVars, file, engine, service, config, due, registryVars, sent, historyVars>>

(* The token, or no more frames.  The loop's end drops the distributor and *)
(* the callback.                                                           *)
EndReplay ==
  /\ engine = "looping"
  /\ caller # "running" \/ now = Len(file)
  /\ engine' = "over"
  /\ UNCHANGED <<callerVars, file, now, frame_ch, cmd_ch, service, config, due, registryVars,
                 sent, historyVars>>

-----------------------------------------------------------------------------
(* DashboardService *)

DueIntervals == {d \in DOMAIN due : now >= due[d]}
DueItems == {i \in DOMAIN Subs : Subs[i].interval \in DueIntervals}

(* Mutant: the period begins when the item was computed. *)
NextDue_Drifts(d) == now + d

(* The first multiple of the interval after now.                           *)
NextDue(d) == IF d = 0 THEN now ELSE due[d] + d * ((now - due[d]) \div d + 1)

SourceOf(i) == IF i \in SessionItems THEN Session ELSE Subs[i].source

Readable(source) == source \in DOMAIN Laps \ (Bests \cup Unreadable)

(* Mutant: the cached lap serves every source. *)
Resolved_AnySource(source) ==
  CASE source = Session -> IF session = "" THEN {} ELSE {session}
    [] source # Session /\ life # "" -> {life}
    [] OTHER -> IF Readable(source) THEN {source} ELSE {}

(* resolve_reference_lap: the slot of the session's best lap, or the one   *)
(* slot for laps of files, which is loaded again for another source.       *)
Resolved(source) ==
  CASE source = Session -> IF session = "" THEN {} ELSE {session}
    [] source # Session /\ life = source -> {life}
    [] OTHER -> IF Readable(source) THEN {source} ELSE {}

(* The slot keeps the source that was loaded last; what fails to load      *)
(* leaves it.  Items of one rank are computed in any order.                *)
Loaded(computed) ==
  LET sources == {SourceOf(i) : i \in computed \cap LifeItems}
      loaded  == {source \in sources : Readable(source)}
  IN  IF loaded = {} THEN {life} ELSE loaded

(* The parts of the laps that the items keep, found once for each lap.     *)
LastLapOf == [l \in DOMAIN Laps |-> AfterWrap(Laps[l])]
PointsOf == [l \in DOMAIN Laps |-> Points(Laps[l])]

PointsFor(source) == {PointsOf[l] : l \in Resolved(source)}
LifeStep(frame) ==
  DeltaToLifeBest({LastLapOf[l] : l \in Resolved(SourceOf(LifeDelta))}, items.life, frame)
SessionStep(frame) ==
  DeltaToSessionBest({Laps[l] : l \in Resolved(Session)}, items.session, frame)

(* What the items remember once the due ones are computed.                 *)
Remembered(computed, frame) ==
  [sector  |-> IF computed \cap {PrevTime, PrevNumber} = {} THEN items.sector
               ELSE PrevSector(items.sector, frame),
   bests   |-> IF computed \cap BestItems = {} THEN items.bests
               ELSE SectorBest(items.bests, frame),
   life    |-> IF LifeDelta \in computed THEN LifeStep(frame).state ELSE items.life,
   session |-> IF SessionDelta \in computed THEN SessionStep(frame).state ELSE items.session]

(* compute_item.  The prediction items have the higher rank: values are    *)
(* those of the others, by key.                                            *)
Value(i, frame, values) ==
  CASE i = PrevTime -> {PrevSector(items.sector, frame).time}
    [] i = PrevNumber -> {PrevSector(items.sector, frame).number}
    [] i \in BestItems -> {SectorBest(items.bests, frame).best[s] : s \in {s \in Sectors : BestOf[s] = i}}
    [] i = LifeDelta -> LifeStep(frame).value
    [] i = SessionDelta -> SessionStep(frame).value
    [] i \in {LifeInterpolated, SessionInterpolated} -> Interpolated(PointsFor(SourceOf(i)), frame)
    [] i = LifePredicted ->
         PredictedLapTime(PointsFor(SourceOf(i)), "delta_time_to_life_best_lap_interpolated", values)
    [] i = SessionPredicted ->
         PredictedLapTime(PointsFor(Session), "delta_time_to_session_best_lap_interpolated", values)

Results(computed, frame, values) ==
  LET answered == {i \in computed : Value(i, frame, values) # {}}
  IN  [i \in answered |-> CHOOSE v \in Value(i, frame, values) : TRUE]

(* sort_items_by_dependencies, then one item after the other.              *)
Computed(due_items, frame) ==
  LET first  == Results(due_items \ PredictItems, frame, << >>)
      second == Results(due_items \cap PredictItems, frame, first)
  IN  [i \in DOMAIN first \cup DOMAIN second |->
         IF i \in DOMAIN first THEN first[i] ELSE second[i]]

Period(d) == IF d = 0 THEN now ELSE (now - since) \div d

(* The frames, up to one, that are the first of their sector.              *)
Crossings(tick) == {k \in 2..tick : file[k].sector # file[k - 1].sector}

(* History: the crossings since the frame before are seen in this one.     *)
Watch(tick) ==
  LET new == IF watched.last = 0 THEN {} ELSE Crossings(tick) \ Crossings(watched.last) IN
  [last |-> tick,
   gap  |-> watched.gap \/ Cardinality(new) > 1,
   seen |-> [k \in DOMAIN watched.seen \cup new |-> IF k \in new THEN tick ELSE watched.seen[k]]]

(* process_frame.                                                          *)
ProcessFrame ==
  LET tick == Head(frame_ch)
      frame == file[tick]
      computed == DueItems
  IN
  /\ service = "select"
  /\ frame_ch # << >>
  /\ frame_ch' = << >>
  /\ due' = [d \in DOMAIN due |-> IF d \in DueIntervals THEN NextDue(d) ELSE due[d]]
  /\ sent' = [tick |-> tick, items |-> computed, values |-> Computed(computed, frame)]
  /\ items' = Remembered(computed, frame)
  /\ life' \in Loaded(computed)
  /\ watched' = IF computed \cap SectorItems = {} THEN watched ELSE Watch(tick)
  /\ served' = [d \in DOMAIN served |-> IF d \in DueIntervals THEN Period(d) ELSE served[d]]
  /\ UNCHANGED <<callerVars, engineVars, cmd_ch, service, config, session, since, switched>>

(* replace_all, whose schedule begins anew, or a new session best.         *)
TakeCommand ==
  LET cmd == Head(cmd_ch) IN
  /\ service = "select"
  /\ cmd_ch # << >>
  /\ cmd_ch' = Tail(cmd_ch)
  /\ \/ /\ cmd.op = "replace"
        /\ config' = cmd.name
        /\ due' = Schedule(cmd.name, now)
        /\ since' = now
        /\ served' = [d \in Intervals[cmd.name] |-> 0]
        /\ switched' = TRUE
        /\ UNCHANGED session
     \/ /\ cmd.op = "reference"
        /\ session' = cmd.name
        /\ switched' = (switched \/ session # "")
        /\ UNCHANGED <<config, due, since, served>>
  /\ UNCHANGED <<callerVars, engineVars, frame_ch, service, life, items, sent, watched>>

(* Mutant: the loop waits for both channels; the controller keeps one.     *)
Disconnected_Both == engine = "over" /\ frame_ch = << >> /\ caller = "returned"

(* The frame channel is closed and empty. *)
Disconnected == engine = "over" /\ frame_ch = << >>

ServiceExit ==
  /\ service = "select"
  /\ Disconnected
  /\ service' = "exited"
  /\ cmd_ch' = << >>
  /\ UNCHANGED <<callerVars, engineVars, frame_ch, config, due, registryVars, sent, historyVars>>

-----------------------------------------------------------------------------
Over == caller \in {"running", "returned"} /\ service = "exited" /\ UNCHANGED vars

EngineStep == EndReplay \/ PlayFrame
ServiceStep == ServiceExit \/ TakeCommand \/ ProcessFrame

Next ==
  \/ \E c \in DOMAIN Configs : ReplaceItems(c)
  \/ Stop \/ JoinHolder \/ JoinDashboard
  \/ EngineStep \/ ServiceStep
  \/ Over

(* The two threads go on while they can, and so does a caller that joins   *)
(* them.  Weak fairness of EngineStep and ServiceStep, whose being enabled *)
(* is said outright: to find it out would compute a frame.                 *)
ServiceReady == service = "select" /\ (frame_ch # << >> \/ cmd_ch # << >> \/ Disconnected)
ServiceMoves == service' # service \/ Len(frame_ch') < Len(frame_ch) \/ Len(cmd_ch') < Len(cmd_ch)
EngineMoves == engine' # engine \/ now' > now

Fairness ==
  /\ []<>~ServiceReady \/ []<><<ServiceMoves>>_vars
  /\ []<>(engine = "over") \/ []<><<EngineMoves>>_vars
  /\ WF_vars(JoinHolder) /\ WF_vars(JoinDashboard)

Spec == Init /\ [][Next]_vars
FairSpec == Spec /\ Fairness

-----------------------------------------------------------------------------
FrameProcessed == frame_ch # << >> /\ frame_ch' = << >>

(* recording/controller.rs:422: a replay that is stopped, or out of        *)
(* frames, ends with its dashboard thread, although the controller keeps a *)
(* sender of the command channel, and stop() returns.                      *)
ReplayEnds ==
  /\ <>(engine = "over" /\ service = "exited")
  /\ caller = "stopping" ~> caller = "returned"

(* However late frames come and however many the channel drops, the first  *)
(* frame of each period of an item computes it, and no other frame does:   *)
(* next_due neither drifts nor catches up.  Periods begin with the last    *)
(* change of any subscription.                                             *)
PeriodsAreServed ==
  [][FrameProcessed =>
       \A i \in DOMAIN Subs :
         LET d == Subs[i].interval IN
         i \in sent'.items <=> d = 0 \/ Period(d) > served[d]]_vars

(* The sector that ended with a crossing.                                  *)
Driven(k) == [sector |-> file[k - 1].sector, time |-> file[k].sector_time]

(* The last frame of the lap it was driven in, up to the one that showed   *)
(* the crossing.                                                           *)
LastOfLap(k) ==
  CHOOSE n \in (k - 1)..watched.seen[k] :
    /\ file[n].lap = file[k - 1].lap
    /\ \A m \in (n + 1)..watched.seen[k] : file[m].lap # file[k - 1].lap

(* The crossings whose sector was driven in a lap that was valid so far.   *)
OfValidLaps == {k \in DOMAIN watched.seen : file[LastOfLap(k)].valid}

(* Those that were seen in a frame of the next lap, whose flag is another: *)
(* the code takes it for the flag of the lap that ended.                   *)
Misjudged ==
  {k \in DOMAIN watched.seen : /\ LastOfLap(k) # watched.seen[k]
                               /\ file[LastOfLap(k)].valid # file[watched.seen[k]].valid}

(* Those of a lap that turned invalid afterwards. *)
Spoiled ==
  {k \in DOMAIN watched.seen :
     \E n \in (watched.seen[k] + 1)..Len(file) : file[n].lap = file[k - 1].lap /\ ~file[n].valid}

TimesIn(s, crossings) ==
  {Driven(k).time : k \in {k \in crossings : Driven(k).sector = s}} \ {0}

(* Items of sectors (items.rs:91), computed on the frames that were not    *)
(* dropped: while no whole sector went by between two of them, the best    *)
(* times are the least of those driven in valid laps, and the previous     *)
(* sector is the one driven last, with a time if its lap was valid then.   *)
(* Two cases are left out, in which the code does not do what              *)
(* items.rs:91-94 says, the best of all valid laps: the misjudged sectors, *)
(* the last ones of a lap, of which an invalid one counts and a valid one  *)
(* may not; and the sectors of a lap before it turned invalid, which count *)
(* all the same.  They may be among the best times or not.                 *)
SectorsAreTrue ==
  ~watched.gap =>
    /\ \A s \in Sectors :
         /\ items.bests.best[s] \in TimesIn(s, OfValidLaps \cup Misjudged) \cup {-1}
         /\ \A t \in TimesIn(s, OfValidLaps \ (Misjudged \cup Spoiled)) :
              items.bests.best[s] \in 0..t
    /\ \A k \in DOMAIN watched.seen :
         (\A j \in DOMAIN watched.seen : j <= k) =>
           /\ items.sector.number = Driven(k).sector
           /\ k \notin Misjudged =>
                items.sector.time = IF k \in OfValidLaps THEN Driven(k).time ELSE -1

(* The lap an item is subscribed to, if there is one.                      *)
LapOf(i) ==
  CASE i \in SessionItems -> IF session = "" THEN << >> ELSE Laps[session]
    [] i \in LifeItems -> IF Readable(SourceOf(i)) THEN Laps[SourceOf(i)] ELSE << >>

(* The last sample of a lap at a position or before it, and the next one.  *)
Passed(lap, pos) == {k \in LapStart(lap)..Len(lap) : lap[k].pos <= pos}
Ahead(lap, pos) == {k \in LapStart(lap)..Len(lap) : lap[k].pos > pos}

(* A lap that goes forward: behind its start, which both deltas find at    *)
(* the same sample, the car does not stand and its time does not fall.     *)
GoesForward(lap) ==
  /\ lap \in Seq([pos : 0..Track, time : Nat])
  /\ lap # << >> => LapStart(lap) < Len(lap) /\ SearchStart(lap) = LapStart(lap)
  /\ \A k \in (LapStart(lap) + 1)..Len(lap) : /\ lap[k - 1].pos < lap[k].pos
                                             /\ lap[k - 1].time <= lap[k].time

(* The cars of the files are on the track, and the laps go forward.        *)
GoForward ==
  /\ \A f \in Files : \A n \in 1..Len(f) : f[n].pos <= Track
  /\ \A l \in DOMAIN Laps : GoesForward(Laps[l])

(* A delta is the distance in time to where the lap of the item's own      *)
(* source was at this position, within the ten it is rounded to: not       *)
(* before the last sample it had passed, nor after the next, whatever the  *)
(* search remembers of earlier laps and references.  There is one whenever *)
(* there is a lap, unless the lap was changed under the search.  For laps  *)
(* that go forward: a car that stands is at a place for longer.            *)
DeltasAreTrue ==
  [][FrameProcessed =>
       \A i \in sent'.items \cap {LifeDelta, SessionDelta, LifeInterpolated, SessionInterpolated} :
         LET lap   == LapOf(i)
             pos   == file[sent'.tick].pos
             there == file[sent'.tick].time - sent'.values[i]
         IN  /\ i \in DOMAIN sent'.values =>
                  /\ \A k \in Passed(lap, pos) : there >= lap[k].time - 5
                  /\ \A k \in Ahead(lap, pos) : there <= lap[k].time + 5
             /\ lap # << >> /\ ~switched => i \in DOMAIN sent'.values]_vars
=============================================================================
