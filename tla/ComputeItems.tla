---------------------------- MODULE ComputeItems ----------------------------
(***************************************************************************)
(* The built-in calculated items as functions of the current frame, of a   *)
(* reference lap and of what they remember.                                *)
(*                                                                         *)
(* Positions are tenths of a lap and times milliseconds.  A lap is a       *)
(* sequence of samples with a position and a time.  What may be missing is *)
(* a set: a reference {lap} or {}, a value {v} for Ok(v), {} for an error. *)
(***************************************************************************)
EXTENDS Integers, Sequences, FiniteSets, FiniteSetsExt, SequencesExt

Track == 10   \* normalized_car_position 1.0
Sectors == 0..2

-----------------------------------------------------------------------------
(* Sector items *)

NoSector == [seen |-> -1, time |-> -1, number |-> -1]
NoBests == [seen |-> -1, best |-> [s \in Sectors |-> -1]]

(* The two previous-sector items share this step: whichever comes first in *)
(* a frame notices the new sector.                                         *)
PrevSector(state, frame) ==
  IF state.seen \notin {-1, frame.sector}
  THEN [seen |-> frame.sector, number |-> state.seen,
        time |-> IF frame.valid THEN frame.sector_time ELSE -1]
  ELSE [state EXCEPT !.seen = frame.sector]

Better(time, best) == best < 0 \/ time < best

(* Mutant: an invalid sector is noticed again and again. *)
SectorBest_Late(state, frame) ==
  LET done == state.seen IN
  IF done \in Sectors \ {frame.sector}
  THEN IF frame.valid /\ frame.sector_time > 0 /\ Better(frame.sector_time, state.best[done])
       THEN [seen |-> frame.sector, best |-> [state.best EXCEPT ![done] = frame.sector_time]]
       ELSE state
  ELSE [state EXCEPT !.seen = frame.sector]

(* The three best-sector items share this one. *)
SectorBest(state, frame) ==
  LET done == state.seen IN
  [seen |-> frame.sector,
   best |-> IF /\ done \in Sectors \ {frame.sector}
               /\ frame.valid /\ frame.sector_time > 0
               /\ Better(frame.sector_time, state.best[done])
            THEN [state.best EXCEPT ![done] = frame.sector_time]
            ELSE state.best]

-----------------------------------------------------------------------------
(* Differences to a reference lap, sample by sample *)

NoSearch == [lap |-> -1, index |-> 1]

(* Where the lap itself begins: after the last time the position fell by   *)
(* more than half a lap.                                                   *)
LapStart(lap) ==
  Max({1} \cup {i \in 2..Len(lap) : 2 * lap[i].pos + Track < 2 * lap[i - 1].pos})

AfterWrap(lap) == SubSeq(lap, LapStart(lap), Len(lap))

(* A search goes on where the last one ended, unless a new lap began or    *)
(* the car is before that sample.                                          *)
Resumed(state, frame) == IF state.lap # frame.lap THEN 1 ELSE state.index

Restart(index, start, lap, pos) ==
  IF index <= Len(lap) /\ pos < lap[index].pos THEN start ELSE index

(* The first sample from there whose successor is ahead of the car; the    *)
(* last one has no successor.  None when the search begins past the end.   *)
Found(lap, from, pos) ==
  {i \in from..Len(lap) :
     /\ i = Len(lap) \/ pos < lap[i + 1].pos
     /\ \A k \in from..(i - 1) : pos >= lap[k + 1].pos}

NoReference(laps) == laps \subseteq {<< >>}

DeltaToLifeBest(laps, state, frame) ==
  LET ref   == CHOOSE lap \in laps : TRUE
      from  == Restart(Resumed(state, frame), 1, ref, frame.pos)
      found == Found(ref, from, frame.pos)
  IN  IF NoReference(laps) THEN [state |-> state, value |-> {}]
      ELSE [state |-> [lap |-> frame.lap, index |-> Max(found \cup {from})],
            value |-> {frame.time - ref[i].time : i \in found}]

(* The nearest ten of num / den, halves away from zero.                    *)
RoundedTen(num, den) ==
  LET tens == (2 * (IF num < 0 THEN -num ELSE num) + 10 * den) \div (20 * den)
  IN  IF num < 0 THEN -10 * tens ELSE 10 * tens

(* The session-best item looks for the start of the lap in its own way: by *)
(* the position, else by the first time that falls back.                   *)
SearchStart(lap) ==
  LET later  == 2..Len(lap)
      wraps  == {i \in later : 10 * lap[i - 1].pos > 8 * Track /\ 10 * lap[i].pos < 2 * Track}
      resets == {i \in later : lap[i].time < lap[i - 1].time}
  IN  CASE wraps # {} -> Max(wraps)
        [] wraps = {} /\ resets # {} -> Min(resets)
        [] OTHER -> 1

DeltaToSessionBest(laps, state, frame) ==
  LET lap   == CHOOSE l \in laps : TRUE
      start == SearchStart(lap)
      from  == Restart(Max({Resumed(state, frame), start}), start, lap, frame.pos)
      found == {i \in Found(lap, from, frame.pos) :
                  \A k \in (from + 1)..i : lap[k].time >= lap[k - 1].time}
  IN  IF NoReference(laps) THEN [state |-> state, value |-> {}]
      ELSE IF start > 1 /\ frame.pos < lap[start].pos
      THEN [state |-> [lap |-> frame.lap, index |-> from], value |-> {frame.time}]
      ELSE [state |-> [lap |-> frame.lap, index |-> Max(found \cup {from})],
            value |-> {RoundedTen(frame.time - lap[i].time, 1) : i \in found}]

-----------------------------------------------------------------------------
(* Interpolated differences.  The points are kept until the lap changes;   *)
(* as a function of the lap they need not be.                              *)

Usable(sample) == sample.pos \in 0..Track /\ sample.time >= 0

Rises(points, sample) ==
  points = << >> \/ (sample.pos > Last(points).pos /\ sample.time >= Last(points).time)

Kept(points, sample) ==
  IF Usable(sample) /\ Rises(points, sample) THEN Append(points, sample) ELSE points

(* The samples that go forward, after the origin if they begin later.      *)
Points(lap) ==
  LET ref == AfterWrap(lap)
      rising[n \in 0..Len(ref)] ==
        IF n = 0 THEN << >>
        ELSE CHOOSE points \in {Kept(p, ref[n]) : p \in {rising[n - 1]}} : TRUE
      points == rising[Len(ref)]
  IN  IF points # << >> /\ points[1].pos > 0 /\ points[1].time > 0
      THEN << [pos |-> 0, time |-> 0] >> \o points
      ELSE points

(* Both interpolated items, from the points of the lap. *)
Interpolated(references, frame) ==
  UNION {
    LET passed == Cardinality({i \in DOMAIN points : points[i].pos <= frame.pos})
        lower  == Min({Max({passed, 1}), Len(points) - 1})
        a      == points[lower]
        b      == points[lower + 1]
        span   == b.pos - a.pos
    IN  IF Len(points) < 2 \/ ~Usable(frame) THEN {}
        ELSE {RoundedTen((frame.time - a.time) * span - (frame.pos - a.pos) * (b.time - a.time),
                         span)}
    : points \in references}

-----------------------------------------------------------------------------
(* Predicted lap times *)

(* The time at the line, extrapolated from the last two points.            *)
TotalTime(points) ==
  LET last   == Last(points)
      before == points[Len(points) - 1]
  IN  CASE points = << >> -> {}
        [] Len(points) = 1 \/ (Len(points) > 1 /\ last.pos = Track) -> {last.time}
        [] OTHER ->
             {last.time + ((last.time - before.time) * (Track - last.pos)) \div (last.pos - before.pos)}

(* Both prediction items: the total time plus a delta of the same frame,   *)
(* looked up by its name among values that are kept by their keys.         *)
PredictedLapTime(references, delta, values) ==
  IF delta \in DOMAIN values
  THEN {total + values[delta] : total \in UNION {TotalTime(points) : points \in references}}
  ELSE {}
=============================================================================
