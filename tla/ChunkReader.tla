---------------------------- MODULE ChunkReader ----------------------------
(***************************************************************************)
(* BinaryTelemetryReader on a ChunkFile, and what recording/outcome.rs     *)
(* makes of it: the laps of a recording, the LAPS block that               *)
(* append_lap_index adds, and the values of a lap.                         *)
(*                                                                         *)
(* The reader takes the file as it is at that moment.  A row is the frame  *)
(* it was taken from; Default is a sample of zeros, told apart by its tick.  *)
(***************************************************************************)
EXTENDS ChunkFile, SequencesExt

CONSTANTS
  MaxBlocks   \* bound: LAPS blocks appended

\* The clusters this module names; the others are read like Motion.
Controls == "controls"
Session == "session"
Timing == "timing"

ASSUME ReaderAssumption ==
  /\ {Controls, Session, Timing} \subseteq ToSet(Clusters)
  /\ Clusters[1] = Controls
  /\ Samples \subseteq [pos : {"high", "mid", "low"}, valid : {0, 1}, last : {0, 1}]
  /\ MaxBlocks \in Nat

Default == [tick |-> -1, sample |-> [pos |-> "low", valid |-> 0, last |-> 0]]

-----------------------------------------------------------------------------
(* from_v1_bytes.                                                          *)

Whole(n) == n \in 1..Size /\ At(n).cut = "whole"

(* header.footer_offset > 0 && header.footer_offset < bytes.len() *)
HasFooter == footer_offset # 0

(* A cut chunk that has other bytes behind it.  When few are missing the   *)
(* length fits, and only its checksum tells.                               *)
Overwritten(n) == n < Size /\ At(n).kind = "CHNK" /\ At(n).cut = "tail" /\ Whole(n + 1)

(* scan_chunks comes from chunk to chunk to the first thing that is not a  *)
(* whole chunk, or to the end.  A fixed header that is not all there is an *)
(* error, anything else the end of the scan.                               *)
ScanStop ==
  CHOOSE n \in 2..(Size + 1) :
    /\ n = Size + 1 \/ At(n).kind # "CHNK" \/ ~Whole(n)
    /\ \A m \in 2..(n - 1) : At(m).kind = "CHNK" /\ Whole(m)

ScanFails == ScanStop <= Size /\ At(ScanStop).kind = "CHNK" /\ At(ScanStop).cut = "head"
ScanEnd == IF Overwritten(ScanStop) THEN ScanStop ELSE ScanStop - 1
Opens == Size > 0 /\ Whole(1) /\ (HasFooter \/ ~ScanFails)

(* scan_chunks rebuilds an entry from the chunk's header: the last tick is *)
(* the first one plus the number of samples less one.                      *)
ScannedEntry(n) ==
  [cluster |-> At(n).cluster, at |-> n, first |-> At(n).rows[1].tick,
   last |-> At(n).rows[1].tick + Len(At(n).rows) - 1]

ScanChunks == [k \in 1..(ScanEnd - 1) |-> ScannedEntry(k + 1)]

Entries == IF HasFooter THEN At(footer_offset).index ELSE ScanChunks

(* read_lap_index_if_present looks behind the footer.  A cut block with    *)
(* another one behind it is long enough when its count was written: its    *)
(* last entries are made of the bytes of the second block.                 *)
Garbage == <<"garbage">>

LapIndex ==
  LET n == footer_offset + 1
  IN  IF ~HasFooter \/ n > Size THEN << >>
      ELSE IF Whole(n) THEN At(n).laps
      ELSE IF n < Size /\ At(n).cut \in {"body", "tail"} THEN Garbage
      ELSE << >>

-----------------------------------------------------------------------------
(* Reads.                                                                  *)

(* read_chunk_raw: bounds, cluster and checksum. *)
ClusterFails(c) ==
  LET es == Entries
  IN  \E k \in 1..Len(es) : es[k].cluster = c /\ ~Whole(es[k].at)

(* read_all_<cluster>, for a cluster that does not fail: its chunks, one   *)
(* after another.                                                          *)
ReadAll(c) ==
  LET es == Entries
  IN  FlattenSeq([k \in 1..Len(es) |-> IF es[k].cluster = c THEN At(es[k].at).rows ELSE << >>])

(* The same with unwrap_or_default. *)
ReadOrNone(c) == IF ClusterFails(c) THEN << >> ELSE ReadAll(c)

(* The elements of a sequence that are in some of its places. *)
Picked(s, places) ==
  FlattenSeq([n \in 1..Len(s) |-> IF n \in places THEN <<s[n]>> ELSE << >>])

(* Where the ticks of a lap are. *)
PlacesOf(rows, first, last) ==
  {n \in 1..Len(rows) : first <= rows[n].tick /\ rows[n].tick <= last}

(* read_<cluster>_range filters read_all_<cluster>. *)
InTicks(rows, first, last) == Picked(rows, PlacesOf(rows, first, last))

ReadRange_Exclusive(c, first, last) ==  \* Mutant: the last tick is left out.
  InTicks(ReadOrNone(c), first, last - 1)

ReadRange(c, first, last) == InTicks(ReadOrNone(c), first, last)

(* read_all_frames: as many frames as there are controls samples; the      *)
(* other clusters are put beside them by their place.  Here, one column of *)
(* those frames.                                                           *)
FramesReadable == Opens /\ ~ClusterFails(Controls)

Zeros(n) == [k \in 1..n |-> Default]

FramesColumn(c) ==
  LET n == Len(ReadAll(Controls))
      rows == ReadOrNone(c)
  IN  SubSeq(rows \o Zeros(n - Len(rows)), 1, n)

(* read_lap_frames of an entry of the lap index, again one column. *)
LapColumn(entry, c) ==
  Picked(FramesColumn(c), PlacesOf(ReadAll(Controls), entry.first, entry.last))

-----------------------------------------------------------------------------
(* Laps.  The car crosses the line when its position falls from above 0.8  *)
(* ("high") to below 0.2 ("low").                                          *)

CrossesAt(s, i) == s[i - 1].sample.pos = "high" /\ s[i].sample.pos = "low"

(* Where the laps of a sequence of samples begin. *)
LapStarts(s) ==
  Picked([i \in 1..Len(s) |-> i], {i \in 1..Len(s) : i = 1 \/ CrossesAt(s, i)})

LapEnd_Crossing(s, k) ==  \* Mutant: the sample that crosses the line belongs to both laps.
  LET starts == LapStarts(s) IN IF k < Len(starts) THEN starts[k + 1] ELSE Len(s)

LapEnd(s, k) ==
  LET starts == LapStarts(s) IN IF k < Len(starts) THEN starts[k + 1] - 1 ELSE Len(s)

LapCount(s) == IF s = << >> THEN 0 ELSE Len(LapStarts(s))

(* The part of a lap that append_lap_index and aggregate_laps agree on. *)
Lap(s, k) ==
  LET a == LapStarts(s)[k]
      b == LapEnd(s, k)
  IN  [lap |-> k - 1, first |-> s[a].tick, last |-> s[b].tick, count |-> b - a + 1,
       out |-> IF k = 1 THEN 1 ELSE 0]

(* append_lap_index: the last sample decides whether a lap is valid; the   *)
(* last lap is valid unless it is the out lap.                             *)
IndexedLap(s, k) ==
  LET l == Lap(s, k)
      valid == k # 1 /\ (k = LapCount(s) \/ s[LapEnd(s, k)].sample.valid # 0)
  IN  [lap |-> l.lap, first |-> l.first, last |-> l.last, count |-> l.count,
       valid |-> IF valid THEN 1 ELSE 0, out |-> l.out]

LapsToAppend(s) == [k \in 1..LapCount(s) |-> IndexedLap(s, k)]

(* aggregate_laps: one of the last three samples makes a lap invalid. *)
Larger(a, b) == IF a > b THEN a ELSE b

AggregatedValid(s, k) ==
  /\ k # 1
  /\ \A i \in Larger(LapEnd(s, k) - 2, LapStarts(s)[k])..LapEnd(s, k) :
       s[i].sample.valid # 0

(* The timing sample that gives a lap its time: that of the crossing which *)
(* ends it, or else the latest one since the lap began.                    *)
NoTime == 0

AggregatedTime_Before(s, t, k) ==  \* Mutant: the time is looked up before the line.
  LET cross == s[LapEnd(s, k)].tick
      upto == {i \in 1..Len(t) : s[LapStarts(s)[k]].tick <= t[i].tick /\ t[i].tick <= cross}
  IN  IF k = LapCount(s) \/ upto = {} THEN NoTime
      ELSE t[CHOOSE i \in upto : \A j \in upto : t[j].tick <= t[i].tick].sample.last

AggregatedTime(s, t, k) ==
  LET cross == s[LapEnd(s, k) + 1].tick
      upto == {i \in 1..Len(t) : s[LapStarts(s)[k]].tick <= t[i].tick /\ t[i].tick <= cross}
  IN  IF k = LapCount(s) \/ upto = {} THEN NoTime
      ELSE t[CHOOSE i \in upto : \A j \in upto : t[j].tick <= t[i].tick].sample.last

AggregateLaps ==
  LET s == ReadOrNone(Session)
      t == ReadOrNone(Timing)
  IN  [k \in 1..LapCount(s) |->
         [lap |-> Lap(s, k), valid |-> AggregatedValid(s, k),
          time |-> AggregatedTime(s, t, k)]]

(* extract_lap_telemetry looks the values of a cluster up by the ticks of  *)
(* the lap's session samples s[first..last].                               *)
ByTick(rows, tick) == InTicks(rows, tick, tick)

LapValues(s, lap, rows) ==
  LET own == InTicks(s, lap.first, lap.last)
  IN  FlattenSeq([n \in 1..Len(own) |-> ByTick(rows, own[n].tick)])

(* With all laps they come from one read of the cluster, with chosen laps  *)
(* from reads of their ranges.                                             *)
ExtractAll(c, s, lap) == LapValues(s, lap, ReadOrNone(c))
ExtractLap(c, s, lap) == LapValues(s, lap, ReadRange(c, lap.first, lap.last))

-----------------------------------------------------------------------------
(* append_lap_index reads the file, finished or not, and adds its block at *)
(* the end of it, whatever is there.                                       *)
LapData == ReadOrNone(Session)

AppendLapIndex ==
  /\ Opens /\ Len(LapData) >= 2
  /\ Cardinality({n \in 1..Len(file) : file[n].kind = "LAPS"}) < MaxBlocks
  /\ AppendLaps(LapsToAppend(LapData))

Next == WriterNext \/ AppendLapIndex

Spec == Init /\ [][Next]_vars

-----------------------------------------------------------------------------
(* Properties.                                                             *)

(* A block behind a unit that is cut. *)
Damaged == \E n \in 1..(Size - 1) : ~Whole(n)

(* The frames in whole controls chunks. *)
DurableTicks ==
  {file[n].rows[Len(file[n].rows)].tick + 1 :
     n \in {m \in 1..Len(file) : WholeChunk(m) /\ file[m].cluster = Controls}}

Durable == Max({0} \cup DurableTicks)

(* read_all_frames zips the clusters by position: still every frame it     *)
(* returns is one that was written, in order, each cluster's sample its    *)
(* own or, behind the end of a cut file, zeros.  The clusters lag behind   *)
(* the controls by one chunk at most, and in a finished file by nothing.   *)
(* It is the same whether the entries come from the index that finish()    *)
(* wrote or are rebuilt by scan_chunks.                                    *)
ReadsRecording ==
  /\ HasFooter => Entries = ScanChunks
  /\ FramesReadable /\ ~Damaged =>
    \A c \in ToSet(Clusters) :
      LET read == FramesColumn(c)
      IN  /\ Len(read) = Durable
          /\ \A n \in 1..Len(read) :
               \/ read[n] = written[n]
               \/ read[n] = Default /\ c # Controls /\ n > Len(read) - ChunkRows
          /\ HasFooter => read = written

(* What lap_index() returns, once the LAPS block is there, cuts the frames *)
(* of the recording into laps: read_lap_frames of one entry after another  *)
(* gives every frame once, and an entry counts its frames.                 *)
LapsPartition ==
  FramesReadable /\ ~Damaged /\ LapIndex # << >> =>
    \A c \in ToSet(Clusters) :
      LET laps == [k \in 1..Len(LapIndex) |-> LapColumn(LapIndex[k], c)]
      IN  /\ FlattenSeq(laps) = FramesColumn(c)
          /\ \A k \in 1..Len(laps) : Len(laps[k]) = LapIndex[k].count /\ LapIndex[k].lap = k - 1

(* append_lap_index and aggregate_laps judge laps differently; but no lap  *)
(* that the outcome shows as valid is invalid in the file's lap index.     *)
ValidityAgrees ==
  Opens /\ ~Damaged /\ LapIndex # << >> =>
    \A k \in 1..Len(AggregateLaps) : AggregateLaps[k].valid => LapIndex[k].valid = 1

(* i_last_time changes when the car crosses the line: the time that        *)
(* aggregate_laps gives a lap is the one shown at the crossing which ends  *)
(* it, never that of the lap before.                                       *)
LapTimesAreOwn ==
  HasFooter =>
    \A k \in 1..(Len(AggregateLaps) - 1) :
      AggregateLaps[k].time = written[AggregateLaps[k].lap.last + 2].sample.last

(* What an outcome says of its laps is true.                               *)
OutcomesAreTrue == ValidityAgrees /\ LapTimesAreOwn

(* extract_lap_telemetry looks values up by tick: in one lap the n-th      *)
(* value of every field is from the n-th session sample, whether all laps  *)
(* are read or one; a cut file only shortens the columns.                  *)
ExtractsAlign ==
  Opens /\ ~ClusterFails(Session) =>
    LET s == ReadAll(Session)
    IN  \A k \in 1..LapCount(s) :
          LET lap == Lap(s, k)
              own == InTicks(s, lap.first, lap.last)
          IN  \A c \in ToSet(Clusters) :
                LET values == ExtractAll(c, s, lap)
                IN  /\ IsPrefix(values, own)
                    /\ HasFooter => values = own
                    /\ ExtractLap(c, s, lap) = values

(* A file is a log: every reader is given the frames of its whole controls *)
(* chunks, which are a prefix of what was written and only grow, or is     *)
(* refused; a finished file gives every reader all of them.  It is the     *)
(* promise of the V2 writer too.                                           *)
Log == INSTANCE FrameLog WITH
         Frame <- [tick : 0..(MaxFrames - 1), sample : Samples],
         log <- written,
         durable <- Durable,
         seen <- IF FramesReadable THEN Durable ELSE -1,
         sealed <- IF HasFooter THEN "yes" ELSE "no"

ImplementsLog == Log!LogSpec
=============================================================================
