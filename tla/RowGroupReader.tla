--------------------------- MODULE RowGroupReader ---------------------------
(***************************************************************************)
(* BinaryTelemetryReaderV2 on a RowGroupFile: what read_all_frames, the    *)
(* reads of a range of ticks and read_lap_frames return, through the skip  *)
(* index of a finished file or the headers of an unfinished one.           *)
(*                                                                         *)
(* A row that was read gives, for each group, the frame its columns are    *)
(* from; NoValue stands for the zeros of a column that has no such row.    *)
(* A read is answered with rows or with an error.                          *)
(***************************************************************************)
EXTENDS RowGroupFile, SequencesExt

NoValue == [tick |-> -1, lap |-> -1]
Ok(rows) == [ok |-> TRUE, rows |-> rows]
Err == [ok |-> FALSE, rows |-> << >>]

SkipEntries == IF HasFooter THEN stream[footer_offset].skip ELSE {}
LapEntries == IF HasFooter THEN stream[footer_offset].laps ELSE << >>

(* The row groups whose header says that they overlap the range: without   *)
(* an entry of the skip index all headers are read.                        *)
FromHeaders(s, e) ==
  {i \in Scanned : Rows(i)[1].tick <= e /\ Rows(i)[Len(Rows(i))].tick >= s}

(* Mutant: a row group that only touches the range is left out.            *)
EntriesFor_Inside(g, s, e) == {x \in SkipEntries : x.group = g /\ x.first < e /\ x.last > s}

(* The entries of a group that overlap the range.                          *)
EntriesFor(g, s, e) == {x \in SkipEntries : x.group = g /\ x.first <= e /\ x.last >= s}

(* The row groups that read_group_frames reads for a group.                *)
RowGroupsFor(g, s, e) ==
  IF EntriesFor(g, s, e) = {} THEN FromHeaders(s, e)
  ELSE {x.index + 2 : x \in EntriesFor(g, s, e)} \cap Scanned

(* read_group_frames leaves FrameMeta out of its answer when there is      *)
(* neither an entry nor a row group to read.                               *)
MetaMissing(s, e) == EntriesFor(Meta, s, e) = {} /\ Scanned = {}

(* A group's column, its row groups one after another. *)
Column(g, s, e) ==
  LET chosen == RowGroupsFor(g, s, e)
  IN  FlattenSeq([i \in 1..ondisk |-> IF i \in chosen THEN stream[i].columns[g] ELSE << >>])

(* The rows to keep of every group: the ticks of the FrameMeta column say. *)
KeptRows(s, e) ==
  LET ticks == Column(Meta, s, e)
  IN  FlattenSeq([k \in 1..Len(ticks) |->
                    IF s <= ticks[k].tick /\ ticks[k].tick <= e THEN <<k>> ELSE << >>])

(* What a row number gives for a group; zeros past the column's end. *)
Value(g, k, s, e) ==
  LET col == Column(g, s, e) IN IF k <= Len(col) THEN col[k] ELSE NoValue

(* The columns of a range, row by row. *)
Rebuilt(gs, s, e) ==
  LET kept == KeptRows(s, e)
  IN  [n \in 1..Len(kept) |-> [g \in gs |-> Value(g, kept[n], s, e)]]

(* The reads of a range of ticks (reconstruct_from_groups) refuse one that *)
(* no row group overlaps: there is no FrameMeta column, not even an empty  *)
(* one.                                                                    *)
ReadRange(gs, s, e) ==
  IF Column(Meta, s, e) = << >> THEN Err ELSE Ok(Rebuilt(gs, s, e))

(* read_all_frames refuses a file without a row group.                     *)
AllTicks == FirstTick + MaxFrames
ReadAll == IF MetaMissing(0, AllTicks) THEN Err ELSE Ok(Rebuilt(Groups, 0, AllTicks))

(* read_lap_frames takes the first entry of the lap. *)
ReadLap(lap) ==
  LET found == {n \in 1..Len(LapEntries) : LapEntries[n].lap = lap}
      entry == LapEntries[CHOOSE n \in found : \A m \in found : n <= m]
  IN  IF found = {} \/ MetaMissing(entry.first, entry.last) THEN Err
      ELSE Ok(Rebuilt(Groups, entry.first, entry.last))

-----------------------------------------------------------------------------
(* Frames of the recording, as a reader of the groups gs should give them. *)
Expected(gs, from, to) ==
  [n \in 1..(to - from + 1) |-> [g \in gs |-> written[from + n - 1]]]

(* A reader is given the frames of the whole row groups, all columns of a  *)
(* row from one frame, whenever it opens the file, and an error if there   *)
(* is no whole row group: scan_row_groups and read_group_frames never      *)
(* return part of one.                                                     *)
ReadsThePrefix ==
  Opens => ReadAll = IF Durable = 0 THEN Err ELSE Ok(Expected(Groups, 1, Durable))

(* The reads of a range agree with read_all_frames, whichever groups they  *)
(* read, and whether the skip index or the headers chose the row groups;   *)
(* they refuse exactly the ranges that start behind the file's last frame. *)
Cap(n) == IF n < Durable THEN n ELSE Durable
RangesAgree ==
  Opens => \A gs \in {{Meta, g} : g \in Groups} :
             \A from \in 1..MaxFrames : \A to \in from..MaxFrames :
               ReadRange(gs, Tick(from), Tick(to)) =
                 IF from > Durable THEN Err ELSE Ok(Expected(gs, from, Cap(to)))

(* In a finished file read_lap_frames returns the first stint of the lap,  *)
(* all of it and nothing of its neighbours, and an error for a lap that    *)
(* was not driven.                                                         *)
StintOf(lap) ==
  LET at == {n \in 1..Len(written) : written[n].lap = lap}
      from == CHOOSE n \in at : \A m \in at : n <= m
      to == CHOOSE n \in at : /\ \A m \in from..n : m \in at
                              /\ n + 1 \notin at
  IN  IF at = {} THEN Err ELSE Ok(Expected(Groups, from, to))

LapsAreRead == pc = "finished" => \A lap \in Laps : ReadLap(lap) = StintOf(lap)

(* The readers of a part of the file agree with the reader of all of it.   *)
PartsAreRead == RangesAgree /\ LapsAreRead
=============================================================================
