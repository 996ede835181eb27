---------------------------- MODULE RowGroupFile ----------------------------
(***************************************************************************)
(* A .acctlm2 file while BinaryTelemetryWriterV2 writes it, and what       *)
(* BinaryTelemetryReaderV2 finds when it opens the file at that moment.    *)
(*                                                                         *)
(* The writer hands units to its BufWriter: the header with schema and     *)
(* metadata, row groups, the footer with its indexes.  They reach the file *)
(* in order but not in one piece, so the file is a prefix of the stream,   *)
(* usually cut inside a unit.  A process may die anywhere: every state of  *)
(* the model is a file a crash can leave, and an invariant about the file  *)
(* says what is found after the crash.                                     *)
(*                                                                         *)
(* A row group holds, for each access group, the rows of its columns; a    *)
(* row is the frame it was taken from.  Byte offsets are positions in the  *)
(* stream.  The validity and out-lap flags of the lap index are left out.  *)
(***************************************************************************)
EXTENDS Integers, Sequences

CONSTANTS
  Groups,     \* access groups
  Meta,       \* the group that holds the ticks (FrameMeta)
  ChunkRows,  \* chunk_rows: frames of a full row group
  Laps,       \* what completed_laps + 1 may be
  FirstTick,  \* tick of the first frame
  MaxFrames   \* bound: frames written

ASSUME FileAssumption ==
  /\ Meta \in Groups
  /\ ChunkRows \in Nat
  /\ Laps \subseteq Int
  /\ FirstTick \in Nat
  /\ MaxFrames \in Nat

VARIABLES
  pc,             \* the call the writer is in
  caller,         \* the call that flushes a row group: "write", "flush" or "finish"
  buffer,         \* frames of the row group in memory
  stream,         \* units handed to the BufWriter
  ondisk,         \* how many of them are wholly in the file
  cut,            \* how much of the next one is there
  footer_at,      \* where finish() puts the footer
  footer_offset,  \* footer_offset in the file's header; 0 is none
  groups_written, \* row_group_count
  skip,           \* skip_entries
  laps,           \* lap_entries
  current,        \* current_lap, lap_start_tick, lap_sample_count
  written         \* history: the frames write_frame was given

lapVars == <<laps, current>>
fileVars == <<ondisk, cut, footer_offset>>
vars == <<pc, caller, buffer, stream, fileVars, footer_at, groups_written, skip,
          lapVars, written>>

Frame == [tick : Nat, lap : Int]
SkipEntry == [group : Groups, first : Nat, last : Nat, index : Nat]
LapEntry == [lap : Int, first : Nat, last : Int, count : Nat]

(* current_lap is None while count is 0. *)
Current == [lap : Int, first : Nat, count : Nat]
NoLap == [lap |-> 0, first |-> 0, count |-> 0]

(* The kinds of units are their magics. *)
Unit == [kind : {"ACT2", "RGHD", "FTR2"}, columns : [Groups -> Seq(Frame)],
         skip : SUBSET SkipEntry, laps : Seq(LapEntry)]

NoColumns == [g \in Groups |-> << >>]
Preamble == [kind |-> "ACT2", columns |-> NoColumns, skip |-> {}, laps |-> << >>]

RowGroup(rows) == [kind |-> "RGHD", columns |-> [g \in Groups |-> rows],
                   skip |-> {}, laps |-> << >>]
Footer(entries, index) == [kind |-> "FTR2", columns |-> NoColumns,
                           skip |-> entries, laps |-> index]

(* A unit in the file: nothing of it, less than its magic, less than its   *)
(* header, the header but not all the data.                                *)
CutOrder == <<"none", "stub", "head", "body">>
Cuts == {"none", "stub", "head", "body"}
Beyond(c, d) == \E i, j \in 1..4 : i < j /\ CutOrder[i] = c /\ CutOrder[j] = d

(* create_file has handed over header, schema and metadata. *)
Init ==
  /\ pc = "create" /\ caller = "write"
  /\ buffer = << >>
  /\ stream = <<Preamble>>
  /\ ondisk = 0 /\ cut = "none" /\ footer_offset = 0
  /\ footer_at = 0
  /\ groups_written = 0
  /\ skip = {} /\ laps = << >> /\ current = NoLap
  /\ written = << >>

-----------------------------------------------------------------------------
(* flush_row_group up to its writer.flush(): the rows leave the buffer     *)
(* before anything is written.                                             *)
FlushRowGroup_Kept(rows, by) ==  \* Mutant: the rows stay in the buffer.
  /\ stream' = Append(stream, RowGroup(rows))
  /\ skip' = skip \cup {[group |-> g, first |-> rows[1].tick, last |-> rows[Len(rows)].tick,
                         index |-> groups_written] : g \in Groups}
  /\ buffer' = rows
  /\ pc' = "rowgroup" /\ caller' = by

FlushRowGroup(rows, by) ==
  /\ stream' = Append(stream, RowGroup(rows))
  /\ skip' = skip \cup {[group |-> g, first |-> rows[1].tick, last |-> rows[Len(rows)].tick,
                         index |-> groups_written] : g \in Groups}
  /\ buffer' = << >>
  /\ pc' = "rowgroup" /\ caller' = by

(* The lap bookkeeping at the head of write_frame. *)
Closed(last) == [lap |-> current.lap, first |-> current.first, last |-> last,
                 count |-> current.count]

CountLap_Overlapping(f) ==  \* Mutant: a lap ends with the first tick of the next.
  IF current.count > 0 /\ current.lap = f.lap
  THEN /\ current' = [current EXCEPT !.count = @ + 1]
       /\ UNCHANGED laps
  ELSE /\ current' = [lap |-> f.lap, first |-> f.tick, count |-> 1]
       /\ laps' = IF current.count = 0 THEN laps ELSE Append(laps, Closed(f.tick))

CountLap(f) ==
  IF current.count > 0 /\ current.lap = f.lap
  THEN /\ current' = [current EXCEPT !.count = @ + 1]
       /\ UNCHANGED laps
  ELSE /\ current' = [lap |-> f.lap, first |-> f.tick, count |-> 1]
       /\ laps' = IF current.count = 0 THEN laps ELSE Append(laps, Closed(f.tick - 1))

WriteFrame ==
  /\ pc = "open" /\ Len(written) < MaxFrames
  /\ \E lap \in Laps :
       LET f == [tick |-> FirstTick + Len(written), lap |-> lap]
           rows == Append(buffer, f)
       IN  /\ CountLap(f)
           /\ written' = Append(written, f)
           /\ IF Len(rows) >= ChunkRows
              THEN FlushRowGroup(rows, "write")
              ELSE buffer' = rows /\ UNCHANGED <<stream, skip, pc, caller>>
  /\ UNCHANGED <<fileVars, footer_at, groups_written>>

(* flush(); with an empty buffer it changes nothing. *)
Flush ==
  /\ pc = "open" /\ buffer # << >>
  /\ FlushRowGroup(buffer, "flush")
  /\ UNCHANGED <<fileVars, footer_at, groups_written, lapVars, written>>

(* finish() from its lap index on.  The length of the file is the footer's *)
(* offset, so nothing may be left in the BufWriter.                        *)
WriteFooter ==
  /\ laps' = IF current.count = 0 THEN laps
             ELSE Append(laps, Closed(current.first + current.count - 1))
  /\ footer_at' = ondisk + 1
  /\ stream' = Append(stream, Footer(skip, laps'))
  /\ pc' = "footer"
  /\ UNCHANGED <<caller, skip, current, written, fileVars>>

Finish_Unflushed ==  \* Mutant: the rows in memory are forgotten.
  /\ pc = "open" /\ WriteFooter
  /\ UNCHANGED <<buffer, groups_written>>

Finish ==
  /\ pc = "open"
  /\ \/ /\ buffer # << >>
        /\ FlushRowGroup(buffer, "finish")
        /\ UNCHANGED <<footer_at, lapVars, written, fileVars>>
     \/ buffer = << >> /\ WriteFooter /\ UNCHANGED buffer
  /\ UNCHANGED groups_written

(* Bytes go from the BufWriter to the file.  A writer that was dropped     *)
(* after an error still tries to empty its buffer.                         *)
WriteOut ==
  /\ pc \in {"create", "rowgroup", "footer", "failed"}
  /\ ondisk < Len(stream)
  /\ \/ cut' \in {c \in Cuts : Beyond(cut, c)} /\ UNCHANGED ondisk
     \/ ondisk' = ondisk + 1 /\ cut' = "none"
  /\ UNCHANGED <<pc, caller, buffer, stream, footer_offset, footer_at, groups_written,
                 skip, lapVars, written>>

Emptied == ondisk = Len(stream)

Created ==
  /\ pc = "create" /\ Emptied
  /\ pc' = "open"
  /\ UNCHANGED <<caller, buffer, stream, fileVars, footer_at, groups_written, skip,
                 lapVars, written>>

(* flush_row_group returns, to finish() or to the caller of the writer. *)
RowGroupWritten_Uncounted ==  \* Mutant: row_group_count is not increased.
  /\ pc = "rowgroup" /\ Emptied
  /\ IF caller = "finish"
     THEN WriteFooter
     ELSE pc' = "open" /\ UNCHANGED <<caller, stream, skip, lapVars, footer_at, written, fileVars>>
  /\ UNCHANGED <<buffer, groups_written>>

RowGroupWritten ==
  /\ pc = "rowgroup" /\ Emptied
  /\ groups_written' = groups_written + 1
  /\ IF caller = "finish"
     THEN WriteFooter
     ELSE pc' = "open" /\ UNCHANGED <<caller, stream, skip, lapVars, footer_at, written, fileVars>>
  /\ UNCHANGED buffer

FooterWritten ==
  /\ pc = "footer" /\ Emptied
  /\ pc' = "patch"
  /\ UNCHANGED <<caller, buffer, stream, fileVars, footer_at, groups_written, skip,
                 lapVars, written>>

(* The header once more, now with the footer's offset. *)
PatchHeader ==
  /\ pc = "patch"
  /\ footer_offset' = footer_at
  /\ pc' = "finished"
  /\ UNCHANGED <<caller, buffer, stream, ondisk, cut, footer_at, groups_written, skip,
                 lapVars, written>>

(* A write returns an error; every caller in the code then drops the      *)
(* writer.  The header's last fields may fail after the footer's offset.   *)
WriteFails ==
  /\ pc \in {"create", "rowgroup", "footer", "patch"}
  /\ pc' = "failed"
  /\ footer_offset' \in {footer_offset} \cup (IF pc = "patch" THEN {footer_at} ELSE {})
  /\ UNCHANGED <<caller, buffer, stream, ondisk, cut, footer_at, groups_written, skip,
                 lapVars, written>>

Next ==
  \/ WriteFrame \/ Flush \/ Finish
  \/ WriteOut \/ Created \/ RowGroupWritten \/ FooterWritten \/ PatchHeader
  \/ WriteFails

Spec == Init /\ [][Next]_vars

-----------------------------------------------------------------------------
(* parse_file_content at this moment.                                      *)

HasFooter == footer_offset \in 1..ondisk

FooterFails ==
  \/ HasFooter /\ stream[footer_offset].kind # "FTR2"
  \/ footer_offset = ondisk + 1 /\ cut = "body"

(* scan_row_groups: the row groups in the file, up to the first unit that  *)
(* is none, as positions in the stream.                                    *)
Scanned == {i \in 2..ondisk : \A j \in 2..i : stream[j].kind = "RGHD"}

ScanFails ==
  /\ cut \in {"head", "body"}
  /\ \A j \in 2..(ondisk + 1) : stream[j].kind = "RGHD"

Opens == ondisk >= 1 /\ ~FooterFails /\ ~ScanFails

-----------------------------------------------------------------------------
(* Properties.                                                             *)

TypeOK ==
  /\ pc \in {"create", "open", "rowgroup", "footer", "patch", "finished", "failed"}
  /\ caller \in {"write", "flush", "finish"}
  /\ buffer \in Seq(Frame) /\ written \in Seq(Frame)
  /\ stream \in Seq(Unit)
  /\ ondisk \in 0..Len(stream) /\ cut \in Cuts
  /\ footer_at \in Nat /\ footer_offset \in Nat
  /\ groups_written \in Nat
  /\ skip \subseteq SkipEntry /\ laps \in Seq(LapEntry) /\ current \in Current

(* Frame number n, counted from 1, has this tick. *)
Tick(n) == FirstTick + n - 1

(* The row group at position i of the stream, and the number of frames in  *)
(* the row groups up to it.                                                *)
Rows(i) == stream[i].columns[Meta]
Recorded(i) == IF i < 2 THEN 0 ELSE Rows(i)[Len(Rows(i))].tick - FirstTick + 1

(* flush_row_group takes the buffer before it encodes it: the row groups   *)
(* hold the frames that were written, each once and in order, and every    *)
(* column of a row is from the same frame.                                 *)
HoldsFrames(i) ==
  /\ Len(Rows(i)) > 0
  /\ \A g \in Groups : stream[i].columns[g] = Rows(i)
  /\ Recorded(i) = Recorded(i - 1) + Len(Rows(i))
  /\ \A k \in 1..Len(Rows(i)) : Rows(i)[k] = written[Recorded(i - 1) + k]

RowGroupsHoldFrames ==
  \A i \in 2..Len(stream) : stream[i].kind = "RGHD" => HoldsFrames(i)

(* write_frame and finish keep the lap index: its entries follow one       *)
(* another from the first frame on, without a gap; each is one stint of    *)
(* one lap and counts its frames; in a finished file they reach the last.  *)
LapsFollow ==
  \A n \in 1..Len(laps) :
    /\ laps[n].first = (IF n = 1 THEN FirstTick ELSE laps[n - 1].last + 1)
    /\ laps[n].count > 0
    /\ laps[n].last = laps[n].first + laps[n].count - 1
    /\ n > 1 => laps[n].lap # laps[n - 1].lap

LapsMatch ==
  \A n \in 1..Len(laps) : \A k \in 1..Len(written) :
    Tick(k) \in laps[n].first..laps[n].last => written[k].lap = laps[n].lap

LapsReach ==
  pc = "finished" =>
    IF written = << >> THEN laps = << >>
    ELSE laps # << >> /\ laps[Len(laps)].last = Tick(Len(written))

LapIndexExact == LapsFollow /\ LapsMatch /\ LapsReach

(* The frames in whole row groups of the file. *)
Durable ==
  Recorded(IF ondisk > 0 /\ stream[ondisk].kind = "FTR2" THEN ondisk - 1 ELSE ondisk)

(* The file is a log: what is in whole row groups is a prefix of what was  *)
(* written and stays there, and a finished file is open to every reader.   *)
Log == INSTANCE FrameLog WITH
         Frame <- [tick : Tick(1)..Tick(MaxFrames), lap : Laps],
         log <- written,
         durable <- Durable,
         seen <- IF Opens THEN Durable ELSE -1,
         sealed <- IF pc = "finished" THEN "yes" ELSE "no"

ImplementsLog == Log!LogSpec

=============================================================================
