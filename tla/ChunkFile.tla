----------------------------- MODULE ChunkFile -----------------------------
(***************************************************************************)
(* A V1 .acctlm file while BinaryTelemetryWriter writes it, and the LAPS   *)
(* block that append_lap_index adds to it later.                           *)
(*                                                                         *)
(* Frames are collected until chunk_rows of them are there; then every     *)
(* cluster of samples gets a chunk of its own, one after another.  finish  *)
(* adds the index and the footer and last of all makes the header point to *)
(* them.  There is no BufWriter: a process that dies, or a write that      *)
(* fails, leaves the file cut inside the unit of that moment.              *)
(*                                                                         *)
(* A row of a chunk is the frame it was taken from (ChunkColumns has the   *)
(* columns); file offsets are positions in the sequence of units; a        *)
(* chunk's sequence number is its place in the index.                      *)
(***************************************************************************)
EXTENDS Integers, Sequences

CONSTANTS
  Clusters,   \* the clusters in the order in which they are written
  ChunkRows,  \* chunk_rows: frames of a full chunk
  Samples,    \* what a frame may hold
  MaxFrames   \* bound: frames written

ASSUME ChunkAssumption ==
  /\ Clusters \in Seq(STRING) /\ Clusters # << >>
  /\ \A m, n \in 1..Len(Clusters) : Clusters[m] = Clusters[n] => m = n
  /\ ChunkRows \in Nat \ {0}
  /\ MaxFrames \in Nat

VARIABLES
  pc,             \* the call the process is in
  caller,         \* the call that flushes the clusters: "write", "flush" or "finish"
  frames,         \* frames waiting for their chunks
  todo,           \* units the call has still to write
  cut,            \* how much of the first of them is in the file
  file,           \* the units before it; a process that died left some of them cut
  footer_offset,  \* footer_offset in the file's header; 0 is none
  index_entries,  \* index_entries
  written         \* history: the frames write_frame was given

vars == <<pc, caller, frames, todo, cut, file, footer_offset, index_entries, written>>

(* A cluster, or none. *)
ClusterIds == {Clusters[n] : n \in 1..Len(Clusters)} \cup {""}

Frame == [tick : Nat, sample : Samples]
IndexEntry == [cluster : ClusterIds, at : Nat, first : Nat, last : Nat]
LapEntry == [lap : Nat, first : Nat, last : Nat, count : Nat, valid : {0, 1}, out : {0, 1}]

(* How much of a unit is in the file: nothing; less than its magic; less   *)
(* than its fixed header; its header and not all the rest; all but fewer   *)
(* bytes than a LAPS block has; all of it.                                 *)
Cuts == {"none", "stub", "head", "body", "tail", "whole"}
MoreOf == [none |-> "stub", stub |-> "head", head |-> "body", body |-> "tail"]

Unit == [kind : {"ACTL", "CHNK", "INDX", "LAPS"}, cut : Cuts, cluster : ClusterIds,
         rows : Seq(Frame), index : Seq(IndexEntry), laps : Seq(LapEntry)]

Preamble == [kind |-> "ACTL", cut |-> "whole", cluster |-> "",
             rows |-> << >>, index |-> << >>, laps |-> << >>]
Chunk(c, rows) == [kind |-> "CHNK", cut |-> "whole", cluster |-> c,
                   rows |-> rows, index |-> << >>, laps |-> << >>]
IndexAndFooter(entries) == [kind |-> "INDX", cut |-> "whole", cluster |-> "",
                            rows |-> << >>, index |-> entries, laps |-> << >>]
LapsBlock(laps) == [kind |-> "LAPS", cut |-> "whole", cluster |-> "",
                    rows |-> << >>, index |-> << >>, laps |-> laps]

(* create: header, schema and metadata are about to be written.  That the  *)
(* header is written twice changes nothing.                                *)
Init ==
  /\ pc = "create" /\ caller = "write"
  /\ frames = << >>
  /\ todo = <<Preamble>> /\ cut = "none"
  /\ file = << >> /\ footer_offset = 0
  /\ index_entries = << >>
  /\ written = << >>

-----------------------------------------------------------------------------
(* flush_all_clusters: the frames leave the buffer, then come the chunks.  *)
FlushAllClusters_Kept(rows, by) ==  \* Mutant: the frames stay in the buffer.
  /\ todo' = [n \in 1..Len(Clusters) |-> Chunk(Clusters[n], rows)]
  /\ frames' = rows
  /\ pc' = "flush" /\ caller' = by

FlushAllClusters(rows, by) ==
  /\ todo' = [n \in 1..Len(Clusters) |-> Chunk(Clusters[n], rows)]
  /\ frames' = << >>
  /\ pc' = "flush" /\ caller' = by

WriteFrame_Restarted ==  \* Mutant: every chunk numbers its frames from 0 on.
  /\ pc = "open" /\ Len(written) < MaxFrames
  /\ \E s \in Samples :
       LET f == [tick |-> Len(frames), sample |-> s]
           rows == Append(frames, f)
       IN  /\ written' = Append(written, f)
           /\ IF Len(rows) >= ChunkRows
              THEN FlushAllClusters(rows, "write")
              ELSE frames' = rows /\ UNCHANGED <<todo, pc, caller>>
  /\ UNCHANGED <<cut, file, footer_offset, index_entries>>

(* write_frame.  The raw recording that parse_raw_command reads numbers    *)
(* its frames from 0 on, and the number is the frame's tick.               *)
WriteFrame ==
  /\ pc = "open" /\ Len(written) < MaxFrames
  /\ \E s \in Samples :
       LET f == [tick |-> Len(written), sample |-> s]
           rows == Append(frames, f)
       IN  /\ written' = Append(written, f)
           /\ IF Len(rows) >= ChunkRows
              THEN FlushAllClusters(rows, "write")
              ELSE frames' = rows /\ UNCHANGED <<todo, pc, caller>>
  /\ UNCHANGED <<cut, file, footer_offset, index_entries>>

(* flush_to_disk; with no frames waiting it changes nothing. *)
FlushToDisk ==
  /\ pc = "open" /\ frames # << >>
  /\ FlushAllClusters(frames, "flush")
  /\ UNCHANGED <<cut, file, footer_offset, index_entries, written>>

(* finish() from its index on. *)
WriteFooter(entries) ==
  /\ todo' = <<IndexAndFooter(entries)>>
  /\ pc' = "footer"

Finish_Unflushed ==  \* Mutant: the frames in memory are forgotten.
  /\ pc = "open" /\ WriteFooter(index_entries)
  /\ UNCHANGED <<caller, frames, cut, file, footer_offset, index_entries, written>>

Finish ==
  /\ pc = "open"
  /\ IF frames # << >>
     THEN FlushAllClusters(frames, "finish")
     ELSE WriteFooter(index_entries) /\ UNCHANGED <<caller, frames>>
  /\ UNCHANGED <<cut, file, footer_offset, index_entries, written>>

(* Some more bytes of the next unit reach the file. *)
Writing == pc \in {"create", "flush", "footer", "laps"} /\ todo # << >>

WritePiece ==
  /\ Writing
  /\ cut # "tail" /\ cut' = MoreOf[cut]
  /\ UNCHANGED <<pc, caller, frames, todo, file, footer_offset, index_entries, written>>

(* write_chunk's entry for the chunk it has written at this position. *)
EntryOf_Relative(n, c) ==  \* Mutant: positions are counted from the end of the header block.
  [cluster |-> c.cluster, at |-> n - 1, first |-> c.rows[1].tick,
   last |-> c.rows[Len(c.rows)].tick]

EntryOf(n, c) == [cluster |-> c.cluster, at |-> n, first |-> c.rows[1].tick,
                  last |-> c.rows[Len(c.rows)].tick]

(* The unit is complete.  The call goes on with the next one, returns, or  *)
(* in finish() comes to the index or to the header.                        *)
WriteUnit ==
  /\ Writing
  /\ file' = Append(file, todo[1]) /\ cut' = "none"
  /\ index_entries' = IF todo[1].kind = "CHNK"
                      THEN Append(index_entries, EntryOf(Len(file) + 1, todo[1]))
                      ELSE index_entries
  /\ IF Len(todo) > 1
     THEN todo' = Tail(todo) /\ UNCHANGED pc
     ELSE IF pc = "flush" /\ caller = "finish"
     THEN WriteFooter(index_entries')
     ELSE /\ todo' = << >>
          /\ pc' = CASE pc \in {"create", "flush"} -> "open"
                     [] pc = "footer" -> "patch"
                     [] pc = "laps" -> IF footer_offset # 0 THEN "finished" ELSE "dead"
  /\ UNCHANGED <<caller, frames, footer_offset, written>>

(* The header once more, now with the offset of the index. *)
PatchHeader ==
  /\ pc = "patch"
  /\ footer_offset' = Len(file)
  /\ pc' = "finished"
  /\ UNCHANGED <<caller, frames, todo, cut, file, index_entries, written>>

(* What is in the file at this moment. *)
Contents == IF cut = "none" THEN file ELSE Append(file, [todo[1] EXCEPT !.cut = cut])
Size == IF cut = "none" THEN Len(file) ELSE Len(file) + 1
At(n) == IF n <= Len(file) THEN file[n] ELSE [todo[1] EXCEPT !.cut = cut]

(* The process dies, or a write fails and parse_raw_command gives up.      *)
Dies ==
  /\ pc \in {"create", "open", "flush", "footer", "patch", "laps"}
  /\ pc' = IF footer_offset # 0 THEN "finished" ELSE "dead"
  /\ file' = Contents /\ cut' = "none" /\ todo' = << >>
  /\ frames' = << >>
  /\ UNCHANGED <<caller, footer_offset, index_entries, written>>

(* append_lap_index writes its block at the end of a file nobody writes.   *)
AppendLaps(laps) ==
  /\ pc \in {"finished", "dead"}
  /\ todo' = <<LapsBlock(laps)>>
  /\ pc' = "laps"
  /\ UNCHANGED <<caller, frames, cut, file, footer_offset, index_entries, written>>

WriterNext ==
  \/ WriteFrame \/ FlushToDisk \/ Finish
  \/ WritePiece \/ WriteUnit \/ PatchHeader \/ Dies

(* Whatever laps are appended; ChunkReader says which.                     *)
FileNext == WriterNext \/ \E laps \in Seq(LapEntry) : AppendLaps(laps)
FileSpec == Init /\ [][FileNext]_vars

-----------------------------------------------------------------------------
(* Properties.                                                             *)

TypeOK ==
  /\ pc \in {"create", "open", "flush", "footer", "patch", "finished", "laps", "dead"}
  /\ caller \in {"write", "flush", "finish"}
  /\ frames \in Seq(Frame) /\ written \in Seq(Frame)
  /\ todo \in Seq(Unit) /\ file \in Seq(Unit)
  /\ cut \in Cuts \ {"whole"}
  /\ footer_offset \in Nat
  /\ index_entries \in Seq(IndexEntry)

(* A chunk holds frames that were written, from its first tick on without  *)
(* a gap: flush_all_clusters takes the frames out of the buffer before it  *)
(* encodes them, and write_frame, flush_to_disk and finish() all call it.  *)
HoldsFrames(c) ==
  /\ c.rows # << >>
  /\ \A k \in 1..Len(c.rows) :
       /\ c.rows[1].tick + k <= Len(written)
       /\ c.rows[k] = written[c.rows[1].tick + k]

ChunksHoldFrames ==
  \A n \in 1..Len(file) : file[n].kind = "CHNK" => HoldsFrames(file[n])

(* write_chunk's index: every entry is that of a whole chunk, and every    *)
(* whole chunk has an entry, in the order of the file.  A header that      *)
(* points anywhere points to this index, whole, behind all the chunks.     *)
WholeChunk(n) == n \in 1..Len(file) /\ file[n].kind = "CHNK" /\ file[n].cut = "whole"

EntriesAreTrue ==
  \A n \in 1..Len(index_entries) :
    LET at == index_entries[n].at
    IN  /\ WholeChunk(at)
        /\ index_entries[n] = EntryOf(at, file[at])
        /\ n > 1 => index_entries[n - 1].at < at

ChunksHaveEntries ==
  \A m \in 1..Len(file) :
    WholeChunk(m) => \E n \in 1..Len(index_entries) : index_entries[n].at = m

HeaderIsTrue ==
  footer_offset # 0 => /\ footer_offset \in 1..Len(file)
                       /\ file[footer_offset] = IndexAndFooter(index_entries)

IndexIsTrue == EntriesAreTrue /\ ChunksHaveEntries /\ HeaderIsTrue
=============================================================================
