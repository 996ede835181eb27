------------------------ MODULE FileConverter_proofs ------------------------
(***************************************************************************)
(* Proofs about ChunkFile, its readers and the converter, for any          *)
(* clusters, chunk size and laps.                                          *)
(*                                                                         *)
(* The file comes first: Shape relates the units still to write to the     *)
(* control point; Frames the chunks and the frames in memory to what was   *)
(* written; the index follows from both.  The layout of a file that is     *)
(* being written, and how far its controls chunks reach, are invariants on *)
(* top of that.  That a greatest durable tick exists is one of them, since *)
(* it grows step by step; so the file is a log (FrameLog).  LanesInv       *)
(* follows each cluster through the index, and how far one lags behind     *)
(* another: what read_all_frames puts together rests on it, and with that  *)
(* the conversion and the extracts of laps.  LapsInv says which laps are   *)
(* behind the footer of a file that append_lap_index was called for; for   *)
(* that one, Spec is shown to implement FileSpec, which appends any laps.  *)
(* The metadata block and the tables of columns come last; they need no    *)
(* state.                                                                  *)
(***************************************************************************)
EXTENDS FileConverter, SequenceLemmas

-----------------------------------------------------------------------------
(* The file.                                                               *)

LEMMA AppendShape ==
  ASSUME NEW S, NEW s \in Seq(S), NEW e \in S
  PROVE  /\ Append(s, e) \in Seq(S)
         /\ Len(Append(s, e)) = Len(s) + 1 /\ Len(s) \in Nat
         /\ \A i \in 1..Len(s) : Append(s, e)[i] = s[i]
         /\ Append(s, e)[Len(s) + 1] = e
  OBVIOUS

LEMMA TailShape ==
  ASSUME NEW S, NEW s \in Seq(S), Len(s) > 1
  PROVE  /\ Tail(s) \in Seq(S) /\ Len(Tail(s)) = Len(s) - 1 /\ Len(s) \in Nat
         /\ \A i \in 1..Len(Tail(s)) : Tail(s)[i] = s[i + 1] /\ i + 1 \in 1..Len(s)
  OBVIOUS

LEMMA EmptyShape == ASSUME NEW S PROVE << >> \in Seq(S) /\ Len(<< >>) = 0
  OBVIOUS

LEMMA NotEmpty == ASSUME NEW S, NEW s \in Seq(S), s # << >>
                  PROVE  Len(s) \in Nat \ {0} /\ 1 \in 1..Len(s) /\ Len(s) \in 1..Len(s)
  OBVIOUS

LEMMA SingleShape == ASSUME NEW S, NEW e \in S
                     PROVE  /\ <<e>> \in Seq(S) /\ Len(<<e>>) = 1 /\ <<e>>[1] = e
                            /\ <<e>> # << >>
  OBVIOUS

LEMMA FunctionShape ==
  ASSUME NEW S, NEW n \in Nat \ {0}, NEW f, f = [i \in 1..n |-> f[i]],
         \A i \in 1..n : f[i] \in S
  PROVE  f \in Seq(S) /\ Len(f) = n /\ f # << >>
  OBVIOUS

-----------------------------------------------------------------------------
(* Types.                                                                  *)

LEMMA ChunkType ==
  ASSUME NEW c \in ClusterIds, NEW rows \in Seq(Frame)
  PROVE  /\ Chunk(c, rows) \in Unit /\ Chunk(c, rows).kind = "CHNK"
         /\ Chunk(c, rows).rows = rows /\ Chunk(c, rows).cut = "whole"
<1>1. << >> \in Seq(IndexEntry) /\ << >> \in Seq(LapEntry)
  BY EmptyShape
<1> QED
  BY <1>1 DEF Chunk, Unit, Cuts

LEMMA IndexType ==
  ASSUME NEW entries \in Seq(IndexEntry)
  PROVE  /\ IndexAndFooter(entries) \in Unit /\ IndexAndFooter(entries).kind = "INDX"
         /\ IndexAndFooter(entries).cut = "whole"
<1>1. << >> \in Seq(Frame) /\ << >> \in Seq(LapEntry)
  BY EmptyShape
<1> QED
  BY <1>1 DEF IndexAndFooter, Unit, Cuts, ClusterIds

LEMMA LapsType ==
  ASSUME NEW laps \in Seq(LapEntry)
  PROVE  /\ LapsBlock(laps) \in Unit /\ LapsBlock(laps).kind = "LAPS"
         /\ LapsBlock(laps).cut = "whole"
<1>1. << >> \in Seq(Frame) /\ << >> \in Seq(IndexEntry)
  BY EmptyShape
<1> QED
  BY <1>1 DEF LapsBlock, Unit, Cuts, ClusterIds

LEMMA PreambleType ==
  Preamble \in Unit /\ Preamble.kind = "ACTL" /\ Preamble.cut = "whole"
<1>1. << >> \in Seq(Frame) /\ << >> \in Seq(IndexEntry) /\ << >> \in Seq(LapEntry)
  BY EmptyShape
<1> QED
  BY <1>1 DEF Preamble, Unit, Cuts, ClusterIds

LEMMA CutType ==
  ASSUME NEW u \in Unit, NEW c \in Cuts
  PROVE  /\ [u EXCEPT !.cut = c] \in Unit
         /\ [u EXCEPT !.cut = c].cut = c
         /\ [u EXCEPT !.cut = c].kind = u.kind
         /\ [u EXCEPT !.cut = c].rows = u.rows
  BY DEF Unit

LEMMA EntryType ==
  ASSUME NEW n \in Nat, NEW c \in Unit, c.rows # << >>
  PROVE  EntryOf(n, c) \in IndexEntry /\ EntryOf(n, c).at = n
<1>1. c.rows \in Seq(Frame) /\ c.cluster \in ClusterIds
  BY DEF Unit
<1>2. c.rows[1] \in Frame /\ c.rows[Len(c.rows)] \in Frame
  BY <1>1, NotEmpty
<1>3. c.rows[1].tick \in Nat /\ c.rows[Len(c.rows)].tick \in Nat
  BY <1>2 DEF Frame
<1> QED
  BY <1>1, <1>3 DEF EntryOf, IndexEntry

-----------------------------------------------------------------------------
(* Chunks and frames.  c is a unit, w the frames written, b those in       *)
(* memory.                                                                 *)

HoldsIn(c, w) ==
  /\ c.rows # << >>
  /\ \A k \in 1..Len(c.rows) :
       c.rows[1].tick + k <= Len(w) /\ c.rows[k] = w[c.rows[1].tick + k]

Ticked(w) == \A k \in 1..Len(w) : w[k].tick = k - 1

(* The frames in memory are the last ones written. *)
Waiting(b, w) ==
  /\ Len(b) <= Len(w)
  /\ \A k \in 1..Len(b) : b[k] = w[Len(w) - Len(b) + k]

Chunks(s, w) == \A n \in 1..Len(s) : s[n].kind = "CHNK" => HoldsIn(s[n], w)

LEMMA HoldsMore ==
  ASSUME NEW c \in Unit, NEW w \in Seq(Frame), NEW f \in Frame, HoldsIn(c, w)
  PROVE  HoldsIn(c, Append(w, f))
<1>1. c.rows \in Seq(Frame)
  BY DEF Unit
<1>2. c.rows[1] \in Frame
  BY <1>1, NotEmpty DEF HoldsIn
<1>3. c.rows[1].tick \in Nat
  BY <1>2 DEF Frame
<1>4. ASSUME NEW k \in 1..Len(c.rows)
      PROVE  /\ c.rows[1].tick + k <= Len(Append(w, f))
             /\ c.rows[k] = Append(w, f)[c.rows[1].tick + k]
  <2>1. c.rows[1].tick + k <= Len(w) /\ c.rows[k] = w[c.rows[1].tick + k]
    BY DEF HoldsIn
  <2>2. k \in Nat \ {0} /\ Len(w) \in Nat
    BY <1>1
  <2>3. c.rows[1].tick + k \in 1..Len(w)
    BY <1>3, <2>1, <2>2
  <2> QED
    BY <1>3, <2>1, <2>2, <2>3, AppendShape
<1> QED
  BY <1>4 DEF HoldsIn

LEMMA ChunksMore ==
  ASSUME NEW s \in Seq(Unit), NEW w \in Seq(Frame), NEW f \in Frame, Chunks(s, w)
  PROVE  Chunks(s, Append(w, f))
<1>1. \A n \in 1..Len(s) : s[n] \in Unit
  OBVIOUS
<1> QED
  BY <1>1, HoldsMore DEF Chunks

LEMMA WaitingMore ==
  ASSUME NEW b \in Seq(Frame), NEW w \in Seq(Frame), NEW f \in Frame,
         Waiting(b, w), Ticked(w), f.tick = Len(w)
  PROVE  Waiting(Append(b, f), Append(w, f)) /\ Ticked(Append(w, f))
<1>1. Len(b) \in Nat /\ Len(w) \in Nat /\ Len(b) <= Len(w)
  BY DEF Waiting
<1>2. /\ Len(Append(b, f)) = Len(b) + 1 /\ Len(Append(w, f)) = Len(w) + 1
      /\ Append(b, f)[Len(b) + 1] = f /\ Append(w, f)[Len(w) + 1] = f
      /\ \A i \in 1..Len(b) : Append(b, f)[i] = b[i]
      /\ \A i \in 1..Len(w) : Append(w, f)[i] = w[i]
  BY AppendShape
<1>3. ASSUME NEW k \in 1..(Len(b) + 1)
      PROVE  Append(b, f)[k] = Append(w, f)[Len(w) - Len(b) + k]
  <2>1. CASE k = Len(b) + 1
    <3>1. Len(w) - Len(b) + k = Len(w) + 1
      BY <1>1, <2>1
    <3> QED
      BY <1>2, <2>1, <3>1
  <2>2. CASE k \in 1..Len(b)
    <3>1. Len(w) - Len(b) + k \in 1..Len(w)
      BY <1>1, <2>2
    <3>2. b[k] = w[Len(w) - Len(b) + k]
      BY <2>2 DEF Waiting
    <3> QED
      BY <1>2, <2>2, <3>1, <3>2
  <2> QED
    BY <1>1, <2>1, <2>2
<1>4. \A k \in 1..(Len(b) + 1) :
        Append(b, f)[k] = Append(w, f)[(Len(w) + 1) - (Len(b) + 1) + k]
  <2>1. (Len(w) + 1) - (Len(b) + 1) = Len(w) - Len(b)
    BY <1>1
  <2> QED
    BY <1>3, <2>1
<1>5. ASSUME NEW k \in 1..(Len(w) + 1) PROVE Append(w, f)[k].tick = k - 1
  <2>1. CASE k = Len(w) + 1
    BY <1>1, <1>2, <2>1
  <2>2. CASE k \in 1..Len(w)
    BY <1>2, <2>2 DEF Ticked
  <2> QED
    BY <1>1, <2>1, <2>2
<1>6. Ticked(Append(w, f))
  BY <1>2, <1>5 DEF Ticked
<1>7. Waiting(Append(b, f), Append(w, f))
  <2>1. Len(Append(b, f)) <= Len(Append(w, f))
    BY <1>1, <1>2
  <2> QED
    BY <1>2, <1>4, <2>1 DEF Waiting
<1> QED
  BY <1>6, <1>7

(* Frames in memory make true chunks, one for each cluster. *)
LEMMA ChunksOfFrames ==
  ASSUME NEW rows \in Seq(Frame), NEW w \in Seq(Frame), rows # << >>,
         Waiting(rows, w), Ticked(w),
         NEW s, s = [n \in 1..Len(Clusters) |-> Chunk(Clusters[n], rows)]
  PROVE  /\ s \in Seq(Unit) /\ s # << >>
         /\ \A n \in 1..Len(s) : s[n].kind = "CHNK" /\ s[n].cut = "whole"
         /\ Chunks(s, w)
<1>1. Len(Clusters) \in Nat \ {0} /\ \A n \in 1..Len(Clusters) : Clusters[n] \in ClusterIds
  BY ChunkAssumption, NotEmpty DEF ChunkAssumption, ClusterIds
<1>2. \A n \in 1..Len(Clusters) :
        /\ s[n] \in Unit /\ s[n].kind = "CHNK" /\ s[n].cut = "whole" /\ s[n].rows = rows
  BY <1>1, ChunkType
<1>3. s \in Seq(Unit) /\ Len(s) = Len(Clusters) /\ s # << >>
  BY SMTT(30), <1>1, <1>2, FunctionShape
<1>4. Len(rows) \in Nat \ {0} /\ Len(w) \in Nat /\ Len(rows) <= Len(w)
  BY NotEmpty DEF Waiting
<1>5. rows[1].tick = Len(w) - Len(rows)
  <2>1. rows[1] = w[Len(w) - Len(rows) + 1]
    BY <1>4 DEF Waiting
  <2>2. Len(w) - Len(rows) + 1 \in 1..Len(w)
    BY <1>4
  <2>3. w[Len(w) - Len(rows) + 1].tick = (Len(w) - Len(rows) + 1) - 1
    BY <2>2 DEF Ticked
  <2> QED
    BY <1>4, <2>1, <2>3
<1>6. ASSUME NEW k \in 1..Len(rows)
      PROVE  rows[1].tick + k <= Len(w) /\ rows[k] = w[rows[1].tick + k]
  <2>1. rows[k] = w[Len(w) - Len(rows) + k]
    BY DEF Waiting
  <2>2. Len(w) - Len(rows) + k <= Len(w)
    BY <1>4
  <2> QED
    BY <1>5, <2>1, <2>2
<1>7. ASSUME NEW n \in 1..Len(s) PROVE HoldsIn(s[n], w)
  <2>1. s[n].rows = rows
    BY <1>2, <1>3
  <2> QED
    BY <1>6, <2>1 DEF HoldsIn
<1> QED
  BY <1>2, <1>3, <1>7 DEF Chunks

-----------------------------------------------------------------------------
(* The index.  s is a sequence of units, e of entries, o the offset in the *)
(* header.                                                                 *)

ChunkAt(s, n) == n \in 1..Len(s) /\ s[n].kind = "CHNK" /\ s[n].cut = "whole"

EntriesIn(e, s) ==
  \A n \in 1..Len(e) : /\ ChunkAt(s, e[n].at)
                       /\ e[n] = EntryOf(e[n].at, s[e[n].at])
                       /\ n > 1 => e[n - 1].at < e[n].at

AllEntered(e, s) ==
  \A m \in 1..Len(s) : ChunkAt(s, m) => \E n \in 1..Len(e) : e[n].at = m

HeaderIn(o, e, s) == o # 0 => o \in 1..Len(s) /\ s[o] = IndexAndFooter(e)

LEMMA OtherUnit ==
  ASSUME NEW s \in Seq(Unit), NEW e \in Seq(IndexEntry), NEW o \in Nat, NEW u \in Unit,
         ~(u.kind = "CHNK" /\ u.cut = "whole"),
         EntriesIn(e, s), AllEntered(e, s), HeaderIn(o, e, s)
  PROVE  EntriesIn(e, Append(s, u)) /\ AllEntered(e, Append(s, u)) /\ HeaderIn(o, e, Append(s, u))
<1> DEFINE s2 == Append(s, u)
<1>1. /\ Len(s2) = Len(s) + 1 /\ Len(s) \in Nat /\ s2[Len(s) + 1] = u
      /\ \A i \in 1..Len(s) : s2[i] = s[i] /\ i \in 1..Len(s2)
  BY AppendShape
<1> HIDE DEF s2
<1>2. \A m : ChunkAt(s2, m) <=> ChunkAt(s, m)
  BY <1>1 DEF ChunkAt
<1>3. \A m : ChunkAt(s, m) => s2[m] = s[m]
  BY <1>1 DEF ChunkAt
<1>4. EntriesIn(e, s2)
  BY <1>2, <1>3 DEF EntriesIn
<1>5. AllEntered(e, s2)
  BY <1>2 DEF AllEntered, ChunkAt
<1>6. HeaderIn(o, e, s2)
  BY <1>1 DEF HeaderIn
<1> QED
  BY <1>4, <1>5, <1>6 DEF s2

LEMMA ChunkEntered ==
  ASSUME NEW s \in Seq(Unit), NEW e \in Seq(IndexEntry), NEW u \in Unit,
         u.kind = "CHNK", u.cut = "whole", u.rows # << >>,
         EntriesIn(e, s), AllEntered(e, s)
  PROVE  /\ Append(e, EntryOf(Len(s) + 1, u)) \in Seq(IndexEntry)
         /\ EntriesIn(Append(e, EntryOf(Len(s) + 1, u)), Append(s, u))
         /\ AllEntered(Append(e, EntryOf(Len(s) + 1, u)), Append(s, u))
<1> DEFINE s2 == Append(s, u)
           new == EntryOf(Len(s) + 1, u)
           e2 == Append(e, new)
<1>1. /\ Len(s2) = Len(s) + 1 /\ Len(s) \in Nat /\ s2[Len(s) + 1] = u
      /\ \A i \in 1..Len(s) : s2[i] = s[i] /\ i \in 1..Len(s2)
  BY AppendShape
<1>2. new \in IndexEntry /\ new.at = Len(s) + 1
  BY <1>1, EntryType
<1>3. new = EntryOf(Len(s) + 1, s2[Len(s) + 1])
  BY <1>1
<1> HIDE DEF s2, new
<1>4. /\ e2 \in Seq(IndexEntry) /\ Len(e2) = Len(e) + 1 /\ Len(e) \in Nat
      /\ e2[Len(e) + 1] = new /\ \A i \in 1..Len(e) : e2[i] = e[i]
  BY <1>2, AppendShape
<1> HIDE DEF e2
<1>5. ChunkAt(s2, Len(s) + 1)
  BY <1>1 DEF ChunkAt
<1>6. \A m \in 1..Len(s) : ChunkAt(s2, m) <=> ChunkAt(s, m)
  BY <1>1 DEF ChunkAt
<1>7. ASSUME NEW n \in 1..Len(e2)
      PROVE  /\ ChunkAt(s2, e2[n].at) /\ e2[n] = EntryOf(e2[n].at, s2[e2[n].at])
             /\ n > 1 => e2[n - 1].at < e2[n].at
  <2>1. CASE n = Len(e) + 1
    <3>1. e2[n] = new /\ new.at = Len(s) + 1
      BY <1>2, <1>4, <2>1
    <3>2. n > 1 => e2[n - 1].at \in 1..Len(s)
      <4> SUFFICES ASSUME n > 1 PROVE e2[n - 1].at \in 1..Len(s)
        OBVIOUS
      <4>1. n - 1 \in 1..Len(e)
        BY <1>4, <2>1
      <4>2. e2[n - 1] = e[n - 1] /\ ChunkAt(s, e[n - 1].at)
        BY <1>4, <4>1 DEF EntriesIn
      <4> QED
        BY <4>2 DEF ChunkAt
    <3>3. n > 1 => e2[n - 1].at < Len(s) + 1
      BY <1>1, <3>2
    <3> QED
      BY <1>3, <1>5, <3>1, <3>3
  <2>2. CASE n \in 1..Len(e)
    <3>1. e2[n] = e[n] /\ (n > 1 => n - 1 \in 1..Len(e) /\ e2[n - 1] = e[n - 1])
      BY <1>4, <2>2
    <3>2. /\ ChunkAt(s, e[n].at) /\ e[n] = EntryOf(e[n].at, s[e[n].at])
          /\ n > 1 => e[n - 1].at < e[n].at
      BY <2>2 DEF EntriesIn
    <3>3. ChunkAt(s2, e[n].at) /\ s2[e[n].at] = s[e[n].at]
      BY <1>1, <1>6, <3>2 DEF ChunkAt
    <3> QED
      BY <3>1, <3>2, <3>3
  <2> QED
    BY <1>4, <2>1, <2>2
<1>8. ASSUME NEW m \in 1..Len(s2), ChunkAt(s2, m) PROVE \E n \in 1..Len(e2) : e2[n].at = m
  <2>1. CASE m = Len(s) + 1
    BY <1>2, <1>4, <2>1
  <2>2. CASE m \in 1..Len(s)
    <3>1. PICK n \in 1..Len(e) : e[n].at = m
      BY <1>6, <1>8, <2>2 DEF AllEntered
    <3> QED
      BY <1>4, <3>1
  <2> QED
    BY <1>1, <2>1, <2>2
<1>9. EntriesIn(e2, s2) /\ AllEntered(e2, s2)
  BY <1>7, <1>8 DEF EntriesIn, AllEntered
<1> QED
  BY <1>4, <1>9 DEF e2, s2, new

-----------------------------------------------------------------------------
(* The invariant.                                                          *)

Calls == {"create", "flush", "footer", "laps"}

TypeOK_Rest ==
  /\ pc \in {"create", "open", "flush", "footer", "patch", "finished", "laps", "dead"}
  /\ caller \in {"write", "flush", "finish"}
  /\ cut \in Cuts \ {"whole"}
  /\ footer_offset \in Nat
TypeOK_Frames == frames \in Seq(Frame) /\ written \in Seq(Frame)
TypeOK_Units == todo \in Seq(Unit) /\ file \in Seq(Unit) /\ index_entries \in Seq(IndexEntry)

(* What is still to be written, call by call. *)
Shape ==
  /\ cut # "none" => pc \in Calls
  /\ pc \in Calls => todo # << >>
  /\ \A n \in 1..Len(todo) : todo[n].cut = "whole"
  /\ pc = "create" => Len(todo) = 1 /\ todo[1].kind = "ACTL"
  /\ pc = "flush" => \A n \in 1..Len(todo) : todo[n].kind = "CHNK"
  /\ pc = "footer" => todo = <<IndexAndFooter(index_entries)>>
  /\ pc = "laps" => Len(todo) = 1 /\ todo[1].kind = "LAPS"
  /\ pc = "patch" => Len(file) > 0 /\ file[Len(file)] = IndexAndFooter(index_entries)
  /\ pc \in {"create", "open", "flush", "footer", "patch"} => footer_offset = 0

FramesInv ==
  /\ Chunks(file, written) /\ Chunks(todo, written)
  /\ Waiting(frames, written) /\ Ticked(written)

IndexInv ==
  /\ EntriesIn(index_entries, file) /\ AllEntered(index_entries, file)
  /\ HeaderIn(footer_offset, index_entries, file)

IInv == TypeOK_Rest /\ TypeOK_Frames /\ TypeOK_Units /\ Shape /\ FramesInv /\ IndexInv

LEMMA NoneWaits == ASSUME NEW w \in Seq(Frame) PROVE Waiting(<< >>, w)
  BY DEF Waiting

LEMMA NoChunks == ASSUME NEW w PROVE Chunks(<< >>, w)
  BY DEF Chunks

LEMMA OneOther ==
  ASSUME NEW u \in Unit, u.kind # "CHNK", u.cut = "whole", NEW w
  PROVE  /\ <<u>> \in Seq(Unit) /\ <<u>> # << >> /\ Len(<<u>>) = 1 /\ <<u>>[1] = u
         /\ Chunks(<<u>>, w) /\ \A n \in 1..Len(<<u>>) : <<u>>[n].cut = "whole"
<1>1. <<u>> \in Seq(Unit) /\ <<u>> # << >> /\ Len(<<u>>) = 1 /\ <<u>>[1] = u
  BY SingleShape
<1>2. \A n \in 1..Len(<<u>>) : n = 1
  BY <1>1
<1> QED
  BY <1>1, <1>2 DEF Chunks

LEMMA InitInv == Init => IInv
<1> SUFFICES ASSUME Init PROVE IInv
  OBVIOUS
<1>1. /\ todo \in Seq(Unit) /\ todo # << >> /\ Len(todo) = 1 /\ todo[1].kind = "ACTL"
      /\ Chunks(todo, written) /\ \A n \in 1..Len(todo) : todo[n].cut = "whole"
  BY PreambleType, OneOther DEF Init
<1>2. TypeOK_Rest
  BY DEF Init, TypeOK_Rest, Cuts
<1>3. TypeOK_Frames
  BY EmptyShape DEF Init, TypeOK_Frames
<1>4. TypeOK_Units
  BY <1>1, EmptyShape DEF Init, TypeOK_Units
<1>5. Shape
  BY <1>1 DEF Init, Shape, Calls
<1>6. FramesInv
  <2>1. frames = << >> /\ file = << >> /\ written = << >> /\ written \in Seq(Frame)
    BY <1>3 DEF Init, TypeOK_Frames
  <2>2. Ticked(written)
    BY <2>1 DEF Ticked
  <2> QED
    BY <1>1, <2>1, <2>2, NoneWaits, NoChunks DEF FramesInv
<1>7. IndexInv
  BY EmptyShape DEF Init, IndexInv, EntriesIn, AllEntered, HeaderIn
<1> QED
  BY <1>2, <1>3, <1>4, <1>5, <1>6, <1>7 DEF IInv

(* flush_all_clusters, whoever calls it: rows are in memory, w is written  *)
(* by then.                                                                *)
LEMMA FlushSteps ==
  ASSUME IInv, NEW rows \in Seq(Frame), rows # << >>, NEW w \in Seq(Frame),
         Waiting(rows, w), Ticked(w), Chunks(file, w),
         NEW by \in {"write", "flush", "finish"}, FlushAllClusters(rows, by),
         pc = "open", written' = w, UNCHANGED <<cut, file, footer_offset, index_entries>>
  PROVE  IInv'
<1> USE DEF IInv
<1>1. /\ todo' \in Seq(Unit) /\ todo' # << >> /\ Chunks(todo', w)
      /\ \A n \in 1..Len(todo') : todo'[n].kind = "CHNK" /\ todo'[n].cut = "whole"
  BY ChunksOfFrames DEF FlushAllClusters
<1>2. pc' = "flush" /\ caller' = by /\ frames' = << >>
  BY DEF FlushAllClusters
<1>3. TypeOK_Rest'
  BY <1>2 DEF TypeOK_Rest
<1>4. TypeOK_Frames'
  BY <1>2, EmptyShape DEF TypeOK_Frames
<1>5. TypeOK_Units'
  BY <1>1 DEF TypeOK_Units
<1>6. Shape'
  BY <1>1, <1>2 DEF Shape, Calls
<1>7. FramesInv'
  BY <1>1, <1>2, NoneWaits DEF FramesInv
<1>8. IndexInv'
  BY DEF IndexInv
<1> QED
  BY <1>3, <1>4, <1>5, <1>6, <1>7, <1>8

LEMMA WriteFrameStep == IInv /\ WriteFrame => IInv'
<1> SUFFICES ASSUME IInv, WriteFrame PROVE IInv'
  OBVIOUS
<1> USE DEF IInv
<1>1. PICK s \in Samples :
        LET f == [tick |-> Len(written), sample |-> s]
            rows == Append(frames, f)
        IN  /\ written' = Append(written, f)
            /\ IF Len(rows) >= ChunkRows
               THEN FlushAllClusters(rows, "write")
               ELSE frames' = rows /\ UNCHANGED <<todo, pc, caller>>
  BY DEF WriteFrame
<1> DEFINE f == [tick |-> Len(written), sample |-> s]
           rows == Append(frames, f)
           w == Append(written, f)
<1>2. f \in Frame /\ f.tick = Len(written)
  BY DEF Frame, TypeOK_Frames
<1>3. /\ written' = w
      /\ \/ FlushAllClusters(rows, "write")
         \/ frames' = rows /\ UNCHANGED <<todo, pc, caller>>
  BY <1>1
<1> HIDE DEF f
<1>4. rows \in Seq(Frame) /\ w \in Seq(Frame) /\ rows # << >>
  <2>1. rows \in Seq(Frame) /\ Len(rows) = Len(frames) + 1 /\ Len(frames) \in Nat
    BY <1>2, AppendShape DEF TypeOK_Frames
  <2>2. rows # << >>
    BY <2>1, EmptyShape
  <2>3. w \in Seq(Frame)
    BY <1>2, AppendShape DEF TypeOK_Frames
  <2> QED
    BY <2>1, <2>2, <2>3
<1>5. Waiting(rows, w) /\ Ticked(w)
  BY <1>2, WaitingMore DEF FramesInv, TypeOK_Frames
<1>6. Chunks(file, w) /\ Chunks(todo, w)
  BY <1>2, ChunksMore DEF FramesInv, TypeOK_Frames, TypeOK_Units
<1>7. pc = "open" /\ UNCHANGED <<cut, file, footer_offset, index_entries>>
  BY DEF WriteFrame
<1> HIDE DEF rows, w
<1>8. CASE FlushAllClusters(rows, "write")
  BY <1>3, <1>4, <1>5, <1>6, <1>7, <1>8, FlushSteps
<1>9. CASE frames' = rows /\ UNCHANGED <<todo, pc, caller>>
  <2>1. TypeOK_Rest' /\ TypeOK_Frames' /\ TypeOK_Units'
    BY <1>3, <1>4, <1>7, <1>9 DEF TypeOK_Rest, TypeOK_Frames, TypeOK_Units
  <2>2. Shape'
    BY <1>7, <1>9 DEF Shape, Calls
  <2>3. FramesInv'
    BY <1>3, <1>5, <1>6, <1>7, <1>9 DEF FramesInv
  <2>4. IndexInv'
    BY <1>7 DEF IndexInv
  <2> QED
    BY <2>1, <2>2, <2>3, <2>4
<1> QED
  BY <1>3, <1>8, <1>9

LEMMA FlushToDiskStep == IInv /\ FlushToDisk => IInv'
<1> SUFFICES ASSUME IInv, FlushToDisk PROVE IInv'
  OBVIOUS
<1>1. /\ pc = "open" /\ frames # << >> /\ FlushAllClusters(frames, "flush")
      /\ UNCHANGED <<cut, file, footer_offset, index_entries>> /\ written' = written
  BY DEF FlushToDisk
<1>2. /\ frames \in Seq(Frame) /\ written \in Seq(Frame)
      /\ Waiting(frames, written) /\ Ticked(written) /\ Chunks(file, written)
  BY DEF IInv, TypeOK_Frames, FramesInv
<1> QED
  BY <1>1, <1>2, FlushSteps

(* The index is written when every chunk is.                               *)
LEMMA FooterType ==
  ASSUME NEW e \in Seq(IndexEntry), NEW w, NEW units, units = <<IndexAndFooter(e)>>
  PROVE  /\ units \in Seq(Unit) /\ units # << >> /\ Chunks(units, w)
         /\ \A n \in 1..Len(units) : units[n].cut = "whole"
  BY IndexType, OneOther

LEMMA FinishStep == IInv /\ Finish => IInv'
<1> SUFFICES ASSUME IInv, Finish PROVE IInv'
  OBVIOUS
<1>1. /\ pc = "open" /\ UNCHANGED <<cut, file, footer_offset, index_entries>>
      /\ written' = written
  BY DEF Finish
<1>2. /\ frames \in Seq(Frame) /\ written \in Seq(Frame)
      /\ Waiting(frames, written) /\ Ticked(written) /\ Chunks(file, written)
  BY DEF IInv, TypeOK_Frames, FramesInv
<1>3. CASE frames # << >>
  <2>1. FlushAllClusters(frames, "finish")
    BY <1>3 DEF Finish
  <2> QED
    BY <1>1, <1>2, <1>3, <2>1, FlushSteps
<1>4. CASE frames = << >>
  <2> USE DEF IInv
  <2>1. /\ todo' = <<IndexAndFooter(index_entries)>> /\ pc' = "footer"
        /\ UNCHANGED <<caller, frames>>
    BY <1>4 DEF Finish, WriteFooter
  <2>2. /\ todo' \in Seq(Unit) /\ todo' # << >> /\ Chunks(todo', written)
        /\ \A n \in 1..Len(todo') : todo'[n].cut = "whole"
    BY <2>1, FooterType DEF TypeOK_Units
  <2>3. TypeOK_Rest' /\ TypeOK_Frames' /\ TypeOK_Units'
    BY <1>1, <2>1, <2>2 DEF TypeOK_Rest, TypeOK_Frames, TypeOK_Units
  <2>4. Shape'
    BY <1>1, <2>1, <2>2 DEF Shape, Calls
  <2>5. FramesInv'
    BY <1>1, <2>1, <2>2 DEF FramesInv
  <2>6. IndexInv'
    BY <1>1 DEF IndexInv
  <2> QED
    BY <2>3, <2>4, <2>5, <2>6
<1> QED
  BY <1>3, <1>4

LEMMA WritePieceStep == IInv /\ WritePiece => IInv'
<1> SUFFICES ASSUME IInv, WritePiece PROVE IInv'
  OBVIOUS
<1> USE DEF IInv
<1>1. /\ pc \in Calls /\ cut' \in Cuts \ {"whole"}
      /\ UNCHANGED <<pc, caller, frames, todo, file, footer_offset, index_entries, written>>
  BY DEF WritePiece, Writing, Calls, MoreOf, Cuts, TypeOK_Rest
<1>2. TypeOK_Rest' /\ TypeOK_Frames' /\ TypeOK_Units'
  BY <1>1 DEF TypeOK_Rest, TypeOK_Frames, TypeOK_Units
<1>3. Shape'
  BY <1>1 DEF Shape
<1>4. FramesInv' /\ IndexInv'
  BY <1>1 DEF FramesInv, IndexInv
<1> QED
  BY <1>2, <1>3, <1>4

(* A unit more in the file. *)
LEMMA ChunksAppended ==
  ASSUME NEW s \in Seq(Unit), NEW u \in Unit, NEW w, Chunks(s, w),
         u.kind = "CHNK" => HoldsIn(u, w)
  PROVE  Chunks(Append(s, u), w)
<1>1. /\ Len(Append(s, u)) = Len(s) + 1 /\ Len(s) \in Nat
      /\ Append(s, u)[Len(s) + 1] = u /\ \A i \in 1..Len(s) : Append(s, u)[i] = s[i]
  BY AppendShape
<1>2. ASSUME NEW n \in 1..(Len(s) + 1), Append(s, u)[n].kind = "CHNK"
      PROVE  HoldsIn(Append(s, u)[n], w)
  <2>1. CASE n = Len(s) + 1
    BY <1>1, <1>2, <2>1
  <2>2. CASE n \in 1..Len(s)
    BY <1>1, <1>2, <2>2 DEF Chunks
  <2> QED
    BY <1>1, <2>1, <2>2
<1> QED
  BY <1>1, <1>2 DEF Chunks

LEMMA WriteUnitStep == IInv /\ WriteUnit => IInv'
<1> SUFFICES ASSUME IInv, WriteUnit PROVE IInv'
  OBVIOUS
<1> USE DEF IInv
<1> DEFINE u == todo[1]
<1>1. pc \in Calls /\ todo \in Seq(Unit) /\ todo # << >> /\ file \in Seq(Unit)
  BY DEF WriteUnit, Writing, Calls, TypeOK_Units
<1>2. Len(todo) \in Nat \ {0} /\ u \in Unit /\ u.cut = "whole"
  BY <1>1, NotEmpty DEF Shape
<1>3. u.kind = "CHNK" => HoldsIn(u, written)
  BY <1>2 DEF FramesInv, Chunks
<1>4. /\ file' = Append(file, u) /\ cut' = "none"
      /\ UNCHANGED <<caller, frames, footer_offset, written>>
  BY DEF WriteUnit
<1>5. file' \in Seq(Unit) /\ Len(file') = Len(file) + 1 /\ file'[Len(file')] = u
      /\ Len(file) \in Nat
  BY <1>1, <1>2, <1>4, AppendShape
<1>6. Chunks(file', written)
  BY <1>1, <1>2, <1>3, <1>4, ChunksAppended DEF FramesInv
<1>7. /\ index_entries' \in Seq(IndexEntry) /\ IndexInv'
      /\ pc # "flush" => index_entries' = index_entries
  <2>1. CASE pc = "flush"
    <3>1. u.kind = "CHNK" /\ footer_offset = 0
      BY <1>2, <2>1 DEF Shape
    <3>2. index_entries' = Append(index_entries, EntryOf(Len(file) + 1, u))
      BY <3>1 DEF WriteUnit
    <3>3. u.rows # << >>
      BY <1>3, <3>1 DEF HoldsIn
    <3>4. /\ index_entries' \in Seq(IndexEntry)
          /\ EntriesIn(index_entries', file') /\ AllEntered(index_entries', file')
      BY <1>1, <1>2, <1>4, <3>1, <3>2, <3>3, ChunkEntered DEF IndexInv, TypeOK_Units
    <3>5. HeaderIn(footer_offset', index_entries', file')
      BY <1>4, <3>1 DEF HeaderIn
    <3> QED
      BY <2>1, <3>4, <3>5 DEF IndexInv
  <2>2. CASE pc # "flush"
    <3>1. u.kind # "CHNK"
      <4>1. CASE pc = "footer"
        BY <4>1, IndexType, SingleShape DEF Shape, TypeOK_Units
      <4>2. CASE pc \in {"create", "laps"}
        BY <4>2 DEF Shape
      <4> QED
        BY <1>1, <2>2, <4>1, <4>2 DEF Calls
    <3>2. index_entries' = index_entries
      BY <3>1 DEF WriteUnit
    <3> QED
      BY <1>1, <1>2, <1>4, <3>1, <3>2, OtherUnit DEF IndexInv, TypeOK_Units, TypeOK_Rest
  <2> QED
    BY <2>1, <2>2
<1>8. FramesInv' /\ TypeOK_Units' /\ TypeOK_Rest' /\ Shape'
  <2>1. CASE Len(todo) > 1
    <3>1. todo' = Tail(todo) /\ UNCHANGED pc
      BY <2>1 DEF WriteUnit
    <3>2. pc = "flush"
      <4>1. pc = "footer" => Len(todo) = 1
        BY IndexType, SingleShape DEF Shape, TypeOK_Units
      <4> QED
        BY <1>1, <2>1, <4>1 DEF Shape, Calls
    <3>3. /\ todo' \in Seq(Unit) /\ Len(todo') = Len(todo) - 1 /\ todo' # << >>
          /\ \A i \in 1..Len(todo') : todo'[i] = todo[i + 1] /\ i + 1 \in 1..Len(todo)
      <4>1. /\ todo' \in Seq(Unit) /\ Len(todo') = Len(todo) - 1
            /\ \A i \in 1..Len(todo') : todo'[i] = todo[i + 1] /\ i + 1 \in 1..Len(todo)
        BY <1>1, <2>1, <3>1, TailShape
      <4>2. todo' # << >>
        BY <1>2, <2>1, <4>1, EmptyShape
      <4> QED
        BY <4>1, <4>2
    <3>4. Chunks(todo', written)
      BY <3>3 DEF FramesInv, Chunks
    <3>5. Shape'
      BY <1>4, <3>1, <3>2, <3>3 DEF Shape, Calls
    <3> QED
      BY <1>4, <1>5, <1>6, <1>7, <3>1, <3>3, <3>4, <3>5
      DEF FramesInv, TypeOK_Units, TypeOK_Rest, Cuts
  <2>2. CASE Len(todo) <= 1 /\ pc = "flush" /\ caller = "finish"
    <3>1. todo' = <<IndexAndFooter(index_entries')>> /\ pc' = "footer"
      BY <1>2, <2>2 DEF WriteUnit, WriteFooter
    <3>2. /\ todo' \in Seq(Unit) /\ todo' # << >> /\ Chunks(todo', written)
          /\ \A n \in 1..Len(todo') : todo'[n].cut = "whole"
      BY <1>7, <3>1, FooterType
    <3>3. Shape'
      BY <1>4, <2>2, <3>1, <3>2 DEF Shape, Calls
    <3> QED
      BY <1>4, <1>5, <1>6, <1>7, <3>1, <3>2, <3>3
      DEF FramesInv, TypeOK_Units, TypeOK_Rest, Cuts
  <2>3. CASE Len(todo) <= 1 /\ ~(pc = "flush" /\ caller = "finish")
    <3>1. todo' = << >>
      BY <1>2, <2>3 DEF WriteUnit
    <3>2. /\ pc \in {"create", "flush"} => pc' = "open"
          /\ pc = "footer" => pc' = "patch"
          /\ pc = "laps" => pc' \in {"finished", "dead"}
      <4>1. ~(Len(todo) > 1)
        BY <1>2, <2>3
      <4> QED
        BY <2>3, <4>1 DEF WriteUnit
    <3>3. todo' \in Seq(Unit) /\ Chunks(todo', written) /\ Len(todo') = 0
      BY <3>1, EmptyShape, NoChunks
    <3>4. pc = "footer" => u = IndexAndFooter(index_entries)
      BY IndexType, SingleShape DEF Shape, TypeOK_Units
    <3>5. Shape'
      BY <1>1, <1>4, <1>5, <1>7, <3>2, <3>3, <3>4 DEF Shape, Calls
    <3> QED
      BY <1>1, <1>4, <1>5, <1>6, <1>7, <3>2, <3>3, <3>5
      DEF FramesInv, TypeOK_Units, TypeOK_Rest, Cuts, Calls
  <2> QED
    BY <1>2, <2>1, <2>2, <2>3
<1>9. TypeOK_Frames'
  BY <1>4 DEF TypeOK_Frames
<1> QED
  BY <1>7, <1>8, <1>9

LEMMA PatchHeaderStep == IInv /\ PatchHeader => IInv'
<1> SUFFICES ASSUME IInv, PatchHeader PROVE IInv'
  OBVIOUS
<1> USE DEF IInv
<1>1. /\ pc = "patch" /\ footer_offset' = Len(file) /\ pc' = "finished"
      /\ UNCHANGED <<caller, frames, todo, cut, file, index_entries, written>>
  BY DEF PatchHeader
<1>2. Len(file) \in Nat
  BY DEF TypeOK_Units
<1>3. TypeOK_Rest' /\ TypeOK_Frames' /\ TypeOK_Units'
  BY <1>1, <1>2 DEF TypeOK_Rest, TypeOK_Frames, TypeOK_Units
<1>4. Shape'
  BY <1>1 DEF Shape, Calls
<1>5. FramesInv'
  BY <1>1 DEF FramesInv
<1>6. IndexInv'
  BY <1>1, <1>2 DEF IndexInv, HeaderIn, Shape
<1> QED
  BY <1>3, <1>4, <1>5, <1>6

LEMMA DiesStep == IInv /\ Dies => IInv'
<1> SUFFICES ASSUME IInv, Dies PROVE IInv'
  OBVIOUS
<1> USE DEF IInv
<1>1. /\ pc' \in {"finished", "dead"} /\ file' = Contents /\ cut' = "none" /\ todo' = << >>
      /\ frames' = << >> /\ UNCHANGED <<caller, footer_offset, index_entries, written>>
  BY DEF Dies
<1>2. /\ file' \in Seq(Unit) /\ Chunks(file', written)
      /\ EntriesIn(index_entries, file') /\ AllEntered(index_entries, file')
      /\ HeaderIn(footer_offset, index_entries, file')
  <2>1. CASE cut = "none"
    BY <1>1, <2>1 DEF Contents, TypeOK_Units, FramesInv, IndexInv
  <2>2. CASE cut # "none"
    <3> DEFINE u == [todo[1] EXCEPT !.cut = cut]
    <3>1. file' = Append(file, u)
      BY <1>1, <2>2 DEF Contents
    <3>2. todo[1] \in Unit /\ 1 \in 1..Len(todo)
      BY <2>2, NotEmpty DEF Shape, TypeOK_Units
    <3>3. /\ u \in Unit /\ u.cut # "whole" /\ u.kind = todo[1].kind
          /\ u.rows = todo[1].rows
      BY <3>2, CutType DEF TypeOK_Rest
    <3> HIDE DEF u
    <3>4. u.kind = "CHNK" => HoldsIn(u, written)
      <4>1. todo[1].kind = "CHNK" => HoldsIn(todo[1], written)
        BY <3>2 DEF FramesInv, Chunks
      <4> QED
        BY <3>3, <4>1 DEF HoldsIn
    <3>5. file' \in Seq(Unit) /\ Chunks(file', written)
      BY <3>1, <3>3, <3>4, AppendShape, ChunksAppended DEF FramesInv, TypeOK_Units
    <3>6. /\ EntriesIn(index_entries, file') /\ AllEntered(index_entries, file')
          /\ HeaderIn(footer_offset, index_entries, file')
      BY <3>1, <3>3, OtherUnit DEF IndexInv, TypeOK_Units, TypeOK_Rest
    <3> QED
      BY <3>5, <3>6
  <2> QED
    BY <2>1, <2>2
<1>3. TypeOK_Rest' /\ TypeOK_Frames' /\ TypeOK_Units'
  BY <1>1, <1>2, EmptyShape DEF TypeOK_Rest, TypeOK_Frames, TypeOK_Units, Cuts
<1>4. Shape'
  BY <1>1, EmptyShape DEF Shape, Calls
<1>5. FramesInv'
  BY <1>1, <1>2, NoneWaits, NoChunks DEF FramesInv, TypeOK_Frames
<1>6. IndexInv'
  BY <1>1, <1>2 DEF IndexInv
<1> QED
  BY <1>3, <1>4, <1>5, <1>6

LEMMA AppendLapsStep ==
  ASSUME IInv, NEW laps \in Seq(LapEntry), AppendLaps(laps) PROVE IInv'
<1> USE DEF IInv
<1>1. /\ pc \in {"finished", "dead"} /\ todo' = <<LapsBlock(laps)>> /\ pc' = "laps"
      /\ UNCHANGED <<caller, frames, cut, file, footer_offset, index_entries, written>>
  BY DEF AppendLaps
<1>2. /\ todo' \in Seq(Unit) /\ todo' # << >> /\ Len(todo') = 1 /\ todo'[1].kind = "LAPS"
      /\ Chunks(todo', written) /\ \A n \in 1..Len(todo') : todo'[n].cut = "whole"
  BY <1>1, LapsType, OneOther
<1>3. TypeOK_Rest' /\ TypeOK_Frames' /\ TypeOK_Units'
  BY <1>1, <1>2 DEF TypeOK_Rest, TypeOK_Frames, TypeOK_Units
<1>4. Shape'
  BY <1>1, <1>2 DEF Shape, Calls
<1>5. FramesInv' /\ IndexInv'
  BY <1>1, <1>2 DEF FramesInv, IndexInv
<1> QED
  BY <1>3, <1>4, <1>5

LEMMA InvStep == IInv /\ [FileNext]_vars => IInv'
<1> SUFFICES ASSUME IInv, [FileNext]_vars PROVE IInv'
  OBVIOUS
<1>1. CASE UNCHANGED vars
  BY <1>1 DEF vars, IInv, TypeOK_Rest, TypeOK_Frames, TypeOK_Units, Shape, FramesInv, IndexInv
<1>2. CASE \E laps \in Seq(LapEntry) : AppendLaps(laps)
  BY <1>2, AppendLapsStep
<1>3. CASE WriterNext
  BY <1>3, WriteFrameStep, FlushToDiskStep, FinishStep, WritePieceStep, WriteUnitStep,
     PatchHeaderStep, DiesStep DEF WriterNext
<1> QED
  BY <1>1, <1>2, <1>3 DEF FileNext

LEMMA InvAlways == FileSpec => []IInv
  BY InitInv, InvStep, PTL DEF FileSpec

-----------------------------------------------------------------------------
(* Every variable keeps its type, whatever laps are appended.              *)
THEOREM TypeCorrect == FileSpec => []TypeOK
<1>1. IInv => TypeOK
  BY DEF IInv, TypeOK, TypeOK_Rest, TypeOK_Frames, TypeOK_Units
<1> QED
  BY <1>1, InvAlways, PTL

(* Every chunk in the file, cut or whole, is of frames that were written,  *)
(* without a gap: however write_frame, flush_to_disk and finish() follow   *)
(* each other and wherever the process dies.                               *)
THEOREM TrueChunks == FileSpec => []ChunksHoldFrames
<1>1. IInv => ChunksHoldFrames
  <2>1. \A n \in 1..Len(file) : HoldsIn(file[n], written) => HoldsFrames(file[n])
    BY DEF HoldsIn, HoldsFrames
  <2> QED
    BY <2>1 DEF IInv, FramesInv, Chunks, ChunksHoldFrames
<1> QED
  BY <1>1, InvAlways, PTL

(* The index that finish() writes, and the header that points to it, tell  *)
(* of all whole chunks and of nothing else.                                *)
THEOREM TrueIndex == FileSpec => []IndexIsTrue
<1>1. IInv => IndexIsTrue
  <2> SUFFICES ASSUME IInv PROVE IndexIsTrue
    OBVIOUS
  <2>1. \A n : WholeChunk(n) <=> ChunkAt(file, n)
    BY DEF WholeChunk, ChunkAt
  <2>2. EntriesAreTrue
    BY <2>1 DEF IInv, IndexInv, EntriesIn, EntriesAreTrue
  <2>3. ChunksHaveEntries
    BY <2>1 DEF IInv, IndexInv, AllEntered, ChunksHaveEntries
  <2>4. HeaderIsTrue
    BY DEF IInv, IndexInv, HeaderIn, HeaderIsTrue
  <2> QED
    BY <2>2, <2>3, <2>4 DEF IndexIsTrue
<1> QED
  BY <1>1, InvAlways, PTL

-----------------------------------------------------------------------------
(* What a reader is given.                                                 *)

(* The units before the index are the header block and whole chunks.       *)
Layout ==
  /\ pc = "create" => file = << >>
  /\ pc \in {"open", "flush", "footer", "patch"} \/ footer_offset # 0 =>
       file # << >> /\ file[1].cut = "whole"
  /\ pc \in {"open", "flush", "footer"} =>
       \A n \in 2..Len(file) : file[n].kind = "CHNK" /\ file[n].cut = "whole"
  /\ pc = "patch" =>
       \A n \in 2..(Len(file) - 1) : file[n].kind = "CHNK" /\ file[n].cut = "whole"

(* What the whole controls chunks of a sequence of units reach.            *)
LastTick(u) == u.rows[Len(u.rows)].tick
IsControls(u) == u.kind = "CHNK" /\ u.cut = "whole" /\ u.cluster = Controls
Ends(s) == {LastTick(s[n]) + 1 : n \in {m \in 1..Len(s) : IsControls(s[m])}}

ReachesIn(s, x) == x \in {0} \cup Ends(s) /\ {0} \cup Ends(s) \subseteq 0..x

(* The controls chunks reach as far as the frames left the buffer, but for *)
(* a flush that still has its controls chunk to write.                     *)
Reach ==
  /\ \E x \in Nat : ReachesIn(file, x)
  /\ pc \in {"create", "open"} => ReachesIn(file, Len(written) - Len(frames))
  /\ pc \in {"flush", "footer", "patch"} => frames = << >>
  /\ pc \in {"footer", "patch"} => ReachesIn(file, Len(written))
  /\ pc = "flush" => \/ ReachesIn(file, Len(written))
                     \/ /\ todo[1].cluster = Controls /\ todo[1].rows # << >>
                        /\ LastTick(todo[1]) + 1 = Len(written)

(* The library's Max of a set of numbers that has a greatest one.          *)
LEMMA MaxOf ==
  ASSUME NEW S \in SUBSET Nat, NEW x \in S, S \subseteq 0..x
  PROVE  Max(S) = x
<1>1. \E m \in S : \A y \in S : m >= y
  <2>1. \A y \in S : x >= y
    OBVIOUS
  <2>2. QED
    BY <2>1
<1> DEFINE m == CHOOSE m \in S : \A y \in S : m >= y
<1>2. m \in S /\ \A y \in S : m >= y
  BY <1>1
<1> HIDE DEF m
<1>3. m \in Nat /\ x \in Nat /\ m >= x /\ x >= m
  BY <1>2
<1>4. m = x
  BY <1>3
<1>5. QED
  BY <1>4 DEF Max, m

LEMMA DurableIs == ASSUME NEW x \in Nat, ReachesIn(file, x) PROVE Durable = x
<1> DEFINE S == {0} \cup Ends(file)
<1>1. x \in S /\ S \subseteq 0..x
  BY DEF ReachesIn
<1>2. DurableTicks = Ends(file)
  BY DEF DurableTicks, Ends, IsControls, WholeChunk, LastTick
<1> HIDE DEF S
<1>3. S \in SUBSET Nat
  BY <1>1
<1>4. Max(S) = x
  BY <1>1, <1>3, MaxOf
<1>5. QED
  BY <1>2, <1>4 DEF Durable, S

LEMMA DurableWillBe == ASSUME NEW x \in Nat, ReachesIn(file', x) PROVE Durable' = x
<1> DEFINE S == {0} \cup Ends(file')
<1>1. x \in S /\ S \subseteq 0..x
  BY DEF ReachesIn
<1>2. DurableTicks' = Ends(file')
  BY DEF DurableTicks, Ends, IsControls, WholeChunk, LastTick
<1> HIDE DEF S
<1>3. S \in SUBSET Nat
  BY <1>1
<1>4. Max(S) = x
  BY <1>1, <1>3, MaxOf
<1>5. QED
  BY <1>2, <1>4 DEF Durable, S

-----------------------------------------------------------------------------
(* How the reach grows with a unit.                                        *)
LEMMA EndsOfAppend ==
  ASSUME NEW s \in Seq(Unit), NEW u \in Unit
  PROVE  Ends(Append(s, u)) = Ends(s) \cup (IF IsControls(u) THEN {LastTick(u) + 1} ELSE {})
<1> DEFINE s2 == Append(s, u)
<1>1. /\ Len(s2) = Len(s) + 1 /\ Len(s) \in Nat /\ s2[Len(s) + 1] = u
      /\ \A i \in 1..Len(s) : s2[i] = s[i] /\ i \in 1..Len(s2)
      /\ \A i \in 1..Len(s2) : i \in 1..Len(s) \/ i = Len(s) + 1
  BY AppendShape
<1> HIDE DEF s2
<1>2. Ends(s2) = {LastTick(s2[n]) + 1 : n \in {m \in 1..Len(s2) : IsControls(s2[m])}}
  BY DEF Ends
<1>3. Ends(s) = {LastTick(s[n]) + 1 : n \in {m \in 1..Len(s) : IsControls(s[m])}}
  BY DEF Ends
<1>4. ASSUME NEW e \in Ends(s) PROVE e \in Ends(s2)
  <2>1. PICK n \in 1..Len(s) : IsControls(s[n]) /\ e = LastTick(s[n]) + 1
    BY <1>3, <1>4
  <2>2. n \in 1..Len(s2) /\ IsControls(s2[n]) /\ e = LastTick(s2[n]) + 1
    BY <1>1, <2>1
  <2>3. QED
    BY <1>2, <2>2
<1>5. ASSUME IsControls(u) PROVE LastTick(u) + 1 \in Ends(s2)
  <2>1. Len(s) + 1 \in 1..Len(s2) /\ IsControls(s2[Len(s) + 1])
    BY <1>1, <1>5
  <2>2. QED
    BY <1>1, <1>2, <2>1
<1>6. ASSUME NEW e \in Ends(s2) PROVE e \in Ends(s) \/ (IsControls(u) /\ e = LastTick(u) + 1)
  <2>1. PICK n \in 1..Len(s2) : IsControls(s2[n]) /\ e = LastTick(s2[n]) + 1
    BY <1>2, <1>6
  <2>2. CASE n = Len(s) + 1
    BY <1>1, <2>1, <2>2
  <2>3. CASE n \in 1..Len(s)
    <3>1. IsControls(s[n]) /\ e = LastTick(s[n]) + 1
      BY <1>1, <2>1, <2>3
    <3>2. QED
      BY <1>3, <2>3, <3>1
  <2>4. QED
    BY <1>1, <2>2, <2>3
<1>7. QED
  BY <1>4, <1>5, <1>6 DEF s2

LEMMA OtherReach ==
  ASSUME NEW s \in Seq(Unit), NEW u \in Unit, ~IsControls(u), NEW x, ReachesIn(s, x)
  PROVE  ReachesIn(Append(s, u), x)
BY EndsOfAppend DEF ReachesIn

LEMMA FartherReach ==
  ASSUME NEW s \in Seq(Unit), NEW u \in Unit, IsControls(u), NEW x \in Nat, ReachesIn(s, x),
         LastTick(u) + 1 \in Nat, x <= LastTick(u) + 1
  PROVE  ReachesIn(Append(s, u), LastTick(u) + 1)
<1> DEFINE e == LastTick(u) + 1
<1>1. Ends(Append(s, u)) = Ends(s) \cup {e}
  BY EndsOfAppend
<1> HIDE DEF e
<1>2. e \in Nat /\ x <= e /\ {0} \cup Ends(s) \subseteq 0..x
  BY DEF e, ReachesIn
<1>3. {0} \cup Ends(s) \cup {e} \subseteq 0..e
  BY <1>2
<1>4. QED
  BY <1>1, <1>3 DEF ReachesIn, e

LEMMA SomeReach ==
  ASSUME NEW s \in Seq(Unit), NEW u \in Unit, IsControls(u) => u.rows # << >>,
         NEW x \in Nat, ReachesIn(s, x)
  PROVE  \E y \in Nat : ReachesIn(Append(s, u), y)
<1>1. CASE ~IsControls(u)
  BY <1>1, OtherReach
<1>2. CASE IsControls(u)
  <2>1. LastTick(u) + 1 \in Nat
    <3>1. u.rows \in Seq(Frame) /\ u.rows # << >>
      BY <1>2 DEF Unit
    <3>2. u.rows[Len(u.rows)] \in Frame
      BY <3>1, NotEmpty
    <3>3. QED
      BY <3>2 DEF Frame, LastTick
  <2>2. CASE x <= LastTick(u) + 1
    BY <1>2, <2>1, <2>2, FartherReach
  <2>3. CASE LastTick(u) + 1 <= x
    <3>1. Ends(Append(s, u)) = Ends(s) \cup {LastTick(u) + 1}
      BY <1>2, EndsOfAppend
    <3>2. LastTick(u) + 1 \in 0..x
      BY <2>1, <2>3
    <3>3. ReachesIn(Append(s, u), x)
      BY <3>1, <3>2 DEF ReachesIn
    <3>4. QED
      BY <3>3
  <2>4. QED
    BY <2>1, <2>2, <2>3
<1>3. QED
  BY <1>1, <1>2

(* A chunk of frames that were written does not reach farther than they do. *)
LEMMA ChunkEnds ==
  ASSUME NEW c \in Unit, NEW w \in Seq(Frame), HoldsIn(c, w), Ticked(w)
  PROVE  LastTick(c) + 1 \in 0..Len(w)
<1> DEFINE n == Len(c.rows)
<1>1. c.rows \in Seq(Frame) /\ c.rows # << >>
  BY DEF Unit, HoldsIn
<1>2. n \in 1..Len(c.rows) /\ n \in Nat \ {0} /\ c.rows[1] \in Frame
  BY <1>1, NotEmpty
<1>3. c.rows[1].tick + n <= Len(w) /\ c.rows[n] = w[c.rows[1].tick + n]
  BY <1>2 DEF HoldsIn
<1>4. c.rows[1].tick \in Nat /\ Len(w) \in Nat
  BY <1>2 DEF Frame
<1>5. c.rows[1].tick + n \in 1..Len(w)
  BY <1>2, <1>3, <1>4
<1>6. c.rows[n].tick = (c.rows[1].tick + n) - 1
  BY <1>3, <1>5 DEF Ticked
<1>7. LastTick(c) + 1 = c.rows[1].tick + n
  <2>1. LastTick(c) = c.rows[n].tick
    BY DEF LastTick
  <2> HIDE DEF n
  <2>2. QED
    BY <1>2, <1>4, <1>6, <2>1
<1> HIDE DEF n
<1>8. QED
  BY <1>4, <1>5, <1>7

LEMMA ReachBounded ==
  ASSUME NEW s \in Seq(Unit), NEW w \in Seq(Frame), Chunks(s, w), Ticked(w), NEW x,
         ReachesIn(s, x)
  PROVE  x \in 0..Len(w)
<1>1. CASE x = 0
  BY <1>1
<1>2. CASE x \in Ends(s)
  <2>1. PICK n \in 1..Len(s) : IsControls(s[n]) /\ x = LastTick(s[n]) + 1
    BY <1>2 DEF Ends
  <2>2. s[n] \in Unit /\ HoldsIn(s[n], w)
    BY <2>1 DEF Chunks, IsControls
  <2>3. QED
    BY <2>1, <2>2, ChunkEnds
<1>3. QED
  BY <1>1, <1>2 DEF ReachesIn

(* Frames that reach as far as what was written cannot reach farther.      *)
LEMMA StayReach ==
  ASSUME NEW s \in Seq(Unit), NEW u \in Unit, NEW w \in Seq(Frame), Ticked(w),
         u.kind = "CHNK" => HoldsIn(u, w), ReachesIn(s, Len(w))
  PROVE  ReachesIn(Append(s, u), Len(w))
<1>1. CASE ~IsControls(u)
  BY <1>1, OtherReach
<1>2. CASE IsControls(u)
  <2>1. Ends(Append(s, u)) = Ends(s) \cup {LastTick(u) + 1}
    BY <1>2, EndsOfAppend
  <2>2. LastTick(u) + 1 \in 0..Len(w)
    BY <1>2, ChunkEnds DEF IsControls
  <2>3. QED
    BY <2>1, <2>2 DEF ReachesIn
<1>3. QED
  BY <1>1, <1>2

LEMMA ReachNow ==
  ASSUME NEW s \in Seq(Unit), NEW u \in Unit, NEW w \in Seq(Frame), Ticked(w), Chunks(s, w),
         IsControls(u), LastTick(u) + 1 = Len(w), NEW x, ReachesIn(s, x)
  PROVE  ReachesIn(Append(s, u), Len(w))
<1>1. x \in 0..Len(w) /\ Len(w) \in Nat
  BY ReachBounded
<1>2. x \in Nat /\ x <= LastTick(u) + 1 /\ LastTick(u) + 1 \in Nat
  BY <1>1
<1>3. ReachesIn(Append(s, u), LastTick(u) + 1)
  BY <1>2, FartherReach
<1>4. QED
  BY <1>3

-----------------------------------------------------------------------------
(* The steps of the file.  A chunk is whole only when WriteUnit ends it.    *)
Grown(u) == /\ u \in Unit /\ file' = Append(file, u)
            /\ u.kind = "CHNK" => HoldsIn(u, written)

LEMMA WriteUnitGrows ==
  ASSUME IInv, WriteUnit
  PROVE  /\ Grown(todo[1]) /\ todo[1].cut = "whole" /\ pc \in Calls
         /\ Len(todo) \in Nat \ {0}
         /\ pc = "create" => todo[1].kind = "ACTL"
         /\ pc = "flush" => todo[1].kind = "CHNK"
         /\ pc = "footer" => todo[1].kind = "INDX"
         /\ pc = "laps" => todo[1].kind = "LAPS"
<1>1. pc \in Calls /\ todo \in Seq(Unit) /\ todo # << >> /\ file' = Append(file, todo[1])
  BY DEF WriteUnit, Writing, Calls, IInv, TypeOK_Units
<1>2. Len(todo) \in Nat \ {0} /\ 1 \in 1..Len(todo) /\ todo[1] \in Unit
  BY <1>1, NotEmpty
<1>3. todo[1].cut = "whole" /\ (todo[1].kind = "CHNK" => HoldsIn(todo[1], written))
  BY <1>2 DEF IInv, Shape, FramesInv, Chunks
<1>4. pc = "footer" => todo[1].kind = "INDX"
  BY IndexType, SingleShape DEF IInv, Shape, TypeOK_Units
<1>5. /\ pc = "create" => todo[1].kind = "ACTL"
      /\ pc = "flush" => todo[1].kind = "CHNK"
      /\ pc = "laps" => todo[1].kind = "LAPS"
  BY <1>2 DEF IInv, Shape
<1>6. QED
  BY <1>1, <1>2, <1>3, <1>4, <1>5 DEF Grown

(* What a process that died leaves is no whole chunk.                      *)
LEMMA DiesGrows ==
  ASSUME IInv, Dies
  PROVE  \/ file' = file
         \/ \E u \in Unit : Grown(u) /\ u.cut # "whole"
<1>1. CASE cut = "none"
  BY <1>1 DEF Dies, Contents
<1>2. CASE cut # "none"
  <2> DEFINE u == [todo[1] EXCEPT !.cut = cut]
  <2>1. file' = Append(file, u)
    BY <1>2 DEF Dies, Contents
  <2>2. todo[1] \in Unit /\ 1 \in 1..Len(todo)
    BY <1>2, NotEmpty DEF IInv, Shape, TypeOK_Units
  <2>3. u \in Unit /\ u.cut # "whole" /\ u.kind = todo[1].kind /\ u.rows = todo[1].rows
    BY <2>2, CutType DEF IInv, TypeOK_Rest
  <2>4. todo[1].kind = "CHNK" => HoldsIn(todo[1], written)
    BY <2>2 DEF IInv, FramesInv, Chunks
  <2> HIDE DEF u
  <2>5. u.kind = "CHNK" => HoldsIn(u, written)
    BY <2>3, <2>4 DEF HoldsIn
  <2>6. QED
    BY <2>1, <2>3, <2>5 DEF Grown
<1>3. QED
  BY <1>1, <1>2

LEMMA OthersStay ==
  [FileNext]_vars => file' = file \/ WriteUnit \/ Dies
BY DEF FileNext, WriterNext, vars, WriteFrame, FlushToDisk, Finish, WritePiece, PatchHeader,
       AppendLaps

(* The units that are there do not change.                                 *)
LEMMA HeadStays ==
  ASSUME NEW u, file \in Seq(Unit), file # << >>, Grown(u)
  PROVE  file' # << >> /\ file'[1] = file[1] /\ Len(file') = Len(file) + 1
<1>1. Len(file) \in Nat \ {0} /\ 1 \in 1..Len(file)
  BY NotEmpty
<1>2. Len(file') = Len(file) + 1 /\ file'[1] = file[1]
  BY <1>1, AppendShape DEF Grown
<1>3. QED
  BY <1>1, <1>2, EmptyShape

LEMMA LayoutInit == Init => Layout
BY DEF Init, Layout

LEMMA LayoutWritesUnit == IInv /\ Layout /\ WriteUnit => Layout'
<1> SUFFICES ASSUME IInv, Layout, WriteUnit PROVE Layout'
  OBVIOUS
<1> DEFINE u == todo[1]
<1>1. /\ Grown(u) /\ u.cut = "whole" /\ pc \in Calls /\ Len(todo) \in Nat \ {0}
      /\ pc = "create" => todo[1].kind = "ACTL"
      /\ pc = "flush" => todo[1].kind = "CHNK"
      /\ pc = "footer" => todo[1].kind = "INDX"
      /\ pc = "laps" => todo[1].kind = "LAPS"
  BY WriteUnitGrows
<1>2. /\ Len(file') = Len(file) + 1 /\ Len(file) \in Nat /\ file'[Len(file) + 1] = u
      /\ \A i \in 1..Len(file) : file'[i] = file[i]
  BY <1>1, AppendShape DEF Grown, IInv, TypeOK_Units
<1>3. file' # << >>
  BY <1>2, EmptyShape
<1>4. /\ pc = "create" => pc' = "open"
      /\ pc = "flush" => pc' \in {"open", "flush", "footer"}
      /\ pc = "footer" => pc' = "patch"
      /\ pc = "laps" => pc' \in {"finished", "dead"}
      /\ footer_offset' = footer_offset
  <2>1. pc # "flush" => Len(todo) = 1
    BY <1>1, IndexType, SingleShape DEF IInv, Shape, TypeOK_Units, Calls
  <2>2. QED
    BY <1>1, <2>1 DEF WriteUnit, WriteFooter
<1> HIDE DEF u
<1>5. CASE pc = "create"
  <2>1. file' = <<u>> /\ file'[1] = u /\ Len(file') = 1
    BY <1>1, <1>2, <1>5 DEF Layout, Grown
  <2>2. QED
    BY <1>1, <1>3, <1>4, <1>5, <2>1 DEF Layout
<1>6. CASE pc \in {"flush", "footer"}
  <2>1. file # << >> /\ file[1].cut = "whole"
    BY <1>6 DEF Layout
  <2>2. file'[1].cut = "whole"
    BY <1>1, <2>1, HeadStays DEF IInv, TypeOK_Units
  <2>3. \A n \in 2..Len(file) : file'[n].kind = "CHNK" /\ file'[n].cut = "whole"
    BY <1>2, <1>6 DEF Layout
  <2>4. pc = "flush" => \A n \in 2..Len(file') : file'[n].kind = "CHNK" /\ file'[n].cut = "whole"
    <3> SUFFICES ASSUME pc = "flush", NEW n \in 2..Len(file')
                 PROVE  file'[n].kind = "CHNK" /\ file'[n].cut = "whole"
      OBVIOUS
    <3>1. n \in 2..Len(file) \/ n = Len(file) + 1
      BY <1>2
    <3>2. QED
      BY <1>1, <1>2, <2>3, <3>1 DEF u
  <2>5. Len(file') - 1 = Len(file)
    BY <1>2
  <2>6. QED
    BY <1>3, <1>4, <1>6, <2>2, <2>3, <2>4, <2>5 DEF Layout
<1>7. CASE pc = "laps"
  <2>1. footer_offset # 0 => file'[1].cut = "whole"
    BY <1>1, HeadStays DEF IInv, TypeOK_Units, Layout
  <2>2. QED
    BY <1>3, <1>4, <1>7, <2>1 DEF Layout
<1>8. QED
  BY <1>1, <1>5, <1>6, <1>7 DEF Calls

LEMMA LayoutStep == IInv /\ Layout /\ [FileNext]_vars => Layout'
<1> SUFFICES ASSUME IInv, Layout, [FileNext]_vars PROVE Layout'
  OBVIOUS
<1>1. CASE UNCHANGED vars
  BY <1>1 DEF vars, Layout
<1>2. CASE WriteFrame \/ FlushToDisk \/ Finish
  <2>1. /\ pc = "open" /\ pc' \in {"open", "flush", "footer"}
        /\ file' = file /\ footer_offset' = footer_offset
    BY <1>2 DEF WriteFrame, FlushToDisk, Finish, FlushAllClusters, WriteFooter
  <2>2. QED
    BY <2>1 DEF Layout
<1>3. CASE WritePiece
  BY <1>3 DEF WritePiece, Layout
<1>4. CASE WriteUnit
  BY <1>4, LayoutWritesUnit
<1>5. CASE PatchHeader
  BY <1>5 DEF PatchHeader, Layout
<1>6. CASE Dies
  <2>1. pc' \in {"finished", "dead"} /\ footer_offset' = footer_offset
    BY <1>6 DEF Dies
  <2>2. footer_offset # 0 => file' # << >> /\ file'[1].cut = "whole"
    <3>1. CASE file' = file
      BY <3>1 DEF Layout
    <3>2. CASE \E u \in Unit : Grown(u) /\ u.cut # "whole"
      BY <3>2, HeadStays DEF Layout, IInv, TypeOK_Units
    <3>3. QED
      BY <1>6, <3>1, <3>2, DiesGrows
  <2>3. QED
    BY <2>1, <2>2 DEF Layout
<1>7. CASE \E laps \in Seq(LapEntry) : AppendLaps(laps)
  BY <1>7 DEF AppendLaps, Layout
<1>8. QED
  BY <1>1, <1>2, <1>3, <1>4, <1>5, <1>6, <1>7 DEF FileNext, WriterNext

-----------------------------------------------------------------------------
(* How far the controls chunks reach, step by step.                        *)
LEMMA ReachInit == Init => Reach
<1> SUFFICES ASSUME Init PROVE Reach
  OBVIOUS
<1>1. file = << >> /\ frames = << >> /\ written = << >>
  BY DEF Init
<1>2. Ends(file) = {} /\ Len(written) - Len(frames) = 0
  BY <1>1 DEF Ends
<1>3. ReachesIn(file, 0)
  BY <1>2 DEF ReachesIn
<1>4. pc = "create"
  BY DEF Init
<1>5. QED
  BY <1>2, <1>3, <1>4 DEF Reach

(* The first chunk of a flush is that of the controls.                     *)
LEMMA FlushReaches ==
  ASSUME NEW rows \in Seq(Frame), rows # << >>, NEW w \in Seq(Frame), Waiting(rows, w),
         Ticked(w), NEW by, FlushAllClusters(rows, by)
  PROVE  /\ todo'[1].cluster = Controls /\ todo'[1].rows # << >>
         /\ LastTick(todo'[1]) + 1 = Len(w)
<1>1. Len(rows) \in Nat \ {0} /\ Len(w) \in Nat /\ Len(rows) <= Len(w)
  BY NotEmpty DEF Waiting
<1>2. 1 \in 1..Len(Clusters) /\ Clusters[1] = Controls
  BY ChunkAssumption, ReaderAssumption, NotEmpty DEF ChunkAssumption, ReaderAssumption
<1>3. todo'[1] = Chunk(Controls, rows)
  BY <1>2 DEF FlushAllClusters
<1>4. todo'[1].cluster = Controls /\ todo'[1].rows = rows
  BY <1>3 DEF Chunk
<1>5. rows[Len(rows)] = w[Len(w) - Len(rows) + Len(rows)]
  BY <1>1 DEF Waiting
<1>6. Len(w) - Len(rows) + Len(rows) = Len(w) /\ Len(w) \in 1..Len(w)
  BY <1>1
<1>7. rows[Len(rows)].tick = Len(w) - 1
  BY <1>5, <1>6 DEF Ticked
<1>8. LastTick(todo'[1]) = Len(w) - 1
  BY <1>4, <1>7 DEF LastTick
<1>9. QED
  BY <1>1, <1>4, <1>8

LEMMA ReachWritesFrame == IInv /\ Reach /\ WriteFrame => Reach'
<1> SUFFICES ASSUME IInv, Reach, WriteFrame PROVE Reach'
  OBVIOUS
<1>1. PICK s \in Samples :
        LET f == [tick |-> Len(written), sample |-> s]
            rows == Append(frames, f)
        IN  /\ written' = Append(written, f)
            /\ IF Len(rows) >= ChunkRows
               THEN FlushAllClusters(rows, "write")
               ELSE frames' = rows /\ UNCHANGED <<todo, pc, caller>>
  BY DEF WriteFrame
<1> DEFINE f == [tick |-> Len(written), sample |-> s]
           rows == Append(frames, f)
           w == Append(written, f)
<1>2. f \in Frame /\ f.tick = Len(written)
  BY DEF Frame, IInv, TypeOK_Frames
<1>3. /\ written' = w
      /\ \/ FlushAllClusters(rows, "write")
         \/ frames' = rows /\ UNCHANGED <<todo, pc, caller>>
  BY <1>1
<1> HIDE DEF f
<1>4. /\ rows \in Seq(Frame) /\ Len(rows) = Len(frames) + 1 /\ Len(frames) \in Nat
      /\ w \in Seq(Frame) /\ Len(w) = Len(written) + 1 /\ Len(written) \in Nat
  BY <1>2, AppendShape DEF IInv, TypeOK_Frames
<1>5. rows # << >>
  <2> HIDE DEF rows
  <2>1. QED
    BY <1>4, EmptyShape
<1>6. Waiting(rows, w) /\ Ticked(w)
  BY <1>2, WaitingMore DEF IInv, FramesInv, TypeOK_Frames
<1>7. pc = "open" /\ file' = file
  BY DEF WriteFrame
<1> HIDE DEF rows, w
<1>8. \E x \in Nat : ReachesIn(file', x)
  BY <1>7 DEF Reach
<1>9. CASE FlushAllClusters(rows, "write")
  <2>1. pc' = "flush" /\ frames' = << >>
    BY <1>9 DEF FlushAllClusters
  <2>2. /\ todo'[1].cluster = Controls /\ todo'[1].rows # << >>
        /\ LastTick(todo'[1]) + 1 = Len(w)
    BY <1>4, <1>5, <1>6, <1>9, FlushReaches
  <2>3. QED
    BY <1>3, <1>8, <2>1, <2>2 DEF Reach, LastTick
<1>10. CASE frames' = rows /\ UNCHANGED <<todo, pc, caller>>
  <2>1. Len(written') - Len(frames') = Len(written) - Len(frames)
    BY <1>3, <1>4, <1>10
  <2>2. ReachesIn(file', Len(written') - Len(frames'))
    BY <1>7, <2>1 DEF Reach
  <2>3. pc' = "open"
    BY <1>7, <1>10
  <2>4. QED
    BY <1>8, <2>2, <2>3 DEF Reach
<1>11. QED
  BY <1>3, <1>9, <1>10

LEMMA ReachFlushes == IInv /\ Reach /\ (FlushToDisk \/ Finish) => Reach'
<1> SUFFICES ASSUME IInv, Reach, FlushToDisk \/ Finish PROVE Reach'
  OBVIOUS
<1>1. pc = "open" /\ file' = file /\ written' = written
  BY DEF FlushToDisk, Finish
<1>2. /\ frames \in Seq(Frame) /\ written \in Seq(Frame) /\ Waiting(frames, written)
      /\ Ticked(written)
  BY DEF IInv, TypeOK_Frames, FramesInv
<1>3. \E x \in Nat : ReachesIn(file', x)
  BY <1>1 DEF Reach
<1>4. CASE frames # << >>
  <2>1. PICK by \in {"flush", "finish"} : FlushAllClusters(frames, by)
    BY <1>4 DEF FlushToDisk, Finish
  <2>2. pc' = "flush" /\ frames' = << >>
    BY <2>1 DEF FlushAllClusters
  <2>3. /\ todo'[1].cluster = Controls /\ todo'[1].rows # << >>
        /\ LastTick(todo'[1]) + 1 = Len(written)
    BY <1>2, <1>4, <2>1, FlushReaches
  <2>4. QED
    BY <1>1, <1>3, <2>2, <2>3 DEF Reach, LastTick
<1>5. CASE frames = << >>
  <2>1. pc' = "footer" /\ frames' = frames
    BY <1>5 DEF FlushToDisk, Finish, WriteFooter
  <2>2. Len(written) - Len(frames) = Len(written)
    BY <1>2, <1>5, EmptyShape
  <2>3. ReachesIn(file', Len(written'))
    BY <1>1, <2>2 DEF Reach
  <2>4. QED
    BY <1>3, <1>5, <2>1, <2>3 DEF Reach
<1>6. QED
  BY <1>4, <1>5

LEMMA ReachWritesUnit == IInv /\ Reach /\ WriteUnit => Reach'
<1> SUFFICES ASSUME IInv, Reach, WriteUnit PROVE Reach'
  OBVIOUS
<1> DEFINE u == todo[1]
<1>1. /\ Grown(todo[1]) /\ todo[1].cut = "whole" /\ pc \in Calls /\ Len(todo) \in Nat \ {0}
      /\ pc = "create" => todo[1].kind = "ACTL"
      /\ pc = "flush" => todo[1].kind = "CHNK"
      /\ pc = "footer" => todo[1].kind = "INDX"
      /\ pc = "laps" => todo[1].kind = "LAPS"
  BY WriteUnitGrows
<1>2. /\ file \in Seq(Unit) /\ written \in Seq(Frame) /\ frames \in Seq(Frame)
      /\ Chunks(file, written) /\ Ticked(written) /\ u \in Unit
      /\ u.kind = "CHNK" => HoldsIn(u, written)
      /\ file' = Append(file, u)
  BY <1>1 DEF IInv, TypeOK_Units, TypeOK_Frames, FramesInv, Grown
<1>3. /\ pc = "create" => pc' = "open"
      /\ pc = "flush" => pc' \in {"open", "flush", "footer"}
      /\ pc = "footer" => pc' = "patch"
      /\ pc = "laps" => pc' \in {"finished", "dead"}
      /\ UNCHANGED <<frames, written>>
  <2>1. pc # "flush" => Len(todo) = 1
    BY <1>1, IndexType, SingleShape DEF IInv, Shape, TypeOK_Units, Calls
  <2>2. QED
    BY <1>1, <2>1 DEF WriteUnit, WriteFooter
<1> HIDE DEF u
<1>4. \E x \in Nat : ReachesIn(file', x)
  <2>1. PICK x \in Nat : ReachesIn(file, x)
    BY DEF Reach
  <2>2. IsControls(u) => u.rows # << >>
    BY <1>2 DEF IsControls, HoldsIn
  <2>3. \E y \in Nat : ReachesIn(Append(file, u), y)
    BY <1>2, <2>1, <2>2, SomeReach
  <2>4. QED
    BY <1>2, <2>3
<1>5. CASE pc = "create"
  <2>1. ~IsControls(u)
    BY <1>1, <1>5 DEF IsControls, u
  <2>2. ReachesIn(file, Len(written) - Len(frames))
    BY <1>5 DEF Reach
  <2>3. ReachesIn(Append(file, u), Len(written) - Len(frames))
    BY <1>2, <2>1, <2>2, OtherReach
  <2>4. ReachesIn(file', Len(written') - Len(frames'))
    BY <1>2, <1>3, <2>3
  <2>5. QED
    BY <1>3, <1>4, <1>5, <2>4 DEF Reach
<1>6. CASE pc = "flush"
  <2>1. ReachesIn(Append(file, u), Len(written))
    <3>1. CASE ReachesIn(file, Len(written))
      BY <1>2, <3>1, StayReach
    <3>2. CASE u.cluster = Controls /\ LastTick(u) + 1 = Len(written)
      <4>1. IsControls(u)
        BY <1>1, <1>6, <3>2 DEF IsControls, u
      <4>2. PICK x \in Nat : ReachesIn(file, x)
        BY DEF Reach
      <4>3. QED
        BY <1>2, <3>2, <4>1, <4>2, ReachNow
    <3>3. QED
      BY <1>6, <3>1, <3>2 DEF Reach, u
  <2>2. ReachesIn(file', Len(written'))
    BY <1>2, <1>3, <2>1
  <2>3. frames' = << >> /\ Len(written') - Len(frames') = Len(written')
    <3>1. frames' = << >>
      BY <1>3, <1>6 DEF Reach
    <3>2. Len(frames') = 0 /\ Len(written') \in Nat
      BY <1>2, <1>3, <3>1, EmptyShape
    <3>3. QED
      BY <3>1, <3>2
  <2>4. QED
    BY <1>3, <1>4, <1>6, <2>2, <2>3 DEF Reach
<1>7. CASE pc = "footer"
  <2>1. ~IsControls(u)
    BY <1>1, <1>7 DEF IsControls, u
  <2>2. ReachesIn(file, Len(written)) /\ frames = << >>
    BY <1>7 DEF Reach
  <2>3. ReachesIn(Append(file, u), Len(written))
    BY <1>2, <2>1, <2>2, OtherReach
  <2>4. ReachesIn(file', Len(written'))
    BY <1>2, <1>3, <2>3
  <2>5. QED
    BY <1>3, <1>4, <1>7, <2>2, <2>4 DEF Reach
<1>8. CASE pc = "laps"
  BY <1>3, <1>4, <1>8 DEF Reach
<1>9. QED
  BY <1>1, <1>5, <1>6, <1>7, <1>8 DEF Calls

LEMMA ReachStep == IInv /\ Reach /\ [FileNext]_vars => Reach'
<1> SUFFICES ASSUME IInv, Reach, [FileNext]_vars PROVE Reach'
  OBVIOUS
<1>1. CASE UNCHANGED vars \/ WritePiece
  <2>1. UNCHANGED <<pc, file, frames, written, todo>>
    BY <1>1 DEF vars, WritePiece
  <2>2. QED
    BY <2>1 DEF Reach
<1>2. CASE PatchHeader \/ \E laps \in Seq(LapEntry) : AppendLaps(laps)
  <2>1. file' = file /\ pc' \in {"finished", "laps"}
    BY <1>2 DEF PatchHeader, AppendLaps
  <2>2. QED
    BY <2>1 DEF Reach
<1>3. CASE Dies
  <2>1. pc' \in {"finished", "dead"}
    BY <1>3 DEF Dies
  <2>2. PICK x \in Nat : ReachesIn(file, x)
    BY DEF Reach
  <2>3. ReachesIn(file', x)
    <3>1. CASE file' = file
      BY <2>2, <3>1
    <3>2. CASE \E u \in Unit : Grown(u) /\ u.cut # "whole"
      <4>1. PICK u \in Unit : Grown(u) /\ u.cut # "whole"
        BY <3>2
      <4>2. ~IsControls(u) /\ file' = Append(file, u) /\ file \in Seq(Unit)
        BY <4>1 DEF IsControls, Grown, IInv, TypeOK_Units
      <4>3. QED
        BY <2>2, <4>2, OtherReach
    <3>3. QED
      BY <1>3, <3>1, <3>2, DiesGrows
  <2>4. ReachesIn(file', x)
    BY <2>3
  <2>5. QED
    BY <2>1, <2>4 DEF Reach
<1>4. QED
  BY <1>1, <1>2, <1>3, ReachWritesFrame, ReachFlushes, ReachWritesUnit DEF FileNext, WriterNext

-----------------------------------------------------------------------------
(* When a reader is not refused.                                           *)

(* Every unit is whole, and only the last one may be another than a chunk. *)
Intact ==
  /\ cut = "none" /\ footer_offset = 0 /\ file # << >> /\ file[1].cut = "whole"
  /\ \A n \in 2..Len(file) :
       file[n].cut = "whole" /\ (file[n].kind = "CHNK" \/ n = Len(file))

LEMMA FooterReadable == IInv /\ Layout /\ HasFooter => FramesReadable
<1> SUFFICES ASSUME IInv, Layout, HasFooter PROVE FramesReadable
  OBVIOUS
<1>1. /\ Len(file) \in Nat /\ footer_offset \in 1..Len(file)
      /\ file[footer_offset] = IndexAndFooter(index_entries) /\ file[1].cut = "whole"
  BY DEF IInv, TypeOK_Units, IndexInv, HeaderIn, HasFooter, Layout
<1>2. Size \in Nat /\ Len(file) <= Size
  BY <1>1 DEF Size
<1>3. \A n \in 1..Len(file) : n \in 1..Size /\ At(n) = file[n]
  BY <1>1, <1>2 DEF At
<1>4. Opens
  <2>1. 1 \in 1..Len(file) /\ Size > 0
    BY <1>1, <1>2
  <2>2. Whole(1)
    BY <1>1, <1>3, <2>1 DEF Whole
  <2>3. QED
    BY <2>1, <2>2 DEF Opens
<1>5. Entries = index_entries
  <2>1. At(footer_offset) = IndexAndFooter(index_entries)
    BY <1>1, <1>3
  <2>2. IndexAndFooter(index_entries).index = index_entries
    BY DEF IndexAndFooter
  <2>3. QED
    BY <2>1, <2>2 DEF Entries
<1>6. \A k \in 1..Len(index_entries) : Whole(index_entries[k].at)
  <2>1. \A k \in 1..Len(index_entries) : ChunkAt(file, index_entries[k].at)
    BY DEF IInv, IndexInv, EntriesIn
  <2>2. QED
    BY <1>3, <2>1 DEF ChunkAt, Whole
<1>7. QED
  <2>1. ~ClusterFails(Controls)
    BY <1>5, <1>6 DEF ClusterFails
  <2>2. QED
    BY <1>4, <2>1 DEF FramesReadable

(* The scan ends where the chunks do.                                      *)
LEMMA IntactReadable == file \in Seq(Unit) /\ Intact => FramesReadable
<1> SUFFICES ASSUME file \in Seq(Unit), Intact PROVE FramesReadable
  OBVIOUS
<1> DEFINE L == Len(file)
<1>1. L \in Nat \ {0} /\ Size = L /\ ~HasFooter /\ \A n \in 1..L : At(n) = file[n]
  BY NotEmpty DEF Intact, Size, At, HasFooter
<1> DEFINE Stops(n) == /\ n = Size + 1 \/ At(n).kind # "CHNK" \/ ~Whole(n)
                       /\ \A m \in 2..(n - 1) : At(m).kind = "CHNK" /\ Whole(m)
<1>2. \A n \in 1..L : Whole(n)
  <2>1. \A n \in 1..L : file[n].cut = "whole"
    <3>1. \A n \in 1..L : n = 1 \/ n \in 2..L
      BY <1>1
    <3>2. QED
      BY <3>1 DEF Intact
  <2>2. QED
    BY <1>1, <2>1 DEF Whole
<1>3. \A m \in 2..(L - 1) : At(m).kind = "CHNK" /\ Whole(m)
  <2> SUFFICES ASSUME NEW m \in 2..(L - 1) PROVE At(m).kind = "CHNK" /\ Whole(m)
    OBVIOUS
  <2>1. m \in 1..L /\ m \in 2..L /\ m # L
    BY <1>1
  <2>2. QED
    BY <1>1, <1>2, <2>1 DEF Intact
<1>4. \E n \in 2..(Size + 1) : Stops(n)
  <2>1. CASE L \in 2..L /\ file[L].kind # "CHNK"
    <3>1. L \in 2..(Size + 1) /\ At(L).kind # "CHNK"
      BY <1>1, <2>1
    <3>2. Stops(L)
      BY <1>3, <3>1
    <3>3. QED
      BY <3>1, <3>2
  <2>2. CASE ~(L \in 2..L /\ file[L].kind # "CHNK")
    <3>1. \A m \in 2..((L + 1) - 1) : At(m).kind = "CHNK" /\ Whole(m)
      <4> SUFFICES ASSUME NEW m \in 2..((L + 1) - 1) PROVE At(m).kind = "CHNK" /\ Whole(m)
        OBVIOUS
      <4>1. m \in 1..L /\ (m \in 2..(L - 1) \/ m = L)
        BY <1>1
      <4>2. CASE m = L
        <5>1. L \in 2..L /\ L \in 1..L
          BY <1>1, <4>2
        <5>2. QED
          BY <1>1, <1>2, <2>2, <4>2, <5>1
      <4>3. QED
        BY <1>3, <4>1, <4>2
    <3>2. L + 1 = Size + 1 /\ L + 1 \in 2..(Size + 1)
      BY <1>1
    <3>3. Stops(L + 1)
      BY <3>1, <3>2
    <3>4. QED
      BY <3>2, <3>3
  <2>3. QED
    BY <2>1, <2>2
<1>5. ScanStop = CHOOSE n \in 2..(Size + 1) : Stops(n)
  BY DEF ScanStop
<1> HIDE DEF Stops
<1>6. ScanStop \in 2..(Size + 1) /\ Stops(ScanStop)
  BY <1>4, <1>5
<1> DEFINE stop == ScanStop
<1>7. stop \in 2..(L + 1) /\ \A m \in 2..(stop - 1) : Whole(m)
  BY <1>1, <1>6 DEF Stops
<1> HIDE DEF stop
<1>8. stop <= Size => stop \in 1..L /\ At(stop).cut = "whole"
  <2> SUFFICES ASSUME stop <= Size PROVE stop \in 1..L /\ At(stop).cut = "whole"
    OBVIOUS
  <2>1. stop \in 1..L
    BY <1>1, <1>7
  <2>2. QED
    BY <1>2, <2>1 DEF Whole
<1>9. ~ScanFails
  BY <1>8 DEF ScanFails, stop
<1>10. ScanEnd = stop - 1
  <2>1. stop < Size => stop <= Size
    BY <1>1, <1>7
  <2>2. ~Overwritten(stop)
    BY <1>8, <2>1 DEF Overwritten
  <2>3. QED
    BY <2>2 DEF ScanEnd, stop
<1>11. Opens
  <2>1. Size > 0 /\ 1 \in 1..L
    BY <1>1
  <2>2. QED
    BY <1>2, <1>9, <2>1 DEF Opens
<1>12. Entries = [k \in 1..(stop - 2) |-> ScannedEntry(k + 1)]
  <2>1. (stop - 1) - 1 = stop - 2
    BY <1>7
  <2>2. QED
    BY <1>1, <1>10, <2>1 DEF Entries, ScanChunks
<1>13. Len(Entries) = stop - 2
  <2>1. stop - 2 \in Nat
    BY <1>1, <1>7
  <2>2. QED
    BY <1>12, <2>1
<1>14. \A k \in 1..Len(Entries) : Whole(Entries[k].at)
  <2> SUFFICES ASSUME NEW k \in 1..(stop - 2) PROVE Whole(Entries[k].at)
    BY <1>13
  <2>1. Entries[k].at = k + 1
    BY <1>12 DEF ScannedEntry
  <2>2. k + 1 \in 2..(stop - 1)
    BY <1>1, <1>7
  <2>3. QED
    BY <1>7, <2>1, <2>2
<1>15. QED
  BY <1>11, <1>14 DEF FramesReadable, ClusterFails

(* So it is between the calls, and before the header is patched.           *)
LEMMA IntactBetween == IInv /\ Layout /\ pc \in {"open", "patch"} => Intact
<1> SUFFICES ASSUME IInv, Layout, pc \in {"open", "patch"} PROVE Intact
  OBVIOUS
<1>1. cut = "none" /\ footer_offset = 0 /\ file # << >> /\ file[1].cut = "whole"
  BY DEF IInv, Shape, Calls, Layout
<1>2. Len(file) \in Nat
  BY DEF IInv, TypeOK_Units
<1>3. CASE pc = "open"
  BY <1>1, <1>3 DEF Layout, Intact
<1>4. CASE pc = "patch"
  <2>1. file[Len(file)].cut = "whole"
    BY <1>4, IndexType DEF IInv, Shape, TypeOK_Units
  <2>2. \A n \in 2..Len(file) : n \in 2..(Len(file) - 1) \/ n = Len(file)
    BY <1>2
  <2>3. QED
    BY <1>1, <1>4, <2>1, <2>2 DEF Layout, Intact
<1>5. QED
  BY <1>3, <1>4

-----------------------------------------------------------------------------
(* The steps of the log.                                                   *)
FileInv == IInv /\ Layout /\ Reach
Readable == (HasFooter => FramesReadable) /\ (Intact => FramesReadable)

LEMMA FileAlways == FileSpec => []FileInv
<1>1. Init => FileInv
  BY InitInv, LayoutInit, ReachInit DEF FileInv
<1>2. FileInv /\ [FileNext]_vars => FileInv'
  BY InvStep, LayoutStep, ReachStep DEF FileInv
<1>3. QED
  BY <1>1, <1>2, PTL DEF FileSpec

LEMMA ReadableAlways == FileSpec => []Readable
<1>1. FileInv => Readable
  BY FooterReadable, IntactReadable DEF FileInv, Readable, IInv, TypeOK_Units
<1>2. QED
  BY <1>1, FileAlways, PTL

(* A step makes no frame less durable, and only a controls chunk more.     *)
LEMMA DurableGrows ==
  ASSUME FileInv, FileInv', [FileNext]_vars
  PROVE  /\ Durable \in Nat /\ Durable' \in Durable..Len(written')
         /\ ~(WriteUnit /\ pc = "flush") => Durable' = Durable
<1>1. PICK x \in Nat : ReachesIn(file, x)
  BY DEF FileInv, Reach
<1>2. PICK y \in Nat : ReachesIn(file', y)
  BY DEF FileInv, Reach
<1>3. Durable = x /\ Durable' = y
  BY <1>1, <1>2, DurableIs, DurableWillBe
<1>4. y \in 0..Len(written')
  <2>1. /\ file' \in Seq(Unit) /\ written' \in Seq(Frame)
        /\ Chunks(file', written') /\ Ticked(written')
    BY DEF FileInv, IInv, TypeOK_Units, TypeOK_Frames, FramesInv
  <2>2. QED
    BY <1>2, <2>1, ReachBounded
<1>5. file' = file \/ \E u \in Unit : Grown(u) /\ (IsControls(u) => WriteUnit /\ pc = "flush")
  <2>1. CASE WriteUnit
    <3>1. /\ Grown(todo[1]) /\ todo[1].cut = "whole" /\ pc \in Calls
          /\ Len(todo) \in Nat \ {0}
          /\ pc = "create" => todo[1].kind = "ACTL"
          /\ pc = "flush" => todo[1].kind = "CHNK"
          /\ pc = "footer" => todo[1].kind = "INDX"
          /\ pc = "laps" => todo[1].kind = "LAPS"
      BY <2>1, WriteUnitGrows DEF FileInv
    <3>2. IsControls(todo[1]) => pc = "flush"
      BY <3>1 DEF IsControls, Calls
    <3>3. todo[1] \in Unit
      BY <3>1 DEF Grown
    <3>4. QED
      BY <2>1, <3>1, <3>2, <3>3
  <2>2. CASE Dies
    BY <2>2, DiesGrows DEF FileInv, IsControls
  <2>3. QED
    BY <2>1, <2>2, OthersStay
<1>6. x <= y /\ (~(WriteUnit /\ pc = "flush") => x = y)
  <2>1. CASE file' = file
    <3>1. ReachesIn(file', x)
      BY <1>1, <2>1
    <3>2. Durable' = x
      BY <3>1, DurableWillBe
    <3>3. QED
      BY <1>3, <3>2
  <2>2. CASE \E u \in Unit : Grown(u) /\ (IsControls(u) => WriteUnit /\ pc = "flush")
    <3>1. PICK u \in Unit : Grown(u) /\ (IsControls(u) => WriteUnit /\ pc = "flush")
      BY <2>2
    <3>2. file \in Seq(Unit) /\ file' = Append(file, u)
      BY <3>1 DEF Grown, FileInv, IInv, TypeOK_Units
    <3>3. CASE ~IsControls(u)
      <4>1. ReachesIn(file', x)
        BY <1>1, <3>2, <3>3, OtherReach
      <4>2. Durable' = x
        BY <4>1, DurableWillBe
      <4>3. QED
        BY <1>3, <4>2
    <3>4. CASE IsControls(u)
      <4>1. Ends(file) \subseteq Ends(file')
        BY <3>2, EndsOfAppend
      <4>2. x \in {0} \cup Ends(file) /\ {0} \cup Ends(file') \subseteq 0..y
        BY <1>1, <1>2 DEF ReachesIn
      <4>3. x \in 0..y
        BY <4>1, <4>2
      <4>4. QED
        BY <3>1, <3>4, <4>3
    <3>5. QED
      BY <3>3, <3>4
  <2>3. QED
    BY <1>5, <2>1, <2>2
<1>7. y \in x..Len(written')
  BY <1>4, <1>6
<1>8. QED
  BY <1>3, <1>6, <1>7

LogFrame == [tick : 0..(MaxFrames - 1), sample : Samples]
seenNow == IF FramesReadable THEN Durable ELSE -1
sealedNow == IF HasFooter THEN "yes" ELSE "no"

LEMMA LogAccepts ==
  ASSUME FileInv, FileInv', Readable, Readable', WriteFrame
  PROVE  Log!LogNext
<1>1. /\ pc = "open" /\ UNCHANGED <<cut, file, footer_offset>>
      /\ Len(written) < MaxFrames /\ Len(written) \in Nat
  BY DEF WriteFrame, FileInv, IInv, TypeOK_Frames
<1>2. PICK s \in Samples : written' = Append(written, [tick |-> Len(written), sample |-> s])
  BY DEF WriteFrame
<1>3. [tick |-> Len(written), sample |-> s] \in LogFrame
  <2>1. Len(written) \in 0..(MaxFrames - 1)
    BY <1>1, ChunkAssumption DEF ChunkAssumption
  <2>2. QED
    BY <2>1 DEF LogFrame
<1>4. Intact /\ Intact' /\ ~HasFooter /\ ~HasFooter'
  <2>1. Intact /\ ~HasFooter
    BY <1>1, IntactBetween DEF FileInv, HasFooter, Intact
  <2>2. QED
    BY <1>1, <2>1 DEF Intact, HasFooter
<1>5. FramesReadable /\ FramesReadable'
  BY <1>4 DEF Readable
<1>6. Durable' = Durable
  <2>1. [FileNext]_vars /\ ~WriteUnit
    BY <1>1 DEF FileNext, WriterNext, WriteUnit, Writing
  <2>2. QED
    BY <2>1, DurableGrows
<1>7. seenNow' = seenNow /\ sealedNow = "no" /\ sealedNow' = sealedNow
  BY <1>4, <1>5, <1>6 DEF seenNow, sealedNow
<1>8. Log!Accept
  BY <1>2, <1>3, <1>6, <1>7 DEF Log!Accept, seenNow, sealedNow, LogFrame
<1>9. QED
  BY <1>8 DEF Log!LogNext

LEMMA LogSeals ==
  ASSUME FileInv, FileInv', Readable, Readable', PatchHeader
  PROVE  Log!LogNext
<1>1. /\ pc = "patch" /\ footer_offset' = Len(file) /\ file' = file /\ written' = written
      /\ Len(file) \in Nat \ {0} /\ Len(written) \in Nat
  BY DEF PatchHeader, FileInv, IInv, Shape, TypeOK_Units, TypeOK_Frames
<1>2. Intact /\ ~HasFooter /\ HasFooter'
  BY <1>1, IntactBetween DEF FileInv, HasFooter, Intact
<1>3. FramesReadable /\ FramesReadable'
  BY <1>2 DEF Readable
<1>4. Durable = Len(written) /\ Durable' = Durable
  <2>1. ReachesIn(file, Len(written)) /\ ReachesIn(file', Len(written))
    BY <1>1 DEF FileInv, Reach
  <2>2. QED
    BY <1>1, <2>1, DurableIs, DurableWillBe
<1>5. seenNow = Durable /\ seenNow' = seenNow /\ sealedNow = "no" /\ sealedNow' = "yes"
  BY <1>2, <1>3, <1>4 DEF seenNow, sealedNow
<1>6. Log!Seal
  BY <1>1, <1>4, <1>5 DEF Log!Seal, seenNow, sealedNow
<1>7. QED
  BY <1>6 DEF Log!LogNext

LEMMA LogStep ==
  ASSUME FileInv, FileInv', Readable, Readable', [FileNext]_vars
  PROVE  [Log!LogNext]_(Log!logVars)
<1>1. CASE WriteFrame
  BY <1>1, LogAccepts
<1>2. CASE PatchHeader
  BY <1>2, LogSeals
<1>3. CASE ~WriteFrame /\ ~PatchHeader
  <2>1. written' = written /\ footer_offset' = footer_offset
    BY <1>3 DEF FileNext, WriterNext, vars, FlushToDisk, Finish, WritePiece, WriteUnit, Dies,
                AppendLaps
  <2>2. /\ Durable \in Nat /\ Durable' \in Durable..Len(written')
        /\ ~(WriteUnit /\ pc = "flush") => Durable' = Durable
    BY DurableGrows
  <2>3. CASE HasFooter
    <3>1. pc # "flush"
      BY <2>3 DEF HasFooter, FileInv, IInv, Shape
    <3>2. HasFooter' /\ FramesReadable /\ FramesReadable' /\ Durable' = Durable
      BY <2>1, <2>2, <2>3, <3>1 DEF HasFooter, Readable
    <3>3. seenNow' = seenNow /\ sealedNow' = sealedNow
      BY <2>3, <3>2 DEF seenNow, sealedNow
    <3>4. QED
      BY <2>1, <3>2, <3>3 DEF Log!logVars, seenNow, sealedNow
  <2>4. CASE ~HasFooter
    <3>1. sealedNow = "no" /\ sealedNow' = "no"
      BY <2>1, <2>4 DEF HasFooter, sealedNow
    <3>2. seenNow' \in {-1, Durable'}
      BY DEF seenNow
    <3>3. Durable' \in Durable..Len(written)
      BY <2>1, <2>2
    <3>4. Log!Persist
      BY <2>1, <3>1, <3>2, <3>3 DEF Log!Persist, Log!Refused, seenNow, sealedNow
    <3>5. QED
      BY <3>4 DEF Log!LogNext
  <2>5. QED
    BY <2>3, <2>4
<1>4. QED
  BY <1>1, <1>2, <1>3

LEMMA LogInits == Init => Log!LogInit
<1> SUFFICES ASSUME Init PROVE Log!LogInit
  OBVIOUS
<1>1. written = << >> /\ file = << >> /\ cut = "none" /\ footer_offset = 0
  BY DEF Init
<1>2. Ends(file) = {}
  BY <1>1 DEF Ends
<1>3. ReachesIn(file, 0)
  BY <1>2 DEF ReachesIn
<1>4. Durable = 0
  BY <1>3, DurableIs
<1>5. ~FramesReadable /\ ~HasFooter
  <2>1. Size = 0
    BY <1>1 DEF Size
  <2>2. QED
    BY <1>1, <2>1 DEF FramesReadable, Opens, HasFooter
<1>6. QED
  BY <1>1, <1>4, <1>5 DEF Log!LogInit, Log!Refused

(* The V1 file is a log of the frames, whatever laps are appended: at every *)
(* moment the whole controls chunks hold a prefix of them that only grows,  *)
(* a reader is given exactly that prefix or is refused, and once finish()   *)
(* has patched the header every reader is given all frames.                 *)
THEOREM FileIsALog == FileSpec => ImplementsLog
<1>1. /\ FileInv /\ FileInv' /\ Readable /\ Readable' /\ [FileNext]_vars
      => [Log!LogNext]_(Log!logVars)
  BY LogStep
<1>2. QED
  BY <1>1, LogInits, FileAlways, ReadableAlways, PTL DEF FileSpec, ImplementsLog, Log!LogSpec

-----------------------------------------------------------------------------
(* Each cluster for itself.                                                *)
(*                                                                         *)
(* The index lists the chunks in the order of the file, and the entries of *)
(* one cluster follow one another without a gap.  In the k-th place of the *)
(* index, e[k] frames of the cluster have been listed.                     *)
ClusterSet == {Clusters[n] : n \in 1..Len(Clusters)}

LEMMA ClustersAre ==
  /\ Len(Clusters) \in Nat \ {0} /\ 1 \in 1..Len(Clusters) /\ Clusters[1] = Controls
  /\ Controls \in ClusterSet /\ ToSet(Clusters) = ClusterSet
  /\ \A m, n \in 1..Len(Clusters) : Clusters[m] = Clusters[n] => m = n
<1>1. Len(Clusters) \in Nat \ {0} /\ 1 \in 1..Len(Clusters) /\ DOMAIN Clusters = 1..Len(Clusters)
  BY ChunkAssumption, NotEmpty DEF ChunkAssumption
<1>2. Clusters[1] = Controls
  BY ReaderAssumption DEF ReaderAssumption
<1>3. \A m, n \in 1..Len(Clusters) : Clusters[m] = Clusters[n] => m = n
  BY ChunkAssumption DEF ChunkAssumption
<1>4. ToSet(Clusters) = ClusterSet
  BY <1>1 DEF ToSet, ClusterSet
<1>5. QED
  BY <1>1, <1>2, <1>3, <1>4 DEF ClusterSet

Lane(e, es, c) ==
  /\ e[0] = 0 /\ \A k \in 0..Len(es) : e[k] \in Nat
  /\ \A k \in 1..Len(es) :
       /\ e[k - 1] <= e[k]
       /\ es[k].cluster = c => es[k].first = e[k - 1] /\ es[k].last + 1 = e[k]
       /\ es[k].cluster # c => e[k] = e[k - 1]

Listed(es, c, x) == \E e : Lane(e, es, c) /\ e[Len(es)] = x

Longer(es2, es, en) == es2 = Append(es, en)

LEMMA ListedMore ==
  ASSUME NEW es \in Seq(IndexEntry), NEW en \in IndexEntry, NEW es2, Longer(es2, es, en),
         NEW c, NEW x, Listed(es, c, x), NEW y \in Nat,
         en.cluster = c => en.first = x /\ en.last + 1 = y /\ x <= y,
         en.cluster # c => y = x
  PROVE  Listed(es2, c, y)
<1>1. PICK e : Lane(e, es, c) /\ e[Len(es)] = x
  BY DEF Listed
<1> DEFINE m == Len(es)
           f == [k \in 0..(m + 1) |-> IF k <= m THEN e[k] ELSE y]
<1>2. /\ m \in Nat /\ Len(es2) = m + 1 /\ es2[m + 1] = en
      /\ \A k \in 1..m : es2[k] = es[k]
  BY DEF Longer
<1>3. /\ e[0] = 0 /\ \A k \in 0..m : e[k] \in Nat
      /\ \A k \in 1..m :
           /\ e[k - 1] <= e[k]
           /\ es[k].cluster = c => es[k].first = e[k - 1] /\ es[k].last + 1 = e[k]
           /\ es[k].cluster # c => e[k] = e[k - 1]
      /\ e[m] = x
  BY <1>1 DEF Lane
<1> HIDE DEF m
<1>4. f[m + 1] = y /\ \A k \in 0..m : f[k] = e[k]
  BY <1>2
<1> HIDE DEF f
<1>5. f[0] = 0 /\ \A k \in 0..(m + 1) : f[k] \in Nat
  <2>1. f[0] = 0
    BY <1>2, <1>3, <1>4
  <2>2. ASSUME NEW k \in 0..(m + 1) PROVE f[k] \in Nat
    <3>1. k \in 0..m \/ k = m + 1
      BY <1>2
    <3>2. QED
      BY <1>3, <1>4, <3>1
  <2>3. QED
    BY <2>1, <2>2
<1>6. ASSUME NEW k \in 1..(m + 1)
      PROVE  /\ f[k - 1] <= f[k]
             /\ es2[k].cluster = c => es2[k].first = f[k - 1] /\ es2[k].last + 1 = f[k]
             /\ es2[k].cluster # c => f[k] = f[k - 1]
  <2>1. CASE k \in 1..m
    <3>1. k \in 0..m /\ k - 1 \in 0..m
      BY <1>2, <2>1
    <3>2. f[k] = e[k] /\ f[k - 1] = e[k - 1] /\ es2[k] = es[k]
      BY <1>2, <1>4, <2>1, <3>1
    <3>3. QED
      BY <1>3, <2>1, <3>2
  <2>2. CASE k = m + 1
    <3>1. k - 1 = m /\ m \in 0..m
      BY <1>2, <2>2
    <3>2. f[k] = y /\ f[k - 1] = x /\ es2[k] = en /\ x \in Nat
      BY <1>2, <1>3, <1>4, <2>2, <3>1
    <3>3. x <= y
      BY <3>2
    <3>4. QED
      BY <3>2, <3>3
  <2>3. QED
    BY <1>2, <2>1, <2>2
<1>7. Lane(f, es2, c)
  BY <1>2, <1>5, <1>6 DEF Lane
<1>8. f[Len(es2)] = y
  BY <1>2, <1>4
<1>9. QED
  BY <1>7, <1>8 DEF Listed

(* A chunk of frames that were written has the ticks of its place.         *)
LEMMA ChunkTicks ==
  ASSUME NEW c \in Unit, NEW w \in Seq(Frame), HoldsIn(c, w), Ticked(w)
  PROVE  /\ c.rows \in Seq(Frame) /\ Len(c.rows) \in Nat \ {0} /\ Len(w) \in Nat
         /\ c.rows[1].tick \in Nat /\ c.rows[1].tick + Len(c.rows) <= Len(w)
         /\ LastTick(c) + 1 = c.rows[1].tick + Len(c.rows)
         /\ \A k \in 1..Len(c.rows) : c.rows[k] = w[c.rows[1].tick + k]
<1>1. c.rows \in Seq(Frame) /\ c.rows # << >>
  BY DEF Unit, HoldsIn
<1>2. /\ Len(c.rows) \in Nat \ {0} /\ 1 \in 1..Len(c.rows) /\ Len(c.rows) \in 1..Len(c.rows)
      /\ Len(w) \in Nat
  BY <1>1, NotEmpty
<1>3. c.rows[1].tick \in Nat
  <2>1. c.rows[1] \in Frame
    BY <1>1, <1>2
  <2>2. QED
    BY <2>1 DEF Frame
<1>4. \A k \in 1..Len(c.rows) :
        c.rows[1].tick + k <= Len(w) /\ c.rows[k] = w[c.rows[1].tick + k]
  BY DEF HoldsIn
<1> DEFINE a == c.rows[1].tick
           n == Len(c.rows)
<1>5. a + n <= Len(w) /\ c.rows[n] = w[a + n]
  BY <1>2, <1>4
<1>6. a + n \in 1..Len(w)
  BY <1>2, <1>3, <1>5
<1>7. w[a + n].tick = (a + n) - 1
  BY <1>6 DEF Ticked
<1>8. LastTick(c) = (a + n) - 1
  BY <1>5, <1>7 DEF LastTick
<1>9. LastTick(c) + 1 = a + n
  BY <1>2, <1>3, <1>8
<1>10. QED
  BY <1>1, <1>2, <1>3, <1>4, <1>5, <1>9

-----------------------------------------------------------------------------
(* Where the clusters are, call by call: x gives for each cluster how many *)
(* frames its chunks hold.                                                 *)
Waits(units) == {units[n].cluster : n \in 1..Len(units)}

Ordered ==
  /\ \A k \in 1..Len(index_entries) : index_entries[k].at = k + 1
  /\ pc = "create" => Len(index_entries) = 0 /\ Len(written) = 0 /\ Len(frames) = 0
  /\ pc \in {"open", "flush", "footer"} => Len(file) = Len(index_entries) + 1
  /\ pc = "patch" => Len(file) = Len(index_entries) + 2
  /\ footer_offset # 0 => footer_offset = Len(index_entries) + 2
  /\ pc = "open" => Len(frames) < ChunkRows
  /\ pc = "flush" => Len(frames) = 0

(* The chunks of one flush_all_clusters that are still to be written.      *)
Round(units, w) ==
  /\ \A n \in 1..Len(units) : units[n].rows = units[1].rows /\ units[n].cluster \in ClusterSet
  /\ \A m, n \in 1..Len(units) : units[m].cluster = units[n].cluster => m = n
  /\ Len(units[1].rows) <= ChunkRows
  /\ units[1].rows[1].tick + Len(units[1].rows) = Len(w)
  /\ Controls \in Waits(units) => units[1].cluster = Controls /\ ClusterSet \subseteq Waits(units)

Lag(x, w) ==
  \A c \in ClusterSet : /\ x[c] <= Len(w) /\ x[c] <= x[Controls]
                        /\ x[Controls] <= x[c] + ChunkRows

Even(x, n) == \A c \in ClusterSet : x[c] = n

Placed(x) ==
  /\ x \in [ClusterSet -> Nat]
  /\ \A c \in ClusterSet : Listed(index_entries, c, x[c])
  /\ Lag(x, written)
  /\ pc \in {"create", "open"} => Even(x, Len(written) - Len(frames))
  /\ pc = "flush" =>
       /\ Round(todo, written)
       /\ \A c \in ClusterSet : x[c] = IF c \in Waits(todo) THEN todo[1].rows[1].tick ELSE Len(written)
  /\ pc \in {"footer", "patch"} \/ footer_offset # 0 => Even(x, Len(written))

LanesInv == Ordered /\ \E x : Placed(x)

LEMMA LanesInit == Init => LanesInv
<1> SUFFICES ASSUME Init PROVE LanesInv
  OBVIOUS
<1>1. /\ pc = "create" /\ Len(index_entries) = 0 /\ Len(written) = 0 /\ Len(frames) = 0
      /\ footer_offset = 0
  BY DEF Init
<1>2. Ordered
  BY <1>1 DEF Ordered
<1> DEFINE x == [c \in ClusterSet |-> 0]
           e == [k \in 0..0 |-> 0]
<1>3. ASSUME NEW c \in ClusterSet PROVE Listed(index_entries, c, x[c])
  <2>1. Lane(e, index_entries, c) /\ e[Len(index_entries)] = 0
    BY <1>1 DEF Lane
  <2>2. x[c] = 0
    OBVIOUS
  <2> HIDE DEF e, x
  <2>3. QED
    BY <2>1, <2>2 DEF Listed
<1>4. x \in [ClusterSet -> Nat] /\ \A c \in ClusterSet : x[c] = 0
  OBVIOUS
<1> HIDE DEF x
<1>5. Lag(x, written) /\ Even(x, Len(written) - Len(frames))
  <2>1. ChunkRows \in Nat /\ Controls \in ClusterSet
    BY ChunkAssumption, ClustersAre DEF ChunkAssumption
  <2>2. x[Controls] = 0
    BY <1>4, <2>1
  <2>3. QED
    BY <1>1, <1>4, <2>1, <2>2 DEF Lag, Even
<1>6. Placed(x)
  BY <1>1, <1>3, <1>4, <1>5 DEF Placed
<1>7. QED
  BY <1>2, <1>6 DEF LanesInv

(* A flush begins: every cluster waits for a chunk of the same rows.       *)
LEMMA RoundBegins ==
  ASSUME NEW rows \in Seq(Frame), rows # << >>, Len(rows) <= ChunkRows, NEW w \in Seq(Frame),
         Waiting(rows, w), Ticked(w), NEW by, FlushAllClusters(rows, by),
         NEW x, Even(x, Len(w) - Len(rows))
  PROVE  /\ Round(todo', w)
         /\ \A c \in ClusterSet :
              x[c] = IF c \in Waits(todo') THEN todo'[1].rows[1].tick ELSE Len(w)
<1>1. Len(rows) \in Nat \ {0} /\ 1 \in 1..Len(rows) /\ Len(w) \in Nat /\ Len(rows) <= Len(w)
  BY NotEmpty DEF Waiting
<1>2. rows[1].tick = Len(w) - Len(rows)
  <2>1. rows[1] = w[Len(w) - Len(rows) + 1]
    BY <1>1 DEF Waiting
  <2>2. Len(w) - Len(rows) + 1 \in 1..Len(w)
    BY <1>1
  <2>3. w[Len(w) - Len(rows) + 1].tick = (Len(w) - Len(rows) + 1) - 1
    BY <2>2 DEF Ticked
  <2>4. QED
    BY <1>1, <2>1, <2>3
<1> DEFINE N == Len(Clusters)
<1>3. /\ N \in Nat \ {0} /\ 1 \in 1..N /\ Clusters[1] = Controls
      /\ \A m, n \in 1..N : Clusters[m] = Clusters[n] => m = n
  BY ClustersAre
<1>4. todo' = [n \in 1..N |-> Chunk(Clusters[n], rows)]
  BY DEF FlushAllClusters
<1> HIDE DEF N
<1>5. Len(todo') = N /\ \A n \in 1..N : todo'[n].rows = rows /\ todo'[n].cluster = Clusters[n]
  <2>1. Len(todo') = N
    BY <1>3, <1>4
  <2>2. \A n \in 1..N : todo'[n] = Chunk(Clusters[n], rows)
    BY <1>4
  <2>3. QED
    BY <2>1, <2>2 DEF Chunk
<1> DEFINE t == todo'
<1> HIDE DEF t
<1>6. Len(t) = N /\ \A n \in 1..N : t[n].rows = rows /\ t[n].cluster = Clusters[n]
  BY <1>5 DEF t
<1>7. Waits(t) = ClusterSet
  BY <1>6 DEF Waits, ClusterSet, N
<1>8. Round(t, w)
  <2>1. \A n \in 1..Len(t) : t[n].rows = t[1].rows /\ t[n].cluster \in ClusterSet
    BY <1>3, <1>6 DEF ClusterSet, N
  <2>2. \A m, n \in 1..Len(t) : t[m].cluster = t[n].cluster => m = n
    BY <1>3, <1>6
  <2>3. Len(t[1].rows) <= ChunkRows /\ t[1].rows[1].tick + Len(t[1].rows) = Len(w)
    BY <1>1, <1>2, <1>3, <1>6
  <2>4. t[1].cluster = Controls
    BY <1>3, <1>6
  <2>5. QED
    BY <1>7, <2>1, <2>2, <2>3, <2>4 DEF Round
<1>9. \A c \in ClusterSet : x[c] = t[1].rows[1].tick
  BY <1>2, <1>3, <1>6 DEF Even
<1>10. QED
  BY <1>7, <1>8, <1>9 DEF t

LEMMA LanesFlush ==
  ASSUME IInv, Ordered, NEW x, Placed(x), NEW rows \in Seq(Frame), rows # << >>, Len(rows) <= ChunkRows,
         NEW w \in Seq(Frame), Waiting(rows, w), Ticked(w), Len(written) <= Len(w),
         Even(x, Len(w) - Len(rows)), NEW by, FlushAllClusters(rows, by),
         pc = "open", written' = w, UNCHANGED <<cut, file, footer_offset, index_entries>>
  PROVE  LanesInv'
<1>1. pc' = "flush" /\ frames' = << >> /\ Len(frames') = 0 /\ footer_offset = 0
  BY EmptyShape DEF FlushAllClusters, IInv, Shape
<1>2. Ordered'
  BY <1>1 DEF Ordered
<1>3. /\ Round(todo', w)
      /\ \A c \in ClusterSet :
           x[c] = IF c \in Waits(todo') THEN todo'[1].rows[1].tick ELSE Len(w)
  BY RoundBegins
<1>4. Lag(x, w)
  <2>1. Len(written) \in Nat /\ Len(w) \in Nat
    BY DEF IInv, TypeOK_Frames
  <2>2. x \in [ClusterSet -> Nat]
    BY DEF Placed
  <2>3. QED
    BY <2>1, <2>2 DEF Placed, Lag
<1>5. Placed(x)'
  BY <1>1, <1>3, <1>4 DEF Placed
<1>6. QED
  BY <1>2, <1>5 DEF LanesInv

LEMMA LanesWriteFrame ==
  ASSUME IInv, LanesInv, WriteFrame
  PROVE  LanesInv'
<1>1. PICK s \in Samples :
        LET f == [tick |-> Len(written), sample |-> s]
            rows == Append(frames, f)
        IN  /\ written' = Append(written, f)
            /\ IF Len(rows) >= ChunkRows
               THEN FlushAllClusters(rows, "write")
               ELSE frames' = rows /\ UNCHANGED <<todo, pc, caller>>
  BY DEF WriteFrame
<1> DEFINE f == [tick |-> Len(written), sample |-> s]
           rows == Append(frames, f)
           w == Append(written, f)
<1>2. f \in Frame /\ f.tick = Len(written)
  BY DEF Frame, IInv, TypeOK_Frames
<1>3. /\ written' = w
      /\ \/ FlushAllClusters(rows, "write")
         \/ frames' = rows /\ ~(Len(rows) >= ChunkRows) /\ UNCHANGED <<todo, pc, caller>>
  BY <1>1
<1> HIDE DEF f
<1>4. /\ rows \in Seq(Frame) /\ w \in Seq(Frame) /\ rows # << >>
      /\ Len(rows) = Len(frames) + 1 /\ Len(frames) \in Nat
      /\ Len(w) = Len(written) + 1 /\ Len(written) \in Nat
  <2>1. rows \in Seq(Frame) /\ Len(rows) = Len(frames) + 1 /\ Len(frames) \in Nat
    BY <1>2, AppendShape DEF IInv, TypeOK_Frames
  <2>2. rows # << >>
    BY <2>1, EmptyShape
  <2>3. w \in Seq(Frame) /\ Len(w) = Len(written) + 1 /\ Len(written) \in Nat
    BY <1>2, AppendShape DEF IInv, TypeOK_Frames
  <2>4. QED
    BY <2>1, <2>2, <2>3
<1>5. Waiting(rows, w) /\ Ticked(w)
  BY <1>2, WaitingMore DEF IInv, FramesInv, TypeOK_Frames
<1>6. pc = "open" /\ UNCHANGED <<cut, file, footer_offset, index_entries>> /\ footer_offset = 0
  BY DEF WriteFrame, IInv, Shape
<1>7. Ordered /\ \E x : Placed(x)
  BY DEF LanesInv
<1>8. PICK x : Placed(x)
  BY <1>7
<1>9. ChunkRows \in Nat /\ Len(frames) < ChunkRows
  BY <1>6, <1>7, ChunkAssumption DEF Ordered, ChunkAssumption
<1> HIDE DEF rows, w
<1>10. Len(rows) <= ChunkRows
  BY <1>4, <1>9
<1>11. Len(w) - Len(rows) = Len(written) - Len(frames)
  BY <1>4
<1>12. Even(x, Len(w) - Len(rows))
  BY <1>6, <1>8, <1>11 DEF Placed
<1>13. Len(written) <= Len(w)
  BY <1>4
<1>14. CASE FlushAllClusters(rows, "write")
  BY <1>3, <1>4, <1>5, <1>6, <1>7, <1>8, <1>10, <1>12, <1>13, <1>14, LanesFlush
<1>15. CASE frames' = rows /\ ~(Len(rows) >= ChunkRows) /\ UNCHANGED <<todo, pc, caller>>
  <2>1. Len(rows) < ChunkRows
    BY <1>4, <1>9, <1>15
  <2>2. Ordered'
    BY <1>6, <1>7, <1>15, <2>1 DEF Ordered
  <2>3. x \in [ClusterSet -> Nat] /\ Lag(x, written)
    BY <1>8 DEF Placed
  <2>4. Lag(x, w)
    BY <1>4, <2>3 DEF Lag
  <2>5. Placed(x)'
    BY <1>3, <1>6, <1>8, <1>12, <1>15, <2>3, <2>4 DEF Placed
  <2>6. QED
    BY <2>2, <2>5 DEF LanesInv
<1>16. QED
  BY <1>3, <1>14, <1>15

LEMMA LanesFlushCalls ==
  ASSUME IInv, LanesInv, FlushToDisk \/ Finish
  PROVE  LanesInv'
<1>1. pc = "open" /\ UNCHANGED <<cut, file, footer_offset, index_entries, written>> /\ footer_offset = 0
  BY DEF FlushToDisk, Finish, IInv, Shape
<1>2. Ordered /\ \E x : Placed(x)
  BY DEF LanesInv
<1>3. PICK x : Placed(x)
  BY <1>2
<1>4. /\ frames \in Seq(Frame) /\ Len(frames) \in Nat /\ Len(frames) <= ChunkRows
      /\ written \in Seq(Frame) /\ Len(written) \in Nat /\ Len(written) <= Len(written)
      /\ Waiting(frames, written) /\ Ticked(written)
  BY <1>1, <1>2, ChunkAssumption DEF Ordered, ChunkAssumption, IInv, TypeOK_Frames, FramesInv
<1>5. Even(x, Len(written) - Len(frames))
  BY <1>1, <1>3 DEF Placed
<1>6. CASE frames # << >>
  <2>1. FlushAllClusters(frames, "flush") \/ FlushAllClusters(frames, "finish")
    BY <1>6 DEF FlushToDisk, Finish
  <2>2. CASE FlushAllClusters(frames, "flush")
    BY <1>1, <1>2, <1>3, <1>4, <1>5, <1>6, <2>2, LanesFlush
  <2>3. CASE FlushAllClusters(frames, "finish")
    BY <1>1, <1>2, <1>3, <1>4, <1>5, <1>6, <2>3, LanesFlush
  <2>4. QED
    BY <2>1, <2>2, <2>3
<1>7. CASE frames = << >>
  <2>1. pc' = "footer" /\ frames' = frames /\ Len(frames) = 0
    BY <1>7, EmptyShape DEF FlushToDisk, Finish, WriteFooter
  <2>2. Ordered'
    BY <1>1, <1>2, <2>1 DEF Ordered
  <2>3. Len(written) - Len(frames) = Len(written)
    BY <1>4, <2>1
  <2>4. Even(x, Len(written))
    BY <1>5, <2>3
  <2>5. Placed(x)'
    BY <1>1, <1>3, <2>1, <2>4 DEF Placed
  <2>6. QED
    BY <2>2, <2>5 DEF LanesInv
<1>8. QED
  BY <1>6, <1>7

(* A chunk more of the round that is being written.                        *)
LEMMA RoundTicks ==
  ASSUME IInv, Ordered, pc = "flush", NEW x, Placed(x)
  PROVE  /\ todo \in Seq(Unit) /\ Len(todo) \in Nat \ {0} /\ 1 \in 1..Len(todo)
         /\ todo[1] \in Unit /\ todo[1].kind = "CHNK" /\ HoldsIn(todo[1], written)
         /\ todo[1].cluster \in ClusterSet /\ todo[1].cluster \in Waits(todo)
         /\ todo[1].rows[1].tick \in Nat /\ Len(written) \in Nat
         /\ todo[1].rows[1].tick <= Len(written)
         /\ Len(written) <= todo[1].rows[1].tick + ChunkRows
         /\ LastTick(todo[1]) + 1 = Len(written)
         /\ x[todo[1].cluster] = todo[1].rows[1].tick
<1>1. todo \in Seq(Unit) /\ todo # << >>
  BY DEF IInv, TypeOK_Units, Shape, Calls
<1>2. Len(todo) \in Nat \ {0} /\ 1 \in 1..Len(todo) /\ todo[1] \in Unit
  BY <1>1, NotEmpty
<1>3. todo[1].kind = "CHNK" /\ HoldsIn(todo[1], written)
  BY <1>2 DEF IInv, Shape, FramesInv, Chunks
<1>4. Round(todo, written)
  BY DEF Placed
<1>5. todo[1].cluster \in ClusterSet /\ todo[1].cluster \in Waits(todo)
  BY <1>2, <1>4 DEF Round, Waits
<1>6. written \in Seq(Frame) /\ Ticked(written)
  BY DEF IInv, TypeOK_Frames, FramesInv
<1>7. /\ todo[1].rows[1].tick \in Nat /\ Len(todo[1].rows) \in Nat \ {0} /\ Len(written) \in Nat
      /\ LastTick(todo[1]) + 1 = todo[1].rows[1].tick + Len(todo[1].rows)
  BY <1>2, <1>3, <1>6, ChunkTicks
<1>8. /\ Len(todo[1].rows) <= ChunkRows /\ ChunkRows \in Nat
      /\ todo[1].rows[1].tick + Len(todo[1].rows) = Len(written)
  BY <1>4, ChunkAssumption DEF Round, ChunkAssumption
<1> DEFINE a == todo[1].rows[1].tick
           n == Len(todo[1].rows)
           W == Len(written)
<1>9. a \in Nat /\ n \in Nat /\ W \in Nat /\ n <= ChunkRows /\ a + n = W
  BY <1>7, <1>8
<1> HIDE DEF a, n, W
<1>10. a <= W /\ W <= a + ChunkRows
  BY <1>8, <1>9
<1>11. x[todo[1].cluster] = a
  BY <1>5 DEF Placed, a
<1>12. QED
  BY <1>1, <1>2, <1>3, <1>5, <1>7, <1>8, <1>10, <1>11 DEF a, n, W

LEMMA LanesChunk ==
  ASSUME IInv, Layout, Reach, LanesInv, WriteUnit, pc = "flush"
  PROVE  LanesInv'
<1>1. Ordered /\ \E x : Placed(x)
  BY DEF LanesInv
<1>2. PICK x : Placed(x)
  BY <1>1
<1> DEFINE u == todo[1]
           a == todo[1].rows[1].tick
           W == Len(written)
           en == EntryOf(Len(file) + 1, u)
           d == todo[1].cluster
<1>3. /\ todo \in Seq(Unit) /\ Len(todo) \in Nat \ {0} /\ 1 \in 1..Len(todo)
      /\ u \in Unit /\ u.kind = "CHNK" /\ HoldsIn(u, written)
      /\ d \in ClusterSet /\ d \in Waits(todo)
      /\ a \in Nat /\ W \in Nat /\ a <= W /\ W <= a + ChunkRows
      /\ LastTick(u) + 1 = W /\ x[d] = a
  BY <1>1, <1>2, RoundTicks
<1>4. /\ index_entries' = Append(index_entries, en) /\ file' = Append(file, u)
      /\ UNCHANGED <<frames, footer_offset, written, caller>>
      /\ footer_offset = 0 /\ frames = << >> /\ Len(frames) = 0
  BY <1>3, EmptyShape DEF WriteUnit, IInv, Shape, Reach
<1>5. en \in IndexEntry /\ en.at = Len(file) + 1 /\ en.cluster = d /\ en.first = a /\ en.last + 1 = W
  <2>1. u.rows # << >>
    BY <1>3 DEF HoldsIn
  <2>2. Len(file) + 1 \in Nat
    BY DEF IInv, TypeOK_Units
  <2>3. en \in IndexEntry /\ en.at = Len(file) + 1
    BY <1>3, <2>1, <2>2, EntryType
  <2>4. en.cluster = d /\ en.first = a /\ en.last = LastTick(u)
    BY DEF EntryOf, LastTick
  <2>5. QED
    BY <1>3, <2>3, <2>4
<1>6. /\ index_entries \in Seq(IndexEntry) /\ file \in Seq(Unit)
      /\ Len(index_entries') = Len(index_entries) + 1 /\ Len(index_entries) \in Nat
      /\ index_entries'[Len(index_entries) + 1] = en
      /\ \A k \in 1..Len(index_entries) : index_entries'[k] = index_entries[k]
      /\ Len(file') = Len(file) + 1 /\ Len(file) \in Nat
      /\ Len(file) = Len(index_entries) + 1
  BY <1>1, <1>3, <1>4, <1>5, AppendShape DEF IInv, TypeOK_Units, Ordered
<1>7. Longer(index_entries', index_entries, en)
  BY <1>4 DEF Longer
<1>8. x \in [ClusterSet -> Nat] /\ \A c \in ClusterSet : Listed(index_entries, c, x[c])
  BY <1>2 DEF Placed
<1>0. Len(todo) \in Nat \ {0}
  BY <1>3
<1>9. PICK y \in [ClusterSet -> Nat] : y[d] = W /\ \A c \in ClusterSet : c # d => y[c] = x[c]
  <2> DEFINE z == [c \in ClusterSet |-> IF c = d THEN W ELSE x[c]]
  <2>1. z \in [ClusterSet -> Nat] /\ z[d] = W /\ \A c \in ClusterSet : c # d => z[c] = x[c]
    BY <1>3, <1>8
  <2>2. QED
    BY <2>1
<1> HIDE DEF u, a, W, en, d
<1>10. ASSUME NEW c \in ClusterSet PROVE Listed(index_entries', c, y[c])
  <2>1. y[c] \in Nat /\ Listed(index_entries, c, x[c])
    BY <1>8, <1>9
  <2>2. en.cluster = c => en.first = x[c] /\ en.last + 1 = y[c] /\ x[c] <= y[c]
    BY <1>3, <1>5, <1>9
  <2>3. en.cluster # c => y[c] = x[c]
    BY <1>5, <1>9
  <2>4. QED
    BY <1>5, <1>6, <1>7, <2>1, <2>2, <2>3, ListedMore
<1>11. \A k \in 1..Len(index_entries') : index_entries'[k].at = k + 1
  <2> SUFFICES ASSUME NEW k \in 1..Len(index_entries') PROVE index_entries'[k].at = k + 1
    OBVIOUS
  <2>1. k \in 1..Len(index_entries) \/ k = Len(index_entries) + 1
    BY <1>6
  <2>2. QED
    BY <1>1, <1>5, <1>6, <2>1 DEF Ordered
<1>12. /\ Round(todo, written)
       /\ \A c \in ClusterSet : x[c] = IF c \in Waits(todo) THEN a ELSE W
  BY <1>2 DEF Placed, a, W
<1>13. Controls \in ClusterSet
  BY ClustersAre
<1>14. y[Controls] = W
  <2>1. CASE Controls \in Waits(todo)
    <3>1. d = Controls
      BY <1>12, <2>1 DEF Round, d
    <3>2. QED
      BY <1>9, <3>1
  <2>2. CASE Controls \notin Waits(todo)
    <3>1. d # Controls /\ x[Controls] = W
      BY <1>3, <1>12, <1>13, <2>2
    <3>2. QED
      BY <1>9, <1>13, <3>1
  <2>3. QED
    BY <2>1, <2>2
<1>15. \A c \in ClusterSet : y[c] \in {a, W}
  BY <1>9, <1>12
<1>16. Lag(y, written)
  <2>1. ChunkRows \in Nat
    BY ChunkAssumption DEF ChunkAssumption
  <2>2. ASSUME NEW c \in ClusterSet PROVE y[c] <= W /\ y[c] <= y[Controls] /\ y[Controls] <= y[c] + ChunkRows
    BY <1>3, <1>14, <1>15, <2>1
  <2>3. QED
    BY <2>2 DEF Lag, W
<1>19. /\ Lag(y, written') /\ written' = written /\ frames' = frames
       /\ footer_offset' = 0 /\ ~(footer_offset' # 0)
  BY <1>4, <1>16
<1>17. CASE Len(todo) > 1
  <2>1. todo' = Tail(todo) /\ pc' = "flush"
    BY <1>17 DEF WriteUnit
  <2>2. /\ Len(todo') = Len(todo) - 1 /\ todo' \in Seq(Unit)
        /\ \A i \in 1..Len(todo') : todo'[i] = todo[i + 1] /\ i + 1 \in 1..Len(todo)
    BY <1>3, <1>17, <2>1, TailShape
  <2>3. 1 \in 1..Len(todo') /\ todo'[1] = todo[2] /\ 2 \in 1..Len(todo)
    BY <1>3, <1>17, <2>2
  <2>4. todo'[1].rows = todo[1].rows
    BY <1>12, <2>3 DEF Round
  <2>5. ASSUME NEW c PROVE c \in Waits(todo') <=> c \in Waits(todo) /\ c # d
    <3>1. ASSUME c \in Waits(todo') PROVE c \in Waits(todo) /\ c # d
      <4>1. PICK i \in 1..Len(todo') : c = todo'[i].cluster
        BY <3>1 DEF Waits
      <4>2. c = todo[i + 1].cluster /\ i + 1 \in 1..Len(todo) /\ i + 1 # 1
        BY <2>2, <4>1
      <4>3. c # d
        BY <1>3, <1>12, <4>2 DEF Round, d
      <4>4. QED
        BY <4>2, <4>3 DEF Waits
    <3>2. ASSUME c \in Waits(todo), c # d PROVE c \in Waits(todo')
      <4>1. PICK i \in 1..Len(todo) : c = todo[i].cluster
        BY <3>2 DEF Waits
      <4>2. i # 1
        BY <3>2, <4>1 DEF d
      <4>3. i - 1 \in 1..Len(todo') /\ (i - 1) + 1 = i
        BY <1>3, <2>2, <4>1, <4>2
      <4>4. c = todo'[i - 1].cluster
        BY <2>2, <4>1, <4>3
      <4>5. QED
        BY <4>3, <4>4 DEF Waits
    <3>3. QED
      BY <3>1, <3>2
  <2>6. Round(todo', written)
    <3>1. \A n \in 1..Len(todo') : todo'[n].rows = todo'[1].rows /\ todo'[n].cluster \in ClusterSet
      <4> SUFFICES ASSUME NEW n \in 1..Len(todo')
                   PROVE  todo'[n].rows = todo'[1].rows /\ todo'[n].cluster \in ClusterSet
        OBVIOUS
      <4>1. todo'[n] = todo[n + 1] /\ n + 1 \in 1..Len(todo)
        BY <2>2
      <4>2. todo[n + 1].rows = todo[1].rows /\ todo[n + 1].cluster \in ClusterSet
        BY <1>12, <4>1 DEF Round
      <4>3. QED
        BY <2>4, <4>1, <4>2
    <3>2. \A m, n \in 1..Len(todo') : todo'[m].cluster = todo'[n].cluster => m = n
      <4> SUFFICES ASSUME NEW m \in 1..Len(todo'), NEW n \in 1..Len(todo'),
                          todo'[m].cluster = todo'[n].cluster
                   PROVE  m = n
        OBVIOUS
      <4>1. todo[m + 1].cluster = todo[n + 1].cluster /\ m + 1 \in 1..Len(todo) /\ n + 1 \in 1..Len(todo)
        BY <2>2
      <4>2. m + 1 = n + 1
        BY <1>12, <4>1 DEF Round
      <4>3. QED
        BY <4>2
    <3>3. /\ Len(todo'[1].rows) <= ChunkRows
          /\ todo'[1].rows[1].tick + Len(todo'[1].rows) = Len(written)
      BY <1>12, <2>4 DEF Round
    <3>4. Controls \notin Waits(todo')
      <4>1. Controls \in Waits(todo) => Controls = d
        BY <1>12 DEF Round, d
      <4>2. QED
        BY <2>5, <4>1
    <3>5. QED
      BY <3>1, <3>2, <3>3, <3>4 DEF Round
  <2>7. \A c \in ClusterSet : y[c] = IF c \in Waits(todo') THEN todo'[1].rows[1].tick ELSE Len(written)
    <3> SUFFICES ASSUME NEW c \in ClusterSet
                 PROVE  y[c] = IF c \in Waits(todo') THEN a ELSE W
      BY <2>4 DEF a, W
    <3>1. CASE c = d
      BY <1>9, <2>5, <3>1
    <3>2. CASE c # d
      BY <1>9, <1>12, <2>5, <3>2
    <3>3. QED
      BY <3>1, <3>2
  <2>8. Ordered'
    BY <1>4, <1>6, <1>11, <2>1 DEF Ordered
  <2>9. Placed(y)'
    BY <1>9, <1>10, <1>19, <2>1, <2>6, <2>7 DEF Placed
  <2>10. QED
    BY <2>8, <2>9 DEF LanesInv
<1>18. CASE Len(todo) <= 1
  <2>1. Waits(todo) = {d} /\ Len(todo) = 1
    <3> DEFINE L == Len(todo)
    <3>0. L \in Nat \ {0} /\ L <= 1
      BY <1>0, <1>18
    <3> HIDE DEF L
    <3>4. L = 1
      BY <3>0
    <3>1. Len(todo) = 1
      BY <3>4 DEF L
    <3>2. \A n : n \in 1..Len(todo) <=> n = 1
      BY <3>1
    <3>3. QED
      BY <3>1, <3>2 DEF Waits, d
  <2>2. Even(y, W)
    <3>1. \A c \in ClusterSet : y[c] = W
      BY <1>9, <1>12, <2>1
    <3>2. QED
      BY <3>1 DEF Even
  <2>3. pc' \in {"open", "footer"}
    BY <2>1 DEF WriteUnit, WriteFooter
  <2>4. Ordered'
    <3>1. Len(frames') < ChunkRows
      BY <1>4, ChunkAssumption DEF ChunkAssumption
    <3>2. QED
      BY <1>4, <1>6, <1>11, <2>3, <3>1 DEF Ordered
  <2>5. Even(y, Len(written)) /\ Even(y, Len(written) - Len(frames))
    <3>1. Len(written) - Len(frames) = Len(written)
      BY <1>3, <1>4 DEF W
    <3>2. QED
      BY <2>2, <3>1 DEF W
  <2>6. Placed(y)'
    BY <1>9, <1>10, <1>19, <2>3, <2>5 DEF Placed
  <2>7. QED
    BY <2>4, <2>6 DEF LanesInv
<1>20. QED
  BY <1>3, <1>17, <1>18

LEMMA LanesOther ==
  ASSUME IInv, Layout, Reach, LanesInv, WriteUnit, pc # "flush"
  PROVE  LanesInv'
<1>1. Ordered /\ \E x : Placed(x)
  BY DEF LanesInv
<1>2. PICK x : Placed(x)
  BY <1>1
<1>3. /\ Grown(todo[1]) /\ pc \in Calls /\ Len(todo) \in Nat \ {0}
      /\ pc = "create" => todo[1].kind = "ACTL"
      /\ pc = "footer" => todo[1].kind = "INDX"
      /\ pc = "laps" => todo[1].kind = "LAPS"
  BY WriteUnitGrows
<1>4. Len(todo) = 1
  BY <1>3, IndexType, SingleShape DEF IInv, Shape, TypeOK_Units, Calls
<1>5. /\ index_entries' = index_entries /\ UNCHANGED <<frames, footer_offset, written>>
      /\ pc = "create" => pc' = "open"
      /\ pc = "footer" => pc' = "patch"
      /\ pc = "laps" => pc' \in {"finished", "dead"}
      /\ pc \in {"create", "footer", "laps"}
  BY <1>3, <1>4 DEF WriteUnit, Calls
<1>6. Len(file') = Len(file) + 1 /\ Len(file) \in Nat /\ (pc = "create" => Len(file) = 0)
  BY <1>3, AppendShape, EmptyShape DEF Grown, IInv, TypeOK_Units, Layout
<1>7. Len(index_entries) \in Nat
  BY DEF IInv, TypeOK_Units
<1>8. Ordered'
  <2>1. pc = "create" => Len(frames) < ChunkRows
    BY <1>1, ChunkAssumption DEF Ordered, ChunkAssumption
  <2>2. pc = "create" => Len(file') = Len(index_entries) + 1
    BY <1>1, <1>6, <1>7 DEF Ordered
  <2>3. pc = "footer" => Len(file') = Len(index_entries) + 2
    BY <1>1, <1>6, <1>7 DEF Ordered
  <2>4. QED
    BY <1>1, <1>5, <2>1, <2>2, <2>3 DEF Ordered
<1>9. Placed(x)'
  BY <1>2, <1>5 DEF Placed
<1>10. QED
  BY <1>8, <1>9 DEF LanesInv

LEMMA LanesStep ==
  ASSUME IInv, Layout, Reach, LanesInv, [FileNext]_vars
  PROVE  LanesInv'
<1>1. Ordered /\ \E x : Placed(x)
  BY DEF LanesInv
<1>2. PICK x : Placed(x)
  BY <1>1
<1>3. CASE UNCHANGED vars \/ WritePiece
  <2>1. UNCHANGED <<pc, frames, todo, file, footer_offset, index_entries, written>>
    BY <1>3 DEF vars, WritePiece
  <2>2. Ordered' /\ Placed(x)'
    BY <1>1, <1>2, <2>1 DEF Ordered, Placed
  <2>3. QED
    BY <2>2 DEF LanesInv
<1>4. CASE PatchHeader
  <2>1. /\ pc = "patch" /\ footer_offset' = Len(file) /\ pc' = "finished"
        /\ UNCHANGED <<frames, todo, file, index_entries, written>>
    BY <1>4 DEF PatchHeader
  <2>2. Ordered'
    BY <1>1, <2>1 DEF Ordered
  <2>3. Placed(x)'
    BY <1>2, <2>1 DEF Placed
  <2>4. QED
    BY <2>2, <2>3 DEF LanesInv
<1>5. CASE Dies \/ \E laps \in Seq(LapEntry) : AppendLaps(laps)
  <2>1. /\ pc' \in {"finished", "dead", "laps"}
        /\ UNCHANGED <<footer_offset, index_entries, written>>
    BY <1>5 DEF Dies, AppendLaps
  <2>2. Ordered'
    BY <1>1, <2>1 DEF Ordered
  <2>3. Placed(x)'
    BY <1>2, <2>1 DEF Placed
  <2>4. QED
    BY <2>2, <2>3 DEF LanesInv
<1>6. CASE WriteUnit
  BY <1>6, LanesChunk, LanesOther
<1>7. CASE WriteFrame \/ FlushToDisk \/ Finish
  BY <1>7, LanesWriteFrame, LanesFlushCalls
<1>8. QED
  BY <1>3, <1>4, <1>5, <1>6, <1>7 DEF FileNext, WriterNext

LEMMA LanesAlways == FileSpec => []LanesInv
<1>1. FileInv /\ LanesInv /\ [FileNext]_vars => LanesInv'
  BY LanesStep DEF FileInv
<1>2. QED
  BY <1>1, LanesInit, FileAlways, PTL DEF FileSpec

-----------------------------------------------------------------------------
(* Reads.                                                                  *)

(* What a reader comes upon: the chunks of the index, and then something   *)
(* that is no whole chunk.                                                 *)
LEMMA FileAsRead ==
  ASSUME FileInv, Ordered, file # << >>
  PROVE  /\ Len(index_entries) \in Nat /\ Len(file) \in Nat /\ Size \in Nat
         /\ Len(index_entries) + 1 <= Len(file) /\ Len(file) <= Size
         /\ \A n \in 1..Len(file) : n \in 1..Size /\ At(n) = file[n]
         /\ \A n \in 2..(Len(index_entries) + 1) : ChunkAt(file, n) /\ At(n).kind = "CHNK" /\ Whole(n)
         /\ Len(index_entries) + 2 <= Size =>
              At(Len(index_entries) + 2).kind # "CHNK" \/ ~Whole(Len(index_entries) + 2)
<1> DEFINE m == Len(index_entries)
           L == Len(file)
<1>1. m \in Nat /\ L \in Nat \ {0} /\ (cut # "none" => Size = L + 1) /\ (cut = "none" => Size = L)
  BY NotEmpty DEF FileInv, IInv, TypeOK_Units, Size
<1>2. /\ \A k \in 1..m : index_entries[k].at = k + 1 /\ ChunkAt(file, index_entries[k].at)
      /\ \A n \in 1..L : ChunkAt(file, n) => \E k \in 1..m : index_entries[k].at = n
  BY DEF FileInv, IInv, IndexInv, EntriesIn, AllEntered, Ordered
<1> HIDE DEF m, L
<1>3. Size \in Nat /\ L <= Size
  BY <1>1
<1>4. \A n \in 1..L : n \in 1..Size /\ At(n) = file[n]
  BY <1>1, <1>3 DEF At, L
<1>5. m + 1 <= L
  <2>1. CASE m = 0
    BY <1>1, <2>1
  <2>2. CASE m # 0
    <3>1. m \in 1..m
      BY <1>1, <2>2
    <3>2. ChunkAt(file, m + 1)
      BY <1>2, <3>1
    <3>3. QED
      BY <1>1, <3>2 DEF ChunkAt, L
  <2>3. QED
    BY <2>1, <2>2
<1>6. ASSUME NEW n \in 2..(m + 1) PROVE ChunkAt(file, n) /\ At(n).kind = "CHNK" /\ Whole(n)
  <2>1. n - 1 \in 1..m /\ (n - 1) + 1 = n /\ n \in 1..L
    BY <1>1, <1>5
  <2>2. ChunkAt(file, n)
    BY <1>2, <2>1
  <2>3. QED
    BY <1>4, <2>1, <2>2 DEF ChunkAt, Whole
<1>7. ASSUME m + 2 <= Size, At(m + 2).kind = "CHNK", Whole(m + 2) PROVE FALSE
  <2>1. CASE m + 2 <= L
    <3>1. m + 2 \in 1..L /\ At(m + 2) = file[m + 2]
      BY <1>1, <1>4, <2>1
    <3>2. ChunkAt(file, m + 2)
      BY <1>7, <3>1 DEF ChunkAt, Whole, L
    <3>3. PICK k \in 1..m : index_entries[k].at = m + 2
      BY <1>2, <3>1, <3>2
    <3>4. k + 1 = m + 2
      BY <1>2, <3>3
    <3>5. QED
      BY <1>1, <3>4
  <2>2. CASE ~(m + 2 <= L)
    <3>1. cut # "none" /\ m + 2 = L + 1
      BY <1>1, <1>7, <2>2
    <3>2. ~(m + 2 <= Len(file))
      BY <2>2 DEF L
    <3>3. At(m + 2) = [todo[1] EXCEPT !.cut = cut]
      BY <3>2 DEF At
    <3>4. todo[1] \in Unit /\ cut \in Cuts /\ cut # "whole"
      BY <3>1, NotEmpty DEF FileInv, IInv, Shape, TypeOK_Rest, TypeOK_Units
    <3>5. At(m + 2).cut = cut
      BY ZenonT(30), <3>3, <3>4, CutType
    <3>6. QED
      BY <1>7, <3>4, <3>5 DEF Whole
  <2>3. QED
    BY <2>1, <2>2
<1>8. m \in Nat /\ L \in Nat
  BY <1>1
<1>9. m + 2 <= Size => At(m + 2).kind # "CHNK" \/ ~Whole(m + 2)
  BY <1>7
<1>10. QED
  BY <1>3, <1>4, <1>5, <1>6, <1>8, <1>9 DEF m, L

(* The scan comes to the end of the chunks.                                *)
LEMMA ScanStops ==
  ASSUME FileInv, Ordered, file # << >>
  PROVE  ScanStop = Len(index_entries) + 2
<1> DEFINE m == Len(index_entries)
           Stop(n) == /\ n = Size + 1 \/ At(n).kind # "CHNK" \/ ~Whole(n)
                      /\ \A j \in 2..(n - 1) : At(j).kind = "CHNK" /\ Whole(j)
           stop == CHOOSE n \in 2..(Size + 1) : Stop(n)
<1>1. m \in Nat /\ Size \in Nat /\ m + 1 <= Size
  <2>1. /\ Len(index_entries) \in Nat /\ Len(file) \in Nat /\ Size \in Nat
        /\ Len(index_entries) + 1 <= Len(file) /\ Len(file) <= Size
    BY FileAsRead
  <2>2. QED
    BY <2>1
<1>2. /\ \A n \in 2..(m + 1) : At(n).kind = "CHNK" /\ Whole(n)
      /\ m + 2 <= Size => At(m + 2).kind # "CHNK" \/ ~Whole(m + 2)
  BY FileAsRead
<1>3. ScanStop = stop
  BY DEF ScanStop
<1> HIDE DEF m
<1>4. m + 2 \in 2..(Size + 1)
  BY <1>1
<1>5. Stop(m + 2)
  <2>1. (m + 2) - 1 = m + 1
    BY <1>1
  <2>2. m + 2 = Size + 1 \/ At(m + 2).kind # "CHNK" \/ ~Whole(m + 2)
    BY <1>1, <1>2
  <2>3. \A j \in 2..((m + 2) - 1) : At(j).kind = "CHNK" /\ Whole(j)
    BY <1>2, <2>1
  <2>4. QED
    BY <2>2, <2>3
<1>6. \E n \in 2..(Size + 1) : Stop(n)
  BY <1>4, <1>5
<1>7. stop \in 2..(Size + 1) /\ Stop(stop)
  BY <1>6
<1> HIDE DEF stop
<1>8. stop \in Nat
  BY <1>1, <1>7
<1>9. ASSUME stop < m + 2 PROVE FALSE
  <2>1. stop \in 2..(m + 1) /\ stop # Size + 1
    BY <1>1, <1>7, <1>8, <1>9
  <2>2. QED
    BY <1>2, <1>7, <2>1
<1>10. ASSUME m + 2 < stop PROVE FALSE
  <2>1. m + 2 \in 2..(stop - 1) /\ m + 2 <= Size
    BY <1>1, <1>7, <1>8, <1>10
  <2>2. At(m + 2).kind = "CHNK" /\ Whole(m + 2)
    BY <1>7, <2>1
  <2>3. QED
    BY <1>2, <2>1, <2>2
<1>11. stop = m + 2
  BY <1>1, <1>8, <1>9, <1>10
<1>12. QED
  BY <1>3, <1>11 DEF m

(* The scan rebuilds the entries of the index.                             *)
LEMMA IndexScanned ==
  ASSUME FileInv, Ordered, file # << >>, NEW k \in 1..Len(index_entries)
  PROVE  ScannedEntry(k + 1) = index_entries[k]
<1> DEFINE m == Len(index_entries)
<1>0. m \in Nat /\ index_entries \in Seq(IndexEntry) /\ m + 1 <= Len(file) /\ Len(file) \in Nat
  BY FileAsRead DEF FileInv, IInv, TypeOK_Units
<1>1. k + 1 \in 2..(m + 1) /\ k + 1 \in 1..Len(file)
  BY <1>0
<1>2. At(k + 1) = file[k + 1] /\ ChunkAt(file, k + 1)
  BY <1>1, FileAsRead DEF m
<1>3. index_entries[k] = EntryOf(k + 1, file[k + 1])
  BY DEF Ordered, FileInv, IInv, IndexInv, EntriesIn, m
<1>4. /\ file[k + 1] \in Unit /\ HoldsIn(file[k + 1], written) /\ written \in Seq(Frame)
      /\ Ticked(written)
  BY <1>1, <1>2 DEF FileInv, IInv, TypeOK_Units, TypeOK_Frames, FramesInv, Chunks, ChunkAt
<1> DEFINE u == file[k + 1]
           a == u.rows[1].tick
           n == Len(u.rows)
<1>5. /\ Len(u.rows) \in Nat \ {0} /\ u.rows[1].tick \in Nat
      /\ LastTick(u) + 1 = u.rows[1].tick + Len(u.rows)
  BY <1>4, ChunkTicks
<1>6. LastTick(u) \in Nat
  <2>1. u.rows \in Seq(Frame) /\ Len(u.rows) \in 1..Len(u.rows)
    BY <1>4, <1>5 DEF Unit
  <2>2. u.rows[Len(u.rows)] \in Frame
    BY <2>1
  <2>3. QED
    BY <2>2 DEF LastTick, Frame
<1>7. EntryOf(k + 1, u) = [cluster |-> u.cluster, at |-> k + 1, first |-> a, last |-> LastTick(u)]
  BY DEF EntryOf, LastTick
<1>8. ScannedEntry(k + 1) = [cluster |-> u.cluster, at |-> k + 1, first |-> a, last |-> a + n - 1]
  BY <1>2 DEF ScannedEntry
<1> HIDE DEF u
<1>9. LastTick(u) = a + n - 1
  BY <1>5, <1>6
<1>10. QED
  BY <1>3, <1>7, <1>8, <1>9 DEF u

LEMMA ScanIsIndex ==
  ASSUME FileInv, Ordered, file # << >>, ~Overwritten(Len(index_entries) + 2)
  PROVE  ScanChunks = index_entries
<1> DEFINE m == Len(index_entries)
<1>1. m \in Nat /\ index_entries \in Seq(IndexEntry) /\ m + 1 <= Len(file) /\ Len(file) \in Nat
  BY FileAsRead DEF FileInv, IInv, TypeOK_Units
<1>2. ScanEnd = (m + 2) - 1
  BY ScanStops DEF ScanEnd
<1>3. (m + 2) - 1 - 1 = m
  BY <1>1
<1>4. ScanChunks = [k \in 1..m |-> ScannedEntry(k + 1)]
  BY <1>2, <1>3 DEF ScanChunks
<1> HIDE DEF m
<1>5. \A k \in 1..m : ScannedEntry(k + 1) = index_entries[k]
  BY IndexScanned DEF m
<1>6. index_entries = [k \in 1..m |-> index_entries[k]]
  BY <1>1 DEF m
<1>7. QED
  BY <1>4, <1>5, <1>6

LEMMA EntriesAre ==
  ASSUME FileInv, Ordered, file # << >>
  PROVE  /\ HasFooter => Entries = index_entries /\ ScanChunks = index_entries
         /\ ~Damaged => Entries = index_entries
<1> DEFINE m == Len(index_entries)
<1>1. m \in Nat /\ Size \in Nat
  BY FileAsRead
<1>2. ASSUME HasFooter PROVE Entries = index_entries /\ ScanChunks = index_entries
  <2>1. /\ footer_offset = m + 2 /\ footer_offset \in 1..Len(file)
        /\ file[footer_offset] = IndexAndFooter(index_entries)
    BY <1>2 DEF HasFooter, Ordered, FileInv, IInv, IndexInv, HeaderIn
  <2>2. At(footer_offset) = IndexAndFooter(index_entries)
    BY <2>1, FileAsRead
  <2>a. IndexAndFooter(index_entries).index = index_entries
    BY DEF IndexAndFooter
  <2>b. IndexAndFooter(index_entries).kind = "INDX"
    BY DEF IndexAndFooter
  <2>3. At(footer_offset).index = index_entries /\ At(footer_offset).kind = "INDX"
    BY <2>2, <2>a, <2>b
  <2>4. ~Overwritten(m + 2)
    BY <2>1, <2>3 DEF Overwritten
  <2>5. ScanChunks = index_entries
    BY <2>4, ScanIsIndex
  <2>6. QED
    BY <1>2, <2>3, <2>5 DEF Entries
<1>3. ASSUME ~Damaged, ~HasFooter PROVE Entries = index_entries
  <2>1. ~Overwritten(m + 2)
    <3> SUFFICES ASSUME Overwritten(m + 2) PROVE FALSE
      OBVIOUS
    <3>1. m + 2 < Size /\ At(m + 2).cut = "tail"
      BY DEF Overwritten
    <3>2. m + 2 \in 1..(Size - 1) /\ ~Whole(m + 2)
      BY <1>1, <3>1 DEF Whole
    <3>3. QED
      BY <1>3, <3>2 DEF Damaged
  <2>2. ScanChunks = index_entries
    BY <2>1, ScanIsIndex
  <2>3. QED
    BY <1>3, <2>2 DEF Entries
<1>4. QED
  BY <1>2, <1>3

(* A reader that does not fail on a cluster has entries for all of it, and *)
(* they are those of the index.                                            *)
Reading(c, n) ==
  /\ Len(Entries) \in Nat /\ Listed(Entries, c, n)
  /\ \A k \in 1..Len(Entries) :
       Entries[k].cluster = c => k \in 1..Len(index_entries) /\ Entries[k] = index_entries[k]

(* The chunks of a cluster, one after another, are the frames it has.      *)
LEMMA ClusterIsRead ==
  ASSUME FileInv, Ordered, file # << >>, NEW c, NEW n, Reading(c, n), n <= Len(written)
  PROVE  n \in 0..Len(written) /\ ~ClusterFails(c) /\ ReadAll(c) = SubSeq(written, 0 + 1, n)
<1> DEFINE es == Entries
           m == Len(es)
           s == [k \in 1..m |-> IF es[k].cluster = c THEN At(es[k].at).rows ELSE << >>]
<1>1. m \in Nat /\ written \in Seq(Frame) /\ Len(written) \in Nat /\ Ticked(written)
  BY DEF FileInv, IInv, TypeOK_Frames, FramesInv, Reading
<1>2. PICK e : Lane(e, es, c) /\ e[m] = n
  BY DEF Listed, Reading
<1>3. /\ e[0] = 0 /\ \A k \in 0..m : e[k] \in Nat
      /\ \A k \in 1..m : /\ e[k - 1] <= e[k]
                         /\ es[k].cluster = c => es[k].first = e[k - 1] /\ es[k].last + 1 = e[k]
                         /\ es[k].cluster # c => e[k] = e[k - 1]
  BY <1>2 DEF Lane
<1>4. \A k \in 0..m : \A j \in k..m : e[k] <= e[j]
  <2> HIDE DEF m, es
  <2>1. \A k \in 0..m : e[k] \in Int
    BY <1>3
  <2>2. \A k \in 1..m : e[k - 1] <= e[k]
    BY <1>3
  <2>3. m \in Nat
    BY <1>1
  <2>4. QED
    BY <2>1, <2>2, <2>3, Climbs
<1>5. n \in 0..Len(written) /\ \A k \in 0..m : e[k] \in 0..Len(written)
  <2>1. m \in 0..m /\ e[m] \in Nat
    BY <1>1, <1>3
  <2>2. ASSUME NEW k \in 0..m PROVE e[k] \in 0..Len(written)
    <3>1. m \in k..m
      BY <1>1
    <3>2. e[k] <= e[m] /\ e[k] \in Nat
      BY <1>3, <1>4, <3>1
    <3>3. QED
      BY <1>1, <1>2, <2>1, <3>2
  <2>3. QED
    BY <1>1, <1>2, <2>1, <2>2
<1>6. ASSUME NEW k \in 1..m, es[k].cluster = c
      PROVE  /\ Whole(es[k].at) /\ At(es[k].at) = file[k + 1] /\ es[k] = EntryOf(k + 1, file[k + 1])
             /\ file[k + 1] \in Unit /\ HoldsIn(file[k + 1], written)
  <2>a. k \in 1..Len(index_entries) /\ es[k] = index_entries[k]
    BY <1>6 DEF Reading
  <2>1. k + 1 \in 2..(Len(index_entries) + 1) /\ k + 1 \in 1..Len(file)
    <3>1. /\ Len(index_entries) \in Nat /\ Len(file) \in Nat
          /\ Len(index_entries) + 1 <= Len(file)
      BY FileAsRead
    <3>2. QED
      BY <2>a, <3>1
  <2>2. At(k + 1) = file[k + 1] /\ ChunkAt(file, k + 1) /\ Whole(k + 1)
    BY <2>1, FileAsRead
  <2>3. es[k].at = k + 1 /\ es[k] = EntryOf(k + 1, file[k + 1])
    BY <2>a DEF Ordered, FileInv, IInv, IndexInv, EntriesIn
  <2>4. file[k + 1] \in Unit /\ HoldsIn(file[k + 1], written)
    BY <2>1, <2>2 DEF FileInv, IInv, TypeOK_Units, FramesInv, Chunks, ChunkAt
  <2>5. QED
    BY <2>2, <2>3, <2>4
<1>7. ~ClusterFails(c)
  BY <1>6 DEF ClusterFails
<1>8. ReadAll(c) = FlattenSeq(s)
  BY DEF ReadAll
<1>9. s = [k \in 1..m |-> s[k]] /\ \A k \in 1..m : s[k] = IF es[k].cluster = c THEN At(es[k].at).rows ELSE << >>
  OBVIOUS
<1> HIDE DEF s, m, es
<1>10. ASSUME NEW k \in 1..m PROVE s[k] = SubSeq(written, e[k - 1] + 1, e[k])
  <2>1. k \in 0..m /\ k - 1 \in 0..m
    BY <1>1
  <2>2. e[k] \in 0..Len(written) /\ e[k - 1] \in 0..Len(written) /\ e[k - 1] <= e[k]
    BY <1>3, <1>5, <2>1
  <2>3. e[k] \in e[k - 1]..Len(written)
    BY <1>1, <2>2
  <2>4. CASE es[k].cluster = c
    <3> DEFINE rows == file[k + 1].rows
    <3>1. s[k] = rows
      BY <1>6, <1>9, <2>4
    <3>2. /\ rows \in Seq(Frame) /\ Len(rows) \in Nat \ {0} /\ rows[1].tick \in Nat
          /\ LastTick(file[k + 1]) + 1 = rows[1].tick + Len(rows)
          /\ \A j \in 1..Len(rows) : rows[j] = written[rows[1].tick + j]
      BY <1>1, <1>6, <2>4, ChunkTicks
    <3>a. EntryOf(k + 1, file[k + 1]).first = file[k + 1].rows[1].tick
      BY DEF EntryOf
    <3>b. EntryOf(k + 1, file[k + 1]).last = LastTick(file[k + 1])
      BY DEF EntryOf, LastTick
    <3>3. es[k].first = rows[1].tick /\ es[k].last = LastTick(file[k + 1])
      BY <1>6, <2>4, <3>a, <3>b
    <3> HIDE DEF rows
    <3>4. e[k - 1] = rows[1].tick /\ e[k] = rows[1].tick + Len(rows)
      BY <1>3, <2>4, <3>2, <3>3
    <3>5. Len(rows) = e[k] - e[k - 1]
      BY <3>2, <3>4
    <3>6. \A j \in 1..Len(rows) : rows[j] = written[e[k - 1] + j]
      BY <3>2, <3>4
    <3>7. rows = SubSeq(written, e[k - 1] + 1, e[k])
      BY ZenonT(30), <1>1, <2>2, <2>3, <3>2, <3>5, <3>6, SubSeqIs
    <3>8. QED
      BY <3>1, <3>7
  <2>5. CASE es[k].cluster # c
    <3>1. s[k] = << >> /\ e[k] = e[k - 1]
      BY <1>3, <1>9, <2>5
    <3>2. SubSeq(written, e[k] + 1, e[k]) = << >>
      BY <1>1, <2>2
    <3>3. QED
      BY <3>1, <3>2
  <2>6. QED
    BY <2>4, <2>5
<1>11. Pieces(s, m, written, e)
  BY <1>3, <1>5, <1>9, <1>10 DEF Pieces
<1>12. FlattenSeq(s) = SubSeq(written, e[0] + 1, e[m]) /\ e[0] <= e[m]
  BY <1>1, <1>11, FlattenWindow
<1>13. QED
  BY <1>2, <1>3, <1>5, <1>7, <1>8, <1>12

(* The controls chunks reach as far as the index says.                     *)
LEMMA ListedReach ==
  ASSUME FileInv, Ordered, file # << >>, NEW x, Listed(index_entries, Controls, x)
  PROVE  ReachesIn(file, x) /\ x \in Nat
<1> DEFINE es == index_entries
           m == Len(index_entries)
<1>1. m \in Nat /\ Len(file) \in Nat /\ m + 1 <= Len(file)
  BY FileAsRead
<1>2. PICK e : Lane(e, es, Controls) /\ e[m] = x
  BY DEF Listed
<1>3. /\ e[0] = 0 /\ \A k \in 0..m : e[k] \in Nat
      /\ \A k \in 1..m : /\ e[k - 1] <= e[k]
                         /\ es[k].cluster = Controls => es[k].last + 1 = e[k]
                         /\ es[k].cluster # Controls => e[k] = e[k - 1]
  BY <1>2 DEF Lane
<1>4. ASSUME NEW k \in 1..m
      PROVE  /\ k + 1 \in 1..Len(file) /\ ChunkAt(file, k + 1)
             /\ es[k].cluster = file[k + 1].cluster /\ es[k].last = LastTick(file[k + 1])
  <2>1. k + 1 \in 2..(m + 1) /\ k + 1 \in 1..Len(file)
    BY <1>1
  <2>2. ChunkAt(file, k + 1)
    BY <2>1, FileAsRead
  <2>3. es[k] = EntryOf(k + 1, file[k + 1])
    BY DEF Ordered, FileInv, IInv, IndexInv, EntriesIn
  <2>4. EntryOf(k + 1, file[k + 1]).cluster = file[k + 1].cluster
    BY DEF EntryOf
  <2>5. EntryOf(k + 1, file[k + 1]).last = LastTick(file[k + 1])
    BY DEF EntryOf, LastTick
  <2>6. QED
    BY <2>1, <2>2, <2>3, <2>4, <2>5
<1>5. \A n \in 1..Len(file) : ChunkAt(file, n) => \E k \in 1..m : n = k + 1
  BY DEF FileInv, IInv, IndexInv, AllEntered, Ordered
<1>6. ASSUME NEW k \in 1..m, es[k].cluster = Controls PROVE e[k] \in Ends(file)
  <2>1. k + 1 \in {n \in 1..Len(file) : IsControls(file[n])}
    BY <1>4, <1>6 DEF ChunkAt, IsControls
  <2>2. e[k] = LastTick(file[k + 1]) + 1
    BY <1>3, <1>4, <1>6
  <2>3. QED
    BY <2>1, <2>2 DEF Ends
<1>7. ASSUME NEW y \in Ends(file) PROVE \E k \in 1..m : y = e[k]
  <2>1. PICK n \in {j \in 1..Len(file) : IsControls(file[j])} : y = LastTick(file[n]) + 1
    BY DEF Ends
  <2>2. PICK k \in 1..m : n = k + 1
    BY <1>5, <2>1 DEF ChunkAt, IsControls
  <2>3. y = e[k]
    BY <1>3, <1>4, <2>1, <2>2 DEF IsControls
  <2>4. QED
    BY <2>3
<1> HIDE DEF m, es
<1>8. \A k \in 0..m : e[k] <= x /\ x \in Nat
  <2>1. \A k \in 0..m : e[k] \in Int
    BY <1>3
  <2>2. \A k \in 1..m : e[k - 1] <= e[k]
    BY <1>3
  <2>3. \A k \in 0..m : \A j \in k..m : e[k] <= e[j]
    BY <1>1, <2>1, <2>2, Climbs
  <2>4. \A k \in 0..m : m \in k..m
    BY <1>1
  <2>5. m \in 0..m
    BY <1>1
  <2>6. QED
    BY <1>2, <1>3, <2>3, <2>4, <2>5
<1>9. x \in Nat
  BY <1>1, <1>8
<1>10. {0} \cup Ends(file) \subseteq 0..x
  <2>1. ASSUME NEW y \in Ends(file) PROVE y \in 0..x
    <3>1. PICK k \in 1..m : y = e[k]
      BY <1>7
    <3>2. k \in 0..m
      BY <1>1
    <3>3. y \in Nat /\ y <= x
      BY <1>3, <1>8, <3>1, <3>2
    <3>4. QED
      BY <1>9, <3>3
  <2>2. QED
    BY <1>9, <2>1
<1>11. ASSUME x # 0 PROVE x \in Ends(file)
  <2> DEFINE T == {k \in 0..m : e[k] = x}
  <2>1. T \subseteq Nat /\ T # {}
    BY <1>1, <1>2
  <2>2. PICK k \in T : \A j \in T : k <= j
    BY <2>1, LeastNat
  <2>3. k \in 0..m /\ e[k] = x /\ k # 0
    BY <1>3, <1>11, <2>2
  <2>4. k \in 1..m /\ k - 1 \in 0..m /\ ~(k <= k - 1)
    BY <1>1, <2>3
  <2>5. e[k - 1] # e[k]
    BY <2>2, <2>3, <2>4
  <2>6. es[k].cluster = Controls
    BY <1>3, <2>4, <2>5
  <2>7. QED
    BY <1>6, <2>3, <2>4, <2>6
<1>12. QED
  BY <1>9, <1>10, <1>11 DEF ReachesIn

LEMMA OpensOnUnits == ASSUME FileInv, Opens PROVE file # << >>
<1> SUFFICES ASSUME file = << >> PROVE FALSE
  OBVIOUS
<1>1. Len(file) = 0 /\ Size > 0 /\ Whole(1)
  BY DEF Opens
<1>2. cut # "none" /\ ~(1 <= Len(file))
  BY <1>1 DEF Size
<1>3. At(1) = [todo[1] EXCEPT !.cut = cut]
  BY <1>2 DEF At
<1>4. todo[1] \in Unit /\ cut \in Cuts /\ cut # "whole"
  BY <1>2, NotEmpty DEF FileInv, IInv, Shape, TypeOK_Rest, TypeOK_Units
<1>5. At(1).cut = cut
  BY ZenonT(30), <1>3, <1>4, CutType
<1>6. QED
  BY <1>1, <1>4, <1>5 DEF Whole

(* Frames, and zeros up to the length of the controls.                     *)
PaddedIs(read, rows, n) ==
  /\ read \in Seq(Frame \cup {Default}) /\ Len(read) = n
  /\ \A k \in 1..n : read[k] = IF k <= Len(rows) THEN rows[k] ELSE Default

LEMMA Padded ==
  ASSUME NEW rows \in Seq(Frame), NEW n \in Nat, Len(rows) <= n
  PROVE  PaddedIs(SubSeq(rows \o Zeros(n - Len(rows)), 1, n), rows, n)
<1> DEFINE S == Frame \cup {Default}
           r == Len(rows)
           zeros == Zeros(n - r)
           both == rows \o zeros
<1>1. r \in Nat /\ r <= n /\ n - r \in Nat
  OBVIOUS
<1>2. rows \in Seq(S)
  OBVIOUS
<1> DEFINE d == n - r
           D == Default
<1>3. zeros = [k \in 1..d |-> D]
  BY DEF Zeros
<1>4. d \in Nat /\ D \in S /\ d = n - r
  BY <1>1
<1> HIDE DEF S, d, D, r
<1>5. zeros \in Seq(S) /\ Len(zeros) = d /\ \A k \in 1..d : zeros[k] = D
  <2>1. [k \in 1..d |-> D] \in Seq(S) /\ Len([k \in 1..d |-> D]) = d
    BY <1>4
  <2>2. QED
    BY <1>3, <2>1
<1> HIDE DEF zeros
<1>6. both \in Seq(S) /\ Len(both) = n
      /\ \A k \in 1..n : both[k] = IF k <= r THEN rows[k] ELSE D
  <2>1. both \in Seq(S) /\ Len(both) = r + d
    BY <1>2, <1>5 DEF r
  <2>2. r + d = n
    BY <1>1, <1>4
  <2>3. ASSUME NEW k \in 1..n PROVE both[k] = IF k <= r THEN rows[k] ELSE D
    <3>1. CASE k <= r
      BY <1>2, <1>5, <2>1, <2>2, <3>1 DEF r
    <3>2. CASE ~(k <= r)
      <4>1. k - r \in 1..d
        BY <1>1, <1>4, <3>2
      <4>2. both[k] = zeros[k - r]
        BY <1>2, <1>5, <2>1, <2>2, <3>2 DEF r
      <4>3. QED
        BY <1>5, <3>2, <4>1, <4>2
    <3>3. QED
      BY <3>1, <3>2
  <2>4. QED
    BY <2>1, <2>2, <2>3
<1> DEFINE B == both
<1> HIDE DEF both, B
<1>7. B \in Seq(S) /\ Len(B) = n
  BY <1>6 DEF B
<1>8. SubSeq(B, 1, n) \in Seq(S) /\ Len(SubSeq(B, 1, n)) = n
      /\ \A k \in 1..n : SubSeq(B, 1, n)[k] = B[k]
  BY <1>7
<1>9. QED
  BY <1>6, <1>8 DEF B, both, zeros, r, S, D, PaddedIs

-----------------------------------------------------------------------------
(* A cluster that is read has the first frames that were written.          *)
LEMMA ClusterNow ==
  ASSUME FileInv, Ordered, NEW x, Placed(x), file # << >>, Entries = index_entries,
         NEW c \in ClusterSet
  PROVE  /\ ~ClusterFails(c) /\ ReadAll(c) = SubSeq(written, 0 + 1, x[c])
         /\ x[c] \in 0..Len(written) /\ Len(ReadAll(c)) = x[c]
<1> DEFINE r == x[c]
<1>1. Listed(index_entries, c, r) /\ r \in Nat /\ r <= Len(written)
  BY DEF Placed, Lag
<1> HIDE DEF r
<1>2. written \in Seq(Frame) /\ Len(written) \in Nat
  BY DEF FileInv, IInv, TypeOK_Frames
<1>3. ~ClusterFails(c) /\ ReadAll(c) = SubSeq(written, 0 + 1, r)
  <2>1. Reading(c, r)
    BY <1>1 DEF Reading, FileInv, IInv, TypeOK_Units
  <2>2. QED
    BY <1>1, <2>1, ClusterIsRead
<1>4. r \in 0..Len(written) /\ 0 \in 0..Len(written)
  BY <1>1, <1>2
<1>5. Len(SubSeq(written, 0 + 1, r)) = r - 0
  BY <1>2, <1>4, SubSeqShape
<1>6. QED
  BY <1>1, <1>3, <1>4, <1>5 DEF r

LEMMA ColumnIsRead ==
  ASSUME FileInv, Ordered, NEW x, Placed(x), FramesReadable, ~Damaged, NEW c \in ClusterSet
  PROVE  LET read == FramesColumn(c)
         IN  /\ Len(read) = Durable
             /\ \A n \in 1..Len(read) :
                  \/ read[n] = written[n]
                  \/ read[n] = Default /\ c # Controls /\ n > Len(read) - ChunkRows
             /\ HasFooter => read = written
<1>1. file # << >>
  BY OpensOnUnits DEF FramesReadable
<1>2. Entries = index_entries
  BY <1>1, EntriesAre
<1>3. Controls \in ClusterSet
  BY ClustersAre
<1> DEFINE n == x[Controls]
           r == x[c]
           L == Len(written)
<1>4. /\ Listed(index_entries, Controls, n) /\ Listed(index_entries, c, r)
      /\ n \in Nat /\ r \in Nat /\ n <= L /\ r <= n /\ n <= r + ChunkRows
      /\ HasFooter => n = L /\ r = L
  BY <1>3 DEF Placed, Lag, Even, HasFooter
<1>5. written \in Seq(Frame) /\ L \in Nat
  BY DEF FileInv, IInv, TypeOK_Frames
<1>6. Durable = n
  <2>1. ReachesIn(file, n)
    BY <1>1, <1>4, ListedReach
  <2>2. QED
    BY <1>4, <2>1, DurableIs
<1> HIDE DEF n, r
<1>7. ReadAll(Controls) = SubSeq(written, 0 + 1, n) /\ Len(ReadAll(Controls)) = n
  BY <1>1, <1>2, <1>3, ClusterNow DEF n
<1>8. ~ClusterFails(c) /\ ReadAll(c) = SubSeq(written, 0 + 1, r)
  BY <1>1, <1>2, ClusterNow DEF r
<1> DEFINE rows == ReadOrNone(c)
           all == ReadAll(Controls)
<1>9. n \in 0..L /\ r \in 0..L /\ 0 \in 0..L
  BY <1>4, <1>5
<1>10. Len(all) = n
  BY <1>7
<1>11. rows \in Seq(Frame) /\ Len(rows) = r /\ \A k \in 1..r : rows[k] = written[k]
  <2>1. rows = SubSeq(written, 0 + 1, r)
    BY <1>8 DEF ReadOrNone
  <2>2. /\ SubSeq(written, 0 + 1, r) \in Seq(Frame) /\ Len(SubSeq(written, 0 + 1, r)) = r - 0
        /\ \A k \in 1..(r - 0) : SubSeq(written, 0 + 1, r)[k] = written[0 + k]
    BY <1>5, <1>9, SubSeqShape
  <2>3. r - 0 = r /\ \A k \in 1..r : 0 + k = k
    BY <1>4
  <2> HIDE DEF rows, L
  <2>4. QED
    BY <2>1, <2>2, <2>3
<1> DEFINE read == FramesColumn(c)
<1>12. read = SubSeq(rows \o Zeros(n - Len(rows)), 1, n)
  BY <1>10 DEF FramesColumn
<1> HIDE DEF rows, all
<1>13. /\ read \in Seq(Frame \cup {Default}) /\ Len(read) = n
       /\ \A k \in 1..n : read[k] = IF k <= r THEN rows[k] ELSE Default
  <2>1. Len(rows) <= n
    BY <1>4, <1>11
  <2>2. PaddedIs(SubSeq(rows \o Zeros(n - Len(rows)), 1, n), rows, n)
    BY <1>4, <1>11, <2>1, Padded
  <2> HIDE DEF read
  <2>3. PaddedIs(read, rows, n)
    BY <1>12, <2>2
  <2>4. QED
    BY <1>11, <2>3 DEF PaddedIs
<1> HIDE DEF read, L
<1>14. ASSUME NEW k \in 1..Len(read)
       PROVE  \/ read[k] = written[k]
              \/ read[k] = Default /\ c # Controls /\ k > Len(read) - ChunkRows
  <2>1. k \in 1..n
    BY <1>13
  <2>2. CASE k <= r
    <3>1. k \in 1..r
      BY <1>4, <2>1, <2>2
    <3>2. QED
      BY <1>11, <1>13, <2>1, <2>2, <3>1
  <2>3. CASE ~(k <= r)
    <3>1. read[k] = Default
      BY <1>13, <2>1, <2>3
    <3>2. c # Controls
      BY <1>4, <2>1, <2>3 DEF n, r
    <3>3. k > n - ChunkRows
      BY <1>4, <2>1, <2>3, ChunkAssumption DEF ChunkAssumption
    <3>4. QED
      BY <1>13, <3>1, <3>2, <3>3
  <2>4. QED
    BY <2>2, <2>3
<1>15. ASSUME HasFooter PROVE read = written
  <2>1. n = L /\ r = L
    BY <1>4, <1>15
  <2>2. \A k \in 1..L : read[k] = written[k]
    BY <1>5, <1>11, <1>13, <2>1
  <2>3. Len(read) = L
    BY <1>13, <2>1
  <2>4. Len(written) = L
    BY DEF L
  <2>5. read \in Seq(Frame \cup {Default}) /\ written \in Seq(Frame \cup {Default})
    BY <1>5, <1>13
  <2>6. QED
    BY <2>2, <2>3, <2>4, <2>5
<1>16. Len(read) = Durable
  BY <1>6, <1>13
<1>17. QED
  BY <1>14, <1>15, <1>16 DEF read

LEMMA ReadsNow == FileInv /\ LanesInv => ReadsRecording
<1> SUFFICES ASSUME FileInv, LanesInv PROVE ReadsRecording
  OBVIOUS
<1>1. Ordered
  BY DEF LanesInv
<1>2. PICK x : Placed(x)
  BY DEF LanesInv
<1>3. HasFooter => Entries = ScanChunks
  <2>1. HasFooter => file # << >>
    BY DEF FileInv, Layout, HasFooter
  <2>2. QED
    BY <1>1, <2>1, EntriesAre
<1>4. ASSUME FramesReadable, ~Damaged, NEW c \in ToSet(Clusters)
      PROVE  LET read == FramesColumn(c)
             IN  /\ Len(read) = Durable
                 /\ \A n \in 1..Len(read) :
                      \/ read[n] = written[n]
                      \/ read[n] = Default /\ c # Controls /\ n > Len(read) - ChunkRows
                 /\ HasFooter => read = written
  <2>1. c \in ClusterSet
    BY ClustersAre
  <2>2. QED
    BY <1>1, <1>2, <1>4, <2>1, ColumnIsRead
<1>5. QED
  BY <1>3, <1>4 DEF ReadsRecording

(* read_all_frames returns the recording: every frame of a whole controls  *)
(* chunk, in order, each cluster's samples beside it or, behind the end of *)
(* a cut file, zeros; a finished file returns what was written.            *)
THEOREM ReadsTheRecording == FileSpec => []ReadsRecording
<1>1. FileInv /\ LanesInv => ReadsRecording
  BY ReadsNow
<1>2. QED
  BY <1>1, FileAlways, LanesAlways, PTL

-----------------------------------------------------------------------------
(* What is made of the reads.                                              *)

LEMMA ConvertsNow == FileInv /\ LanesInv => ConversionKeepsFrames
<1> SUFFICES ASSUME FileInv, LanesInv PROVE ConversionKeepsFrames
  OBVIOUS
<1>1. Ordered /\ ToSet(Clusters) = ClusterSet /\ Controls \in ClusterSet
  BY ClustersAre DEF LanesInv
<1>2. PICK x : Placed(x)
  BY DEF LanesInv
<1>3. ASSUME Accepts, ~Damaged, NEW c \in ToSet(Clusters)
      PROVE  ConvertedColumn(c) = SubSeq(written, 1, Durable)
  <2>1. file # << >>
    BY <1>3, OpensOnUnits DEF Accepts
  <2>2. Entries = index_entries
    BY <1>1, <1>3, <2>1, EntriesAre
  <2>3. ReadAll(c) = SubSeq(written, 0 + 1, x[c]) /\ Len(ReadAll(c)) = x[c]
    BY <1>1, <1>2, <1>3, <2>1, <2>2, ClusterNow
  <2>4. Len(ReadAll(Controls)) = x[Controls]
    BY <1>1, <1>2, <2>1, <2>2, ClusterNow
  <2>5. x[c] = x[Controls]
    BY <1>3, <2>3, <2>4 DEF Accepts
  <2>6. Durable = x[Controls]
    <3> DEFINE n == x[Controls]
    <3>1. Listed(index_entries, Controls, n)
      BY <1>1, <1>2 DEF Placed
    <3> HIDE DEF n
    <3>2. ReachesIn(file, n) /\ n \in Nat
      BY <1>1, <2>1, <3>1, ListedReach
    <3>3. Durable = n
      BY <3>2, DurableIs
    <3>4. QED
      BY <3>3 DEF n
  <2>7. QED
    BY <2>3, <2>5, <2>6 DEF ConvertedColumn
<1>4. ASSUME HasFooter PROVE Accepts
  <2>1. FramesReadable
    BY <1>4, FooterReadable DEF FileInv
  <2>2. file # << >> /\ Entries = index_entries
    <3>1. file # << >>
      BY <2>1, OpensOnUnits DEF FramesReadable
    <3>2. QED
      BY <1>1, <1>4, <3>1, EntriesAre
  <2>3. \A c \in ClusterSet : ~ClusterFails(c) /\ Len(ReadAll(c)) = x[c]
    BY <1>1, <1>2, <2>2, ClusterNow
  <2>4. \A c \in ClusterSet : x[c] = x[Controls]
    BY <1>1, <1>2, <1>4 DEF Placed, Even, HasFooter
  <2>5. QED
    BY <1>1, <2>1, <2>3, <2>4 DEF Accepts, FramesReadable
<1>5. QED
  BY <1>3, <1>4 DEF ConversionKeepsFrames

(* A file that the converter accepts becomes the first frames of the       *)
(* recording, each sample in its own frame, and a finished recording is    *)
(* accepted.                                                               *)
THEOREM ConversionIsFaithful == FileSpec => []ConversionKeepsFrames
<1>1. FileInv /\ LanesInv => ConversionKeepsFrames
  BY ConvertsNow
<1>2. QED
  BY <1>1, FileAlways, LanesAlways, PTL

-----------------------------------------------------------------------------
(* A damaged file.                                                         *)

(* A scan may take a cut chunk for one that is all there, because other    *)
(* bytes are behind it.                                                    *)
LEMMA EntriesOr ==
  ASSUME FileInv, Ordered, file # << >>
  PROVE  \/ Entries = index_entries
         \/ \E en \in IndexEntry : Longer(Entries, index_entries, en) /\ ~Whole(en.at)
<1> DEFINE m == Len(index_entries)
<1>1. /\ m \in Nat /\ Len(file) \in Nat /\ Size \in Nat /\ m + 1 <= Len(file)
      /\ index_entries \in Seq(IndexEntry) /\ Len(file) <= Size
  BY FileAsRead DEF FileInv, IInv, TypeOK_Units
<1>2. CASE HasFooter
  BY <1>2, EntriesAre
<1>3. CASE ~HasFooter /\ ~Overwritten(m + 2)
  BY <1>3, ScanIsIndex DEF Entries
<1>4. CASE ~HasFooter /\ Overwritten(m + 2)
  <2>1. /\ m + 2 < Size /\ At(m + 2).kind = "CHNK" /\ ~Whole(m + 2)
    BY <1>4 DEF Overwritten, Whole
  <2>2. ScanEnd = m + 2
    BY <1>4, ScanStops DEF ScanEnd
  <2> DEFINE en == ScannedEntry(m + 2)
  <2>3. m + 2 \in 1..Len(file) /\ At(m + 2) = file[m + 2]
    <3>1. Size <= Len(file) + 1
      BY <1>1 DEF Size
    <3>2. m + 2 \in 1..Len(file)
      <4> HIDE DEF m
      <4>1. QED
        BY <1>1, <2>1, <3>1
    <3>3. QED
      BY <3>2 DEF At
  <2> DEFINE u == file[m + 2]
  <2>4. u \in Unit /\ HoldsIn(u, written) /\ written \in Seq(Frame) /\ Ticked(written)
    BY <2>1, <2>3 DEF FileInv, IInv, TypeOK_Units, TypeOK_Frames, FramesInv, Chunks
  <2>5. en = [cluster |-> u.cluster, at |-> m + 2, first |-> u.rows[1].tick,
              last |-> u.rows[1].tick + Len(u.rows) - 1]
    BY <2>3 DEF ScannedEntry
  <2> HIDE DEF u
  <2>6. Len(u.rows) \in Nat \ {0} /\ u.rows[1].tick \in Nat
    BY <2>4, ChunkTicks
  <2>7. en \in IndexEntry /\ en.at = m + 2
    <3>1. u.cluster \in ClusterIds /\ m + 2 \in Nat
      BY <1>1, <2>4 DEF Unit
    <3> DEFINE a == u.rows[1].tick
               l == u.rows[1].tick + Len(u.rows) - 1
    <3>2. a \in Nat /\ l \in Nat
      BY <2>6
    <3> HIDE DEF a, l
    <3>3. en = [cluster |-> u.cluster, at |-> m + 2, first |-> a, last |-> l]
      BY <2>5 DEF a, l
    <3> HIDE DEF en, m
    <3>4. QED
      BY <3>1, <3>2, <3>3 DEF IndexEntry
  <2>8. ScanChunks = [k \in 1..(m + 1) |-> ScannedEntry(k + 1)]
    <3>1. (m + 2) - 1 = m + 1
      BY <1>1
    <3>2. QED
      BY <2>2, <3>1 DEF ScanChunks
  <2>9. \A k \in 1..m : ScannedEntry(k + 1) = index_entries[k]
    BY IndexScanned
  <2>10. ScannedEntry((m + 1) + 1) = en
    <3>1. (m + 1) + 1 = m + 2
      BY <1>1
    <3>2. QED
      BY <3>1
  <2>11. Entries = ScanChunks
    BY <1>4 DEF Entries
  <2> HIDE DEF en, m
  <2>12. ScanChunks = Append(index_entries, en)
    <3> DEFINE z == Append(index_entries, en)
    <3>1. z \in Seq(IndexEntry) /\ Len(z) = m + 1 /\ z[m + 1] = en
          /\ \A k \in 1..m : z[k] = index_entries[k]
      BY <1>1, <2>7 DEF m
    <3> HIDE DEF z
    <3>2. z = [k \in 1..(m + 1) |-> z[k]]
      BY <3>1
    <3>3. ASSUME NEW k \in 1..(m + 1) PROVE ScannedEntry(k + 1) = z[k]
      <4>1. k \in 1..m \/ k = m + 1
        BY <1>1
      <4>2. QED
        BY <2>9, <2>10, <3>1, <4>1
    <3>4. QED
      BY <2>8, <3>2, <3>3 DEF z
  <2>13. QED
    BY <2>1, <2>7, <2>11, <2>12 DEF Longer
<1>5. QED
  BY <1>2, <1>3, <1>4

(* Whatever happened to the file, a cluster whose read does not fail gives *)
(* the first frames that were written.                                     *)
LEMMA AnyClusterNow ==
  ASSUME FileInv, Ordered, NEW x, Placed(x), file # << >>, NEW c \in ClusterSet, ~ClusterFails(c)
  PROVE  ReadAll(c) = SubSeq(written, 0 + 1, x[c]) /\ x[c] \in 0..Len(written)
<1>1. CASE Entries = index_entries
  BY <1>1, ClusterNow
<1>2. ASSUME NEW en \in IndexEntry, Longer(Entries, index_entries, en), ~Whole(en.at)
      PROVE  ReadAll(c) = SubSeq(written, 0 + 1, x[c]) /\ x[c] \in 0..Len(written)
  <2> DEFINE r == x[c]
             m == Len(index_entries)
  <2>1. Listed(index_entries, c, r) /\ r \in Nat /\ r <= Len(written)
    BY DEF Placed, Lag
  <2>2. m \in Nat /\ index_entries \in Seq(IndexEntry)
    BY DEF FileInv, IInv, TypeOK_Units
  <2>3. /\ Len(Entries) = m + 1 /\ Entries[m + 1] = en
        /\ \A k \in 1..m : Entries[k] = index_entries[k]
    BY <1>2, <2>2 DEF Longer
  <2> HIDE DEF r, m
  <2>4. en.cluster # c
    <3>1. m + 1 \in 1..Len(Entries)
      BY <2>2, <2>3
    <3>2. QED
      BY <1>2, <2>3, <3>1 DEF ClusterFails
  <2>5. Listed(Entries, c, r)
    BY <1>2, <2>1, <2>2, <2>4, ListedMore
  <2>6. \A k \in 1..Len(Entries) :
          Entries[k].cluster = c => k \in 1..m /\ Entries[k] = index_entries[k]
    <3> SUFFICES ASSUME NEW k \in 1..Len(Entries), Entries[k].cluster = c
                 PROVE  k \in 1..m /\ Entries[k] = index_entries[k]
      OBVIOUS
    <3>1. k \in 1..m \/ k = m + 1
      BY <2>2, <2>3
    <3>2. k # m + 1
      BY <2>3, <2>4
    <3>3. QED
      BY <2>3, <3>1, <3>2
  <2>7. Reading(c, r)
    <3>1. Len(Entries) \in Nat
      BY <2>2, <2>3
    <3>2. QED
      BY <2>5, <2>6, <3>1 DEF Reading, m
  <2>8. r \in 0..Len(written) /\ ReadAll(c) = SubSeq(written, 0 + 1, r)
    BY <2>1, <2>7, ClusterIsRead
  <2>9. QED
    BY <2>8 DEF r
<1>3. QED
  BY <1>1, <1>2, EntriesOr

-----------------------------------------------------------------------------
(* Laps of a sequence of samples.                                          *)

LEMMA PickedRange ==
  ASSUME NEW S, NEW w \in Seq(S), NEW P, NEW from \in 1..(Len(w) + 1),
         NEW to \in (from - 1)..Len(w), \A n \in 1..Len(w) : n \in P <=> from <= n /\ n <= to
  PROVE  Picked(w, P) = SubSeq(w, from, to)
<1> DEFINE s == [n \in 1..Len(w) |-> IF n \in P THEN <<w[n]>> ELSE << >>]
<1>1. s = [n \in 1..Len(w) |-> IF from <= n /\ n <= to THEN <<w[n]>> ELSE << >>]
  OBVIOUS
<1>2. SievedTo(s, w, from, to)
  BY <1>1 DEF SievedTo
<1> HIDE DEF s
<1>3. FlattenSeq(s) = SubSeq(w, from, to)
  BY <1>2, SievedPart
<1>4. QED
  BY <1>3 DEF Picked, s

LEMMA StartsEnumerate ==
  ASSUME NEW s \in Seq(Frame)
  PROVE  \E T : Enumerates(LapStarts(s), T, Len(s)) /\ (Len(s) > 0 => 1 \in T)
<1> DEFINE n == Len(s)
           T == {i \in 1..n : i = 1 \/ CrossesAt(s, i)}
           w == [i \in 1..n |-> i]
           p == [i \in 1..Len(w) |-> IF i \in T THEN <<w[i]>> ELSE << >>]
<1>1. n \in Nat
  OBVIOUS
<1>2. LapStarts(s) = FlattenSeq(p)
  BY DEF LapStarts, Picked
<1>3. n > 0 => 1 \in T
  BY <1>1
<1> HIDE DEF T
<1>4. p = [i \in 1..n |-> IF i \in T THEN <<i>> ELSE << >>]
  BY <1>1
<1>5. Chosen(p, T, n)
  BY <1>4 DEF Chosen
<1> HIDE DEF p
<1>6. Enumerates(FlattenSeq(p), T, n)
  BY <1>1, <1>5, FilterEnumerates
<1>7. QED
  BY <1>2, <1>3, <1>6

(* A lap ends where the next one begins, the first one begins and the last *)
(* one ends with the recording.                                            *)
LEMMA LapBounds ==
  ASSUME NEW s \in Seq(Frame), s # << >>
  PROVE  /\ Len(s) \in Nat \ {0} /\ LapCount(s) \in Nat \ {0} /\ LapCount(s) = Len(LapStarts(s))
         /\ LapStarts(s)[1] = 1 /\ LapEnd(s, LapCount(s)) = Len(s)
         /\ \A k \in 1..LapCount(s) : /\ LapStarts(s)[k] \in 1..Len(s)
                                      /\ LapEnd(s, k) \in LapStarts(s)[k]..Len(s)
         /\ \A k \in 1..LapCount(s) : k # LapCount(s) =>
              /\ LapEnd(s, k) + 1 \in 1..Len(s) /\ LapStarts(s)[k + 1] = LapEnd(s, k) + 1
<1> DEFINE p == LapStarts(s)
           n == Len(s)
           m == Len(p)
<1>0. n \in Nat \ {0}
  BY NotEmpty
<1>1. LapCount(s) = m
  BY DEF LapCount
<1>2. \A k : LapEnd(s, k) = IF k < m THEN p[k + 1] - 1 ELSE n
  BY DEF LapEnd
<1> HIDE DEF p, n
<1>3. PICK T : Enumerates(p, T, n) /\ 1 \in T
  <2>1. n > 0
    BY <1>0
  <2>2. QED
    BY <2>1, StartsEnumerate DEF p, n
<1>4. /\ p \in Seq(Nat) /\ m \in Nat /\ \A a \in 1..m : p[a] \in 1..n
      /\ \A a \in 2..m : p[a - 1] < p[a]
      /\ \A t \in 1..n : t \in T => \E a \in 1..m : p[a] = t
  BY <1>3 DEF Enumerates
<1> HIDE DEF m
<1>5. PICK a \in 1..m : p[a] = 1
  <2>1. 1 \in 1..n
    BY <1>0
  <2>2. QED
    BY <1>3, <1>4, <2>1
<1>6. m # 0 /\ 1 \in 1..m /\ m \in 1..m
  BY <1>4, <1>5
<1>7. p[1] = 1
  <2>1. ASSUME a # 1 PROVE FALSE
    <3>1. a \in 2..m /\ a - 1 \in 1..m
      BY <1>4, <1>5, <2>1
    <3>2. p[a - 1] < 1 /\ p[a - 1] \in 1..n
      BY <1>4, <1>5, <3>1
    <3>3. QED
      BY <1>0, <3>2
  <2>2. QED
    BY <1>5, <2>1
<1>8. ASSUME NEW k \in 1..m
      PROVE  /\ p[k] \in 1..n /\ LapEnd(s, k) \in p[k]..n
             /\ k # m => LapEnd(s, k) + 1 \in 1..n /\ p[k + 1] = LapEnd(s, k) + 1
  <2>1. p[k] \in 1..n
    BY <1>4
  <2>2. CASE k = m
    <3>1. LapEnd(s, k) = n
      BY <1>2, <1>4, <2>2
    <3>2. QED
      BY <1>0, <2>1, <2>2, <3>1
  <2>3. CASE k # m
    <3>1. k < m /\ k + 1 \in 2..m /\ k + 1 \in 1..m /\ (k + 1) - 1 = k
      BY <1>4, <2>3
    <3>2. LapEnd(s, k) = p[k + 1] - 1 /\ p[k + 1] \in 1..n /\ p[k] < p[k + 1]
      BY <1>2, <1>4, <3>1
    <3>3. QED
      BY <1>0, <2>1, <3>2
  <2>4. QED
    BY <2>2, <2>3
<1>9. LapEnd(s, m) = n
  BY <1>2, <1>4
<1>10. QED
  BY <1>0, <1>1, <1>4, <1>6, <1>7, <1>8, <1>9 DEF p, n, m

(* One entry of a lap index.                                               *)
LapIs(e, s, k) ==
  /\ e \in LapEntry /\ e.lap = k - 1
  /\ e.first = s[LapStarts(s)[k]].tick /\ e.last = s[LapEnd(s, k)].tick
  /\ e.count = LapEnd(s, k) - LapStarts(s)[k] + 1
  /\ e.valid = 1 <=> k # 1 /\ (k = LapCount(s) \/ s[LapEnd(s, k)].sample.valid # 0)

LEMMA IndexedLapIs ==
  ASSUME NEW s \in Seq(Frame), s # << >>, NEW k \in 1..LapCount(s)
  PROVE  LapIs(IndexedLap(s, k), s, k)
<1> DEFINE a == LapStarts(s)[k]
           b == LapEnd(s, k)
           v == k # 1 /\ (k = LapCount(s) \/ s[b].sample.valid # 0)
           e == IndexedLap(s, k)
<1>1. k \in Nat \ {0} /\ a \in 1..Len(s) /\ b \in a..Len(s) /\ Len(s) \in Nat
  BY LapBounds
<1>2. e = [lap |-> k - 1, first |-> s[a].tick, last |-> s[b].tick, count |-> b - a + 1,
           valid |-> IF v THEN 1 ELSE 0, out |-> IF k = 1 THEN 1 ELSE 0]
  BY DEF IndexedLap, Lap
<1> HIDE DEF a, b, v, e
<1>3. b \in 1..Len(s) /\ b - a + 1 \in Nat /\ k - 1 \in Nat
  BY <1>1
<1>4. s[a].tick \in Nat /\ s[b].tick \in Nat
  <2>1. s[a] \in Frame /\ s[b] \in Frame
    BY <1>1, <1>3
  <2>2. QED
    BY <2>1 DEF Frame
<1>5. e \in LapEntry
  <2> DEFINE valid == IF v THEN 1 ELSE 0
             out == IF k = 1 THEN 1 ELSE 0
             count == b - a + 1
             lap == k - 1
  <2>1. valid \in {0, 1} /\ out \in {0, 1} /\ count \in Nat /\ lap \in Nat
    BY <1>3
  <2> HIDE DEF valid, out, count, lap
  <2>2. e = [lap |-> lap, first |-> s[a].tick, last |-> s[b].tick, count |-> count,
             valid |-> valid, out |-> out]
    BY <1>2 DEF valid, out, count, lap
  <2>3. QED
    BY <1>4, <2>1, <2>2 DEF LapEntry
<1>6. e.lap = k - 1 /\ e.first = s[a].tick /\ e.last = s[b].tick /\ e.count = b - a + 1
  BY <1>2
<1>7. e.valid = 1 <=> v
  BY <1>2
<1>8. QED
  BY <1>5, <1>6, <1>7 DEF LapIs, a, b, v, e

LEMMA LapsHaveTypes ==
  ASSUME NEW s \in Seq(Frame), s # << >>
  PROVE  LapsToAppend(s) \in Seq(LapEntry) /\ Len(LapsToAppend(s)) = LapCount(s)
<1> DEFINE n == LapCount(s)
<1>1. n \in Nat
  BY LapBounds
<1> HIDE DEF n
<1>2. \A k \in 1..n : IndexedLap(s, k) \in LapEntry
  BY IndexedLapIs DEF LapIs, n
<1>3. LapsToAppend(s) = [k \in 1..n |-> IndexedLap(s, k)]
  BY SMTT(30) DEF LapsToAppend, n
<1>4. QED
  BY <1>1, <1>2, <1>3 DEF n

-----------------------------------------------------------------------------
(* The LAPS block.                                                         *)

(* What append_lap_index reads are frames that were written; all of them,  *)
(* when the file is finished.                                              *)
LEMMA LapDataIs ==
  ASSUME FileInv, LanesInv, Opens, LapData # << >>
  PROVE  LapData \in Seq(Frame) /\ (HasFooter => LapData = written)
<1>1. Ordered /\ Session \in ClusterSet
  BY ReaderAssumption, ClustersAre DEF ReaderAssumption, LanesInv
<1>2. PICK x : Placed(x)
  BY DEF LanesInv
<1>3. file # << >>
  BY OpensOnUnits
<1>4. ~ClusterFails(Session) /\ LapData = ReadAll(Session)
  BY DEF LapData, ReadOrNone
<1> DEFINE r == x[Session]
<1>5. ReadAll(Session) = SubSeq(written, 0 + 1, r) /\ r \in 0..Len(written)
  BY <1>1, <1>2, <1>3, <1>4, AnyClusterNow
<1>6. HasFooter => r = Len(written)
  BY <1>1, <1>2 DEF HasFooter, Placed, Even
<1> HIDE DEF r
<1>7. written \in Seq(Frame) /\ 0 \in 0..Len(written)
  BY DEF FileInv, IInv, TypeOK_Frames
<1>8. SubSeq(written, 0 + 1, r) \in Seq(Frame)
  BY <1>5, <1>7, SubSeqShape
<1>9. SubSeq(written, 0 + 1, Len(written)) = written
  BY <1>7
<1>10. QED
  BY ZenonT(30), <1>4, <1>5, <1>6, <1>8, <1>9

LEMMA AppendsLaps ==
  ASSUME FileInv, LanesInv, AppendLapIndex
  PROVE  \E laps \in Seq(LapEntry) :
           AppendLaps(laps) /\ (HasFooter => laps = LapsToAppend(written))
<1>1. Opens /\ LapData # << >>
  BY DEF AppendLapIndex
<1>2. LapData \in Seq(Frame) /\ (HasFooter => LapData = written)
  BY <1>1, LapDataIs
<1>3. LapsToAppend(LapData) \in Seq(LapEntry)
  BY <1>1, <1>2, LapsHaveTypes
<1>4. AppendLaps(LapsToAppend(LapData))
  BY DEF AppendLapIndex
<1>5. QED
  BY <1>2, <1>3, <1>4

LEMMA SpecStep ==
  FileInv /\ LanesInv /\ [Next]_vars => FileInv' /\ LanesInv' /\ [FileNext]_vars
<1> SUFFICES ASSUME FileInv, LanesInv, [Next]_vars
             PROVE  FileInv' /\ LanesInv' /\ [FileNext]_vars
  OBVIOUS
<1>1. [FileNext]_vars
  <2>1. CASE AppendLapIndex
    BY <2>1, AppendsLaps DEF FileNext
  <2>2. CASE WriterNext
    BY <2>2 DEF FileNext
  <2>3. QED
    BY <2>1, <2>2 DEF Next
<1>2. FileInv'
  BY <1>1, InvStep, LayoutStep, ReachStep DEF FileInv
<1>3. LanesInv'
  BY <1>1, LanesStep DEF FileInv
<1>4. QED
  BY <1>1, <1>2, <1>3

LEMMA SpecAlways == Spec => [](FileInv /\ LanesInv)
<1>1. Init => FileInv /\ LanesInv
  BY InitInv, LayoutInit, ReachInit, LanesInit DEF FileInv
<1>2. FileInv /\ LanesInv /\ [Next]_vars => (FileInv /\ LanesInv)'
  BY SpecStep
<1>3. QED
  BY <1>1, <1>2, PTL DEF Spec

(* append_lap_index adds laps of frames that were written: what is true of *)
(* a file with any LAPS blocks is true of one that it makes.               *)
THEOREM SpecIsFile == Spec => FileSpec
<1>1. FileInv /\ LanesInv /\ [Next]_vars => [FileNext]_vars
  BY SpecStep
<1>2. QED
  BY <1>1, SpecAlways, PTL DEF Spec, FileSpec

(* Behind the footer, the laps are those of the recording.                 *)
LapsInv ==
  footer_offset # 0 =>
    /\ \A n \in 1..Len(file) : footer_offset < n => file[n].laps = LapsToAppend(written)
    /\ pc = "laps" => todo[1].laps = LapsToAppend(written)

LEMMA LapsGrow ==
  ASSUME FileInv, LapsInv, footer_offset # 0, NEW u, Grown(u), u.laps = LapsToAppend(written)
  PROVE  \A n \in 1..Len(file') : footer_offset < n => file'[n].laps = LapsToAppend(written)
<1>1. file \in Seq(Unit) /\ Len(file) \in Nat
  BY DEF FileInv, IInv, TypeOK_Units
<1>2. Len(file') = Len(file) + 1 /\ file'[Len(file) + 1] = u
      /\ \A n \in 1..Len(file) : file'[n] = file[n]
  BY <1>1, AppendShape DEF Grown
<1> SUFFICES ASSUME NEW n \in 1..Len(file'), footer_offset < n
             PROVE  file'[n].laps = LapsToAppend(written)
  OBVIOUS
<1>3. n \in 1..Len(file) \/ n = Len(file) + 1
  BY <1>1, <1>2
<1>4. QED
  BY <1>2, <1>3 DEF LapsInv

LEMMA LapsStep ==
  ASSUME FileInv, LanesInv, LapsInv, [Next]_vars
  PROVE  LapsInv'
<1> SUFFICES ASSUME footer_offset' # 0
             PROVE  /\ \A n \in 1..Len(file') :
                         footer_offset' < n => file'[n].laps = LapsToAppend(written')
                    /\ pc' = "laps" => todo'[1].laps = LapsToAppend(written')
  BY ZenonT(30) DEF LapsInv, LapsToAppend, IndexedLap, Lap, LapCount, LapStarts, LapEnd,
                    CrossesAt, Picked
<1>1. CASE PatchHeader
  <2>1. footer_offset' = Len(file) /\ file' = file /\ pc' = "finished" /\ Len(file) \in Nat
    BY <1>1 DEF PatchHeader, FileInv, IInv, TypeOK_Units
  <2>2. \A n \in 1..Len(file') : ~(footer_offset' < n)
    BY <2>1
  <2>3. QED
    BY <2>1, <2>2
<1>2. CASE ~PatchHeader
  <2>1. footer_offset' = footer_offset
    BY <1>2 DEF Next, AppendLapIndex, WriterNext, vars, WriteFrame, FlushToDisk, Finish, WritePiece,
                WriteUnit, Dies, AppendLaps
  <2>2. footer_offset # 0 /\ pc \in {"finished", "laps", "dead"}
    BY <2>1 DEF FileInv, IInv, TypeOK_Rest, Shape
  <2>3. /\ \A n \in 1..Len(file) : footer_offset < n => file[n].laps = LapsToAppend(written)
        /\ pc = "laps" => todo[1].laps = LapsToAppend(written)
    BY <2>2 DEF LapsInv
  <2>4. ~WriteFrame /\ ~FlushToDisk /\ ~Finish
    BY <2>2 DEF WriteFrame, FlushToDisk, Finish
  <2>5. CASE UNCHANGED vars \/ WritePiece
    <3>1. UNCHANGED <<file, todo, pc, written>>
      BY <2>5 DEF vars, WritePiece
    <3>2. QED
      BY <2>1, <2>3, <3>1
  <2>6. CASE WriteUnit
    <3>1. Grown(todo[1]) /\ pc = "laps" /\ written' = written
      BY <2>2, <2>6, WriteUnitGrows DEF WriteUnit, FileInv, Calls
    <3>2. pc' # "laps"
      <4>1. Len(todo) = 1
        BY <3>1 DEF FileInv, IInv, Shape
      <4>2. ~(Len(todo) > 1)
        BY <4>1
      <4>3. pc' = CASE pc \in {"create", "flush"} -> "open"
                    [] pc = "footer" -> "patch"
                    [] pc = "laps" -> IF footer_offset # 0 THEN "finished" ELSE "dead"
        BY <2>6, <3>1, <4>2 DEF WriteUnit
      <4>4. pc' = "finished"
        BY <2>2, <3>1, <4>3
      <4>5. QED
        BY <4>4
    <3>3. \A n \in 1..Len(file') : footer_offset < n => file'[n].laps = LapsToAppend(written)
      BY <2>2, <2>3, <3>1, LapsGrow
    <3>4. QED
      BY <2>1, <3>1, <3>2, <3>3
  <2>7. CASE Dies
    <3>1. written' = written /\ pc' # "laps"
      BY <2>7 DEF Dies
    <3>2. CASE cut = "none"
      <4>1. file' = file
        BY <2>7, <3>2 DEF Dies, Contents
      <4>2. QED
        BY <2>1, <2>3, <3>1, <4>1
    <3>3. CASE cut # "none"
      <4> DEFINE u == [todo[1] EXCEPT !.cut = cut]
      <4>1. file' = Append(file, u) /\ pc = "laps"
        BY <2>2, <2>7, <3>3 DEF Dies, Contents, FileInv, IInv, Shape, Calls
      <4>2. todo[1] \in Unit /\ todo[1].kind = "LAPS"
        BY <3>3, <4>1, NotEmpty DEF FileInv, IInv, Shape, TypeOK_Units
      <4>3. u \in Unit /\ u.kind = "LAPS" /\ u.laps = todo[1].laps
        BY <4>2, CutType DEF FileInv, IInv, TypeOK_Rest
      <4> HIDE DEF u
      <4>4. Grown(u) /\ u.laps = LapsToAppend(written)
        BY <2>3, <4>1, <4>3 DEF Grown
      <4>5. \A n \in 1..Len(file') : footer_offset < n => file'[n].laps = LapsToAppend(written)
        BY <2>2, <4>4, LapsGrow
      <4>6. QED
        BY <2>1, <3>1, <4>5
    <3>4. QED
      BY <3>2, <3>3
  <2>8. CASE AppendLapIndex
    <3>1. PICK laps \in Seq(LapEntry) :
            AppendLaps(laps) /\ (HasFooter => laps = LapsToAppend(written))
      BY <2>8, AppendsLaps
    <3>2. UNCHANGED <<file, written>> /\ todo' = <<LapsBlock(laps)>>
      BY <3>1 DEF AppendLaps
    <3>3. todo'[1] = LapsBlock(laps)
      BY <3>2
    <3>4. LapsBlock(laps).laps = laps
      BY DEF LapsBlock
    <3>5. laps = LapsToAppend(written)
      BY <2>2, <3>1 DEF HasFooter
    <3>6. QED
      BY <2>1, <2>3, <3>2, <3>3, <3>4, <3>5
  <2>9. QED
    BY <1>2, <2>4, <2>5, <2>6, <2>7, <2>8 DEF Next, WriterNext
<1>3. QED
  BY SMTT(30), <1>1, <1>2

LEMMA LapsAlways == Spec => []LapsInv
<1>1. Init => LapsInv
  BY DEF Init, LapsInv
<1>2. FileInv /\ LanesInv /\ LapsInv /\ [Next]_vars => LapsInv'
  BY LapsStep
<1>3. QED
  BY <1>1, <1>2, SpecAlways, PTL DEF Spec

-----------------------------------------------------------------------------
(* What the laps are.                                                      *)
Lapped == FileInv /\ LanesInv /\ LapsInv

LEMMA LapIndexIs ==
  ASSUME Lapped, ~Damaged, LapIndex # << >>
  PROVE  HasFooter /\ LapIndex = LapsToAppend(written)
<1> DEFINE n == footer_offset + 1
<1>1. HasFooter /\ ~(n > Size)
  BY DEF LapIndex
<1>2. /\ footer_offset \in Nat \ {0} /\ file \in Seq(Unit) /\ Len(file) \in Nat /\ Size \in Nat
      /\ Len(file) <= Size /\ Size <= Len(file) + 1 /\ footer_offset < n
  <2>1. footer_offset \in Nat \ {0} /\ file \in Seq(Unit) /\ Len(file) \in Nat
    BY <1>1 DEF HasFooter, Lapped, FileInv, IInv, TypeOK_Rest, TypeOK_Units
  <2>2. QED
    BY <2>1 DEF Size
<1>3. n \in 1..Size
  BY <1>1, <1>2
<1>4. Whole(n)
  <2>1. ASSUME ~Whole(n) PROVE n < Size
    BY <1>1, <2>1 DEF LapIndex
  <2>2. ASSUME ~Whole(n) PROVE n \in 1..(Size - 1)
    BY <1>2, <1>3, <2>1, <2>2
  <2>3. QED
    BY <2>2 DEF Damaged
<1>5. LapIndex = At(n).laps
  BY <1>1, <1>4 DEF LapIndex
<1>6. n \in 1..Len(file)
  <2>1. CASE n <= Len(file)
    BY <1>2, <2>1
  <2>2. CASE ~(n <= Len(file))
    <3>1. cut # "none"
      BY <1>2, <1>3, <2>2 DEF Size
    <3>2. At(n) = [todo[1] EXCEPT !.cut = cut]
      BY <2>2 DEF At
    <3>3. todo[1] \in Unit /\ cut \in Cuts /\ cut # "whole"
      BY <3>1, NotEmpty DEF Lapped, FileInv, IInv, Shape, TypeOK_Rest, TypeOK_Units
    <3>4. At(n).cut = cut
      BY ZenonT(30), <3>2, <3>3, CutType
    <3>5. QED
      BY <1>4, <3>3, <3>4 DEF Whole
  <2>3. QED
    BY <2>1, <2>2
<1>7. At(n) = file[n]
  BY <1>6 DEF At
<1>8. file[n].laps = LapsToAppend(written)
  BY <1>2, <1>6 DEF Lapped, LapsInv
<1>9. QED
  BY <1>1, <1>5, <1>7, <1>8

(* A reader of a finished file has all that was written of every cluster.  *)
LEMMA FinishedReads ==
  ASSUME FileInv, LanesInv, HasFooter, NEW c \in ClusterSet
  PROVE  ReadAll(c) = written /\ ReadOrNone(c) = written /\ ~ClusterFails(c) /\ Opens
<1>1. Ordered
  BY DEF LanesInv
<1>2. PICK x : Placed(x)
  BY DEF LanesInv
<1>3. Opens /\ file # << >>
  BY FooterReadable, OpensOnUnits DEF FileInv, FramesReadable
<1>4. Entries = index_entries
  BY <1>1, <1>3, EntriesAre
<1>5. ~ClusterFails(c) /\ ReadAll(c) = SubSeq(written, 0 + 1, x[c])
  BY <1>1, <1>2, <1>3, <1>4, ClusterNow
<1>6. x[c] = Len(written)
  BY <1>2 DEF HasFooter, Placed, Even
<1>7. written \in Seq(Frame)
  BY DEF FileInv, IInv, TypeOK_Frames
<1>8. SubSeq(written, 0 + 1, Len(written)) = written
  BY <1>7
<1>9. QED
  BY <1>3, <1>5, <1>6, <1>8 DEF ReadOrNone

LEMMA FinishedColumn ==
  ASSUME FileInv, LanesInv, FramesReadable, ~Damaged, HasFooter, NEW c \in ClusterSet
  PROVE  FramesColumn(c) = written
<1>1. PICK x : Placed(x)
  BY DEF LanesInv
<1>2. Ordered
  BY DEF LanesInv
<1>3. QED
  BY <1>1, <1>2, ColumnIsRead

(* The frames of one lap.                                                  *)
LEMMA LapPlaces ==
  ASSUME NEW w \in Seq(Frame), Ticked(w), NEW a \in 1..Len(w), NEW b \in a..Len(w)
  PROVE  /\ w[a].tick = a - 1 /\ w[b].tick = b - 1
         /\ \A n \in 1..Len(w) : n \in PlacesOf(w, a - 1, b - 1) <=> a <= n /\ n <= b
         /\ Picked(w, PlacesOf(w, a - 1, b - 1)) = SubSeq(w, a, b)
<1> DEFINE P == PlacesOf(w, a - 1, b - 1)
<1>1. Len(w) \in Nat /\ b \in 1..Len(w)
  OBVIOUS
<1>2. \A n \in 1..Len(w) : w[n].tick = n - 1
  BY DEF Ticked
<1>3. ASSUME NEW n \in 1..Len(w) PROVE n \in P <=> a <= n /\ n <= b
  <2>1. n \in P <=> a - 1 <= w[n].tick /\ w[n].tick <= b - 1
    BY DEF PlacesOf
  <2>2. QED
    BY <1>1, <1>2, <2>1
<1> HIDE DEF P
<1>4. a \in 1..(Len(w) + 1) /\ b \in (a - 1)..Len(w)
  BY <1>1
<1>5. Picked(w, P) = SubSeq(w, a, b)
  BY <1>3, <1>4, PickedRange
<1>6. QED
  BY <1>1, <1>2, <1>3, <1>5 DEF P

LEMMA PartitionsNow == Lapped => LapsPartition
<1> SUFFICES ASSUME Lapped, FramesReadable, ~Damaged, LapIndex # << >>, NEW c \in ToSet(Clusters)
             PROVE  LET laps == [k \in 1..Len(LapIndex) |-> LapColumn(LapIndex[k], c)]
                    IN  /\ FlattenSeq(laps) = FramesColumn(c)
                        /\ \A k \in 1..Len(laps) : /\ Len(laps[k]) = LapIndex[k].count
                                                   /\ LapIndex[k].lap = k - 1
  BY DEF LapsPartition
<1>1. HasFooter /\ LapIndex = LapsToAppend(written)
  BY LapIndexIs
<1>2. c \in ClusterSet /\ Controls \in ClusterSet
  BY ClustersAre
<1>3. written \in Seq(Frame) /\ Ticked(written) /\ Len(written) \in Nat
  BY DEF Lapped, FileInv, IInv, TypeOK_Frames, FramesInv
<1>4. FramesColumn(c) = written /\ ReadAll(Controls) = written
  BY <1>1, <1>2, FinishedColumn, FinishedReads DEF Lapped
<1> DEFINE m == LapCount(written)
           laps == [k \in 1..Len(LapIndex) |-> LapColumn(LapIndex[k], c)]
           e == [k \in 0..m |-> IF k = 0 THEN 0 ELSE LapEnd(written, k)]
<1>5. written # << >>
  <2>1. ASSUME written = << >> PROVE FALSE
    <3>1. LapCount(written) = 0
      BY <2>1 DEF LapCount
    <3>2. LapsToAppend(written) = << >>
      BY <3>1 DEF LapsToAppend
    <3>3. QED
      BY <1>1, <3>2
  <2>2. QED
    BY <2>1
<1>6. /\ m \in Nat \ {0} /\ Len(written) \in Nat \ {0}
      /\ LapStarts(written)[1] = 1 /\ LapEnd(written, m) = Len(written)
      /\ \A k \in 1..m : /\ LapStarts(written)[k] \in 1..Len(written)
                         /\ LapEnd(written, k) \in LapStarts(written)[k]..Len(written)
      /\ \A k \in 1..m : k # m =>
           LapEnd(written, k) + 1 \in 1..Len(written)
           /\ LapStarts(written)[k + 1] = LapEnd(written, k) + 1
  BY <1>3, <1>5, LapBounds
<1>7. Len(LapIndex) = m
  BY <1>1, <1>3, <1>5, LapsHaveTypes
<1>8. \A k \in 1..m : LapIndex[k] = IndexedLap(written, k)
  BY <1>1 DEF LapsToAppend
<1> HIDE DEF m
<1>9. laps = [k \in 1..m |-> laps[k]] /\ Len(laps) = m
      /\ \A k \in 1..m : laps[k] = LapColumn(LapIndex[k], c)
  BY <1>6, <1>7
<1>10. e[0] = 0 /\ e[m] = Len(written) /\ \A k \in 1..m : e[k] = LapEnd(written, k)
  BY <1>6
<1> HIDE DEF laps, e
<1>11. ASSUME NEW k \in 1..m
       PROVE  /\ e[k - 1] \in 0..Len(written) /\ e[k] \in 0..Len(written) /\ e[k - 1] <= e[k]
              /\ laps[k] = SubSeq(written, e[k - 1] + 1, e[k])
              /\ Len(laps[k]) = LapIndex[k].count /\ LapIndex[k].lap = k - 1
  <2> DEFINE a == LapStarts(written)[k]
             b == LapEnd(written, k)
  <2>1. a \in 1..Len(written) /\ b \in a..Len(written) /\ e[k] = b
    BY <1>6, <1>10
  <2>2. e[k - 1] + 1 = a /\ e[k - 1] \in 0..Len(written)
    <3>1. CASE k = 1
      BY <1>6, <1>10, <3>1
    <3>2. CASE k # 1
      <4>1. k - 1 \in 1..m /\ k - 1 # m /\ (k - 1) + 1 = k
        BY <1>6, <3>2
      <4>2. a = LapEnd(written, k - 1) + 1 /\ LapEnd(written, k - 1) \in 1..Len(written)
        <5>1. LapStarts(written)[k - 1] \in 1..Len(written)
              /\ LapEnd(written, k - 1) \in LapStarts(written)[k - 1]..Len(written)
          BY <1>6, <4>1
        <5>2. LapStarts(written)[(k - 1) + 1] = LapEnd(written, k - 1) + 1
          BY <1>6, <4>1
        <5>3. QED
          BY <1>3, <4>1, <5>1, <5>2
      <4>3. e[k - 1] = LapEnd(written, k - 1)
        BY <1>10, <4>1
      <4>4. QED
        BY <1>3, <4>2, <4>3
    <3>3. QED
      BY <3>1, <3>2
  <2>3. LapIs(LapIndex[k], written, k)
    BY <1>3, <1>5, <1>8, IndexedLapIs DEF m
  <2>4. /\ LapIndex[k].lap = k - 1 /\ LapIndex[k].first = written[a].tick
        /\ LapIndex[k].last = written[b].tick /\ LapIndex[k].count = b - a + 1
    BY <2>3 DEF LapIs
  <2> HIDE DEF a, b
  <2>5. /\ written[a].tick = a - 1 /\ written[b].tick = b - 1
        /\ Picked(written, PlacesOf(written, a - 1, b - 1)) = SubSeq(written, a, b)
    BY <1>3, <2>1, LapPlaces
  <2>6. laps[k] = SubSeq(written, a, b)
    BY <1>4, <1>9, <2>4, <2>5 DEF LapColumn
  <2>7. e[k - 1] <= e[k] /\ e[k] \in 0..Len(written) /\ b - e[k - 1] = b - a + 1
    BY <1>3, <2>1, <2>2
  <2>8. Len(SubSeq(written, e[k - 1] + 1, b)) = b - e[k - 1]
    <3>1. b \in e[k - 1]..Len(written)
      BY <1>3, <2>1, <2>2
    <3> DEFINE z == e[k - 1]
    <3>2. z \in 0..Len(written) /\ b \in z..Len(written)
      BY <2>2, <3>1
    <3> HIDE DEF z
    <3>3. Len(SubSeq(written, z + 1, b)) = b - z
      BY <1>3, <3>2, SubSeqShape
    <3>4. QED
      BY <3>3 DEF z
  <2>9. QED
    BY <2>1, <2>2, <2>4, <2>6, <2>7, <2>8
<1>12. Pieces(laps, m, written, e)
  <2>1. \A k \in 0..m : e[k] \in 0..Len(written)
    <3> SUFFICES ASSUME NEW k \in 0..m PROVE e[k] \in 0..Len(written)
      OBVIOUS
    <3>1. k = 0 \/ k \in 1..m
      BY <1>6
    <3>2. QED
      BY <1>3, <1>10, <1>11, <3>1
  <2>2. QED
    BY <1>9, <1>11, <2>1 DEF Pieces
<1>13. FlattenSeq(laps) = SubSeq(written, e[0] + 1, e[m])
  BY <1>3, <1>6, <1>12, FlattenWindow
<1>14. SubSeq(written, 0 + 1, Len(written)) = written
  BY <1>3
<1>15. FlattenSeq(laps) = FramesColumn(c)
  BY <1>4, <1>10, <1>13, <1>14
<1>16. QED
  BY <1>9, <1>11, <1>15 DEF laps

(* The laps of the index cut the recording: read one after another they    *)
(* give every frame once, and each entry has the count of its frames.      *)
THEOREM LapsArePartition == Spec => []LapsPartition
<1>1. FileInv /\ LanesInv /\ LapsInv => LapsPartition
  BY PartitionsNow DEF Lapped
<1>2. QED
  BY <1>1, SpecAlways, LapsAlways, PTL

(* A lap that the outcome shows as valid is one by its last sample.        *)
LEMMA ValidityNow == Lapped => ValidityAgrees
<1> SUFFICES ASSUME Lapped, Opens, ~Damaged, LapIndex # << >>,
                    NEW k \in 1..Len(AggregateLaps), AggregateLaps[k].valid
             PROVE  LapIndex[k].valid = 1
  BY DEF ValidityAgrees
<1>1. HasFooter /\ LapIndex = LapsToAppend(written)
  BY LapIndexIs
<1>2. ReadOrNone(Session) = written
  BY <1>1, ReaderAssumption, ClustersAre, FinishedReads DEF ReaderAssumption, Lapped
<1>3. written \in Seq(Frame) /\ Len(written) \in Nat
  BY DEF Lapped, FileInv, IInv, TypeOK_Frames
<1>4. k \in 1..LapCount(written) /\ AggregatedValid(written, k)
  <2> DEFINE t == ReadOrNone(Timing)
             n == LapCount(written)
  <2>1. AggregateLaps = [j \in 1..n |->
                           [lap |-> Lap(written, j), valid |-> AggregatedValid(written, j),
                            time |-> AggregatedTime(written, t, j)]]
    BY <1>2 DEF AggregateLaps
  <2>2. n \in Nat
    <3>1. CASE written = << >>
      BY <3>1 DEF LapCount
    <3>2. CASE written # << >>
      BY <1>3, <3>2, LapBounds
    <3>3. QED
      BY <3>1, <3>2
  <2> HIDE DEF n, t
  <2>3. Len(AggregateLaps) = n
    BY <2>1, <2>2
  <2>4. k \in 1..n
    BY <2>3
  <2>5. AggregateLaps[k].valid = AggregatedValid(written, k)
    BY <2>1, <2>4
  <2>6. QED
    BY <2>4, <2>5 DEF n
<1>5. written # << >>
  BY <1>4 DEF LapCount
<1> DEFINE a == LapStarts(written)[k]
           b == LapEnd(written, k)
<1>6. a \in 1..Len(written) /\ b \in a..Len(written)
  BY <1>3, <1>4, <1>5, LapBounds
<1>7. k # 1 /\ written[b].sample.valid # 0
  <2>1. k # 1 /\ \A i \in Larger(b - 2, a)..b : written[i].sample.valid # 0
    BY <1>4 DEF AggregatedValid
  <2> HIDE DEF a, b
  <2>2. b \in Larger(b - 2, a)..b
    BY <1>3, <1>6 DEF Larger
  <2>3. QED
    BY <2>1, <2>2
<1>8. LapIndex[k] = IndexedLap(written, k)
  BY <1>1, <1>4 DEF LapsToAppend
<1>9. LapIs(LapIndex[k], written, k)
  BY <1>3, <1>4, <1>5, <1>8, IndexedLapIs
<1>10. QED
  BY <1>7, <1>9 DEF LapIs

(* The latest of the timing samples up to the line is that of the line.    *)
LEMMA TimesNow == Lapped => LapTimesAreOwn
<1> SUFFICES ASSUME Lapped, HasFooter, NEW k \in 1..(Len(AggregateLaps) - 1)
             PROVE  AggregateLaps[k].time = written[AggregateLaps[k].lap.last + 2].sample.last
  BY DEF LapTimesAreOwn
<1>2. ReadOrNone(Session) = written /\ ReadOrNone(Timing) = written
  BY ReaderAssumption, ClustersAre, FinishedReads DEF ReaderAssumption, Lapped
<1>3. written \in Seq(Frame) /\ Ticked(written) /\ Len(written) \in Nat
  BY DEF Lapped, FileInv, IInv, TypeOK_Frames, FramesInv
<1> DEFINE n == LapCount(written)
<1>a. n \in Nat
  <2>1. CASE written = << >>
    BY <2>1 DEF LapCount
  <2>2. CASE written # << >>
    BY <1>3, <2>2, LapBounds
  <2>3. QED
    BY <2>1, <2>2
<1>4. AggregateLaps = [j \in 1..n |->
                         [lap |-> Lap(written, j), valid |-> AggregatedValid(written, j),
                          time |-> AggregatedTime(written, written, j)]]
  BY <1>2 DEF AggregateLaps
<1> HIDE DEF n
<1>5. Len(AggregateLaps) = n
  BY <1>a, <1>4
<1>6. k \in 1..n /\ k # n
  BY <1>a, <1>5
<1>7. /\ AggregateLaps[k].time = AggregatedTime(written, written, k)
      /\ AggregateLaps[k].lap = Lap(written, k)
  BY <1>4, <1>6
<1>8. written # << >>
  BY <1>6 DEF LapCount, n
<1> DEFINE a == LapStarts(written)[k]
           b == LapEnd(written, k)
           c == b + 1
<1>9. a \in 1..Len(written) /\ b \in a..Len(written) /\ c \in 1..Len(written)
  <2>1. k # LapCount(written) /\ k \in 1..LapCount(written)
    BY <1>6 DEF n
  <2>2. QED
    BY <1>3, <1>8, <2>1, LapBounds
<1> DEFINE upto == {i \in 1..Len(written) :
                      written[a].tick <= written[i].tick /\ written[i].tick <= written[c].tick}
           late == CHOOSE i \in upto : \A j \in upto : written[j].tick <= written[i].tick
<1>10. AggregatedTime(written, written, k) =
         IF k = n \/ upto = {} THEN NoTime ELSE written[late].sample.last
  BY DEF AggregatedTime, n
<1>11. Lap(written, k).last = written[b].tick
  BY DEF Lap
<1> HIDE DEF a, b, c
<1>12. b \in 1..Len(written) /\ c = b + 1 /\ c \in Nat /\ a \in Nat /\ a <= c
  BY <1>3, <1>9 DEF c
<1>13. \A i \in 1..Len(written) : written[i].tick = i - 1
  BY <1>3 DEF Ticked
<1>14. \A i \in 1..Len(written) : i \in upto <=> a <= i /\ i <= c
  <2> SUFFICES ASSUME NEW i \in 1..Len(written) PROVE i \in upto <=> a <= i /\ i <= c
    OBVIOUS
  <2>1. written[i].tick = i - 1 /\ written[a].tick = a - 1 /\ written[c].tick = c - 1
    BY <1>9, <1>13
  <2>2. i \in upto <=> a - 1 <= i - 1 /\ i - 1 <= c - 1
    BY <2>1
  <2>3. QED
    BY <1>3, <1>12, <2>2
<1>15. \A i \in upto : i \in 1..Len(written)
  OBVIOUS
<1> DEFINE Latest(i) == \A j \in upto : written[j].tick <= written[i].tick
<1>16. c \in upto /\ Latest(c)
  <2>1. c \in upto
    BY <1>9, <1>12, <1>14
  <2>2. ASSUME NEW j \in upto PROVE written[j].tick <= written[c].tick
    OBVIOUS
  <2>3. QED
    BY <2>1, <2>2
<1>17. late \in upto /\ Latest(late)
  <2>1. \E i \in upto : Latest(i)
    BY <1>16
  <2>2. QED
    BY <2>1
<1> HIDE DEF late
<1>18. late = c
  <2>1. late \in 1..Len(written) /\ late <= c
    BY <1>14, <1>15, <1>17
  <2>2. written[c].tick <= written[late].tick
    BY <1>16, <1>17
  <2>3. written[c].tick = c - 1 /\ written[late].tick = late - 1
    BY <1>9, <1>13, <2>1
  <2>4. QED
    BY <1>3, <1>12, <2>1, <2>2, <2>3
<1>19. upto # {}
  BY <1>16
<1> HIDE DEF upto
<1>20. AggregateLaps[k].time = written[c].sample.last
  BY <1>6, <1>7, <1>10, <1>18, <1>19
<1>21. AggregateLaps[k].lap.last + 2 = c
  <2>1. AggregateLaps[k].lap.last = b - 1
    BY <1>7, <1>11, <1>12, <1>13
  <2>2. QED
    BY <1>3, <1>12, <2>1
<1>22. QED
  BY <1>20, <1>21

(* What an outcome says of its laps is true: a lap it shows as valid is    *)
(* valid in the file's lap index, and the time it gives a lap is the one   *)
(* shown at the crossing that ends it.                                     *)
THEOREM TrueOutcomes == Spec => []OutcomesAreTrue
<1>1. FileInv /\ LanesInv /\ LapsInv => OutcomesAreTrue
  BY ValidityNow, TimesNow DEF Lapped, OutcomesAreTrue
<1>2. QED
  BY <1>1, SpecAlways, LapsAlways, PTL

-----------------------------------------------------------------------------
(* The values of a lap.  Of the frames a to b, those up to q are there: up *)
(* to z.                                                                   *)
UpTo(z, a, b, q) == z \in (a - 1)..b /\ \A i \in a..b : i <= q <=> i <= z

LEMMA UpToExists ==
  ASSUME NEW a \in Nat \ {0}, NEW b \in Nat, a <= b, NEW q \in Nat
  PROVE  \E z \in (a - 1)..b : UpTo(z, a, b, q)
<1> DEFINE z == IF b <= q THEN b ELSE IF a - 1 <= q THEN q ELSE a - 1
<1>1. z \in (a - 1)..b
  OBVIOUS
<1>2. \A i \in a..b : i <= q <=> i <= z
  OBVIOUS
<1>3. QED
  BY <1>1, <1>2 DEF UpTo

LEMMA TicksIn ==
  ASSUME NEW w \in Seq(Frame), Ticked(w), NEW p \in 0..Len(w), NEW q \in p..Len(w),
         NEW a \in (p + 1)..Len(w), NEW b \in a..Len(w), NEW z \in (a - 1)..b, UpTo(z, a, b, q)
  PROVE  InTicks(SubSeq(w, p + 1, q), a - 1, b - 1) = SubSeq(w, (a - 1) + 1, z)
<1> DEFINE rows == SubSeq(w, p + 1, q)
           n == q - p
           P == PlacesOf(rows, a - 1, b - 1)
<1>1. /\ rows \in Seq(Frame) /\ Len(rows) = n /\ n \in Nat
      /\ \A j \in 1..n : rows[j] = w[p + j]
  BY SubSeqShape
<1>2. \A j \in 1..n : rows[j].tick = p + j - 1
  <2> SUFFICES ASSUME NEW j \in 1..n PROVE rows[j].tick = p + j - 1
    OBVIOUS
  <2> HIDE DEF rows
  <2>1. p + j \in 1..Len(w) /\ rows[j] = w[p + j]
    BY <1>1
  <2>2. QED
    BY <2>1 DEF Ticked
<1> HIDE DEF rows
<1>3. \A j \in 1..n : j \in P <=> a <= p + j /\ p + j <= b
  <2> SUFFICES ASSUME NEW j \in 1..n PROVE j \in P <=> a <= p + j /\ p + j <= b
    OBVIOUS
  <2>1. j \in P <=> a - 1 <= rows[j].tick /\ rows[j].tick <= b - 1
    BY <1>1 DEF PlacesOf
  <2>2. j \in Nat
    BY <1>1
  <2> HIDE DEF P
  <2>3. QED
    BY <1>2, <2>1, <2>2
<1>4. InTicks(rows, a - 1, b - 1) = Picked(rows, P)
  BY DEF InTicks
<1> HIDE DEF P
<1>5. Len(w) \in Nat /\ a \in Nat /\ b \in Nat /\ z \in Int /\ p \in Nat /\ q \in Nat /\ p < a
      /\ z <= b /\ a - 1 <= z /\ q <= Len(w) /\ b <= Len(w) /\ p <= q
  OBVIOUS
<1>6. \A i \in a..b : i <= q <=> i <= z
  BY DEF UpTo
<1>7. CASE a <= z
  <2> DEFINE from == a - p
             to == z - p
  <2>1. z <= q /\ z \in Nat
    <3>1. z \in a..b /\ z <= z
      BY <1>5, <1>7
    <3>2. z \in Nat
      BY <1>5, <1>7
    <3>3. z <= q
      BY <1>6, <3>1
    <3>4. QED
      BY <3>2, <3>3
  <2>2. from \in 1..(n + 1) /\ to \in (from - 1)..n
    BY <1>5, <1>7, <2>1
  <2>3. \A j \in 1..n : j \in P <=> from <= j /\ j <= to
    <3> SUFFICES ASSUME NEW j \in 1..n PROVE j \in P <=> from <= j /\ j <= to
      OBVIOUS
    <3>1. j \in P <=> a <= p + j /\ p + j <= b
      BY <1>3
    <3>2. p + j <= q /\ p + j \in Nat
      BY <1>1, <1>5
    <3>3. a <= p + j /\ p + j <= b => p + j <= z
      BY <1>5, <1>6, <3>2
    <3>4. from <= j /\ j <= to <=> a <= p + j /\ p + j <= z
      BY <1>1, <1>5
    <3>5. p + j <= z => p + j <= b
      BY <1>5, <3>2
    <3> HIDE DEF from, to
    <3>6. QED
      BY <3>1, <3>3, <3>4, <3>5
  <2>4. Picked(rows, P) = SubSeq(rows, from, to)
    <3> HIDE DEF from, to, n
    <3>1. QED
      BY <1>1, <2>2, <2>3, PickedRange
  <2>5. SubSeq(rows, from, to) = SubSeq(w, (a - 1) + 1, z)
    <3> DEFINE f == from - 1
               part == SubSeq(rows, f + 1, to)
    <3>1. f \in 0..Len(rows) /\ to \in f..Len(rows)
      BY <1>1, <1>5, <1>7, <2>1
    <3> HIDE DEF f, to
    <3>2. /\ part \in Seq(Frame) /\ Len(part) = to - f
          /\ \A k \in 1..(to - f) : part[k] = rows[f + k]
      BY <1>1, <3>1, SubSeqShape
    <3> HIDE DEF part
    <3>3. to - f = z - (a - 1) /\ f + 1 = from
      BY <1>5, <2>1 DEF f, to
    <3>4. ASSUME NEW k \in 1..Len(part) PROVE part[k] = w[(a - 1) + k]
      <4>1. k \in 1..(to - f)
        BY <3>2
      <4>2. part[k] = rows[f + k]
        BY <3>2, <4>1
      <4>3. f + k \in 1..n
        BY <1>1, <3>1, <4>1
      <4>4. rows[f + k] = w[p + (f + k)]
        BY <1>1, <4>3
      <4>5. p + (f + k) = (a - 1) + k
        BY <1>5, <4>1 DEF f
      <4>6. QED
        BY <4>2, <4>4, <4>5
    <3>5. a - 1 \in 0..Len(w) /\ z \in (a - 1)..Len(w)
      BY <1>5
    <3>6. part = SubSeq(w, (a - 1) + 1, z)
      BY <3>2, <3>3, <3>4, <3>5, SubSeqIs
    <3>7. QED
      BY <3>3, <3>6 DEF part
  <2>6. QED
    BY <1>4, <2>4, <2>5 DEF rows
<1>8. CASE z = a - 1
  <2>1. q < a
    <3>1. a \in a..b /\ ~(a <= z)
      BY <1>5, <1>8
    <3>2. QED
      BY <1>5, <1>6, <3>1
  <2> DEFINE from == n + 1
  <2>2. \A j \in 1..n : j \in P <=> from <= j /\ j <= n
    BY <1>1, <1>3, <1>5, <2>1
  <2>3. from \in 1..(n + 1) /\ n \in (from - 1)..n
    BY <1>1
  <2>4. Picked(rows, P) = SubSeq(rows, from, n)
    <3> HIDE DEF from, n
    <3>1. QED
      BY <1>1, <2>2, <2>3, PickedRange
  <2>5. SubSeq(rows, n + 1, n) = << >>
    BY <1>1
  <2>6. SubSeq(w, (a - 1) + 1, a - 1) = << >>
    BY <1>5
  <2>7. QED
    BY <1>4, <1>8, <2>4, <2>5, <2>6 DEF rows
<1>9. QED
  BY <1>5, <1>7, <1>8

(* Looked up tick by tick, in the cluster or in a part of it that the lap  *)
(* begins in.                                                              *)
OwnIs(own, w, a, b) ==
  Len(own) = b - a + 1 /\ \A n \in 1..(b - a + 1) : own[n] = w[(a - 1) + n]

LEMMA ValuesAre ==
  ASSUME NEW w \in Seq(Frame), Ticked(w), NEW p \in 0..Len(w), NEW q \in p..Len(w),
         NEW a \in (p + 1)..Len(w), NEW b \in a..Len(w), NEW z \in (a - 1)..b, UpTo(z, a, b, q),
         NEW own, OwnIs(own, w, a, b)
  PROVE  FlattenSeq([n \in 1..Len(own) |-> ByTick(SubSeq(w, p + 1, q), own[n].tick)])
           = SubSeq(w, (a - 1) + 1, z)
<1> DEFINE rows == SubSeq(w, p + 1, q)
           m == b - a + 1
           s == [n \in 1..Len(own) |-> ByTick(rows, own[n].tick)]
           e == [n \in 0..m |-> IF (a - 1) + n <= z THEN (a - 1) + n ELSE z]
<1>1. m \in Nat /\ a \in Nat \ {0} /\ b \in Nat /\ z \in Nat /\ Len(w) \in Nat /\ a - 1 <= z
      /\ z <= b /\ b <= Len(w) /\ p \in Nat /\ q \in Nat /\ p < a /\ q <= Len(w) /\ p <= q
  OBVIOUS
<1>0. (a - 1) + m = b /\ Len(own) = m /\ \A n \in 1..m : own[n] = w[(a - 1) + n]
  BY DEF OwnIs
<1>2. s = [n \in 1..m |-> s[n]] /\ \A n \in 1..m : s[n] = ByTick(rows, own[n].tick)
  BY <1>0
<1> HIDE DEF m, s
<1>3. \A n \in 0..m : e[n] = IF (a - 1) + n <= z THEN (a - 1) + n ELSE z
  OBVIOUS
<1>4. e[0] = a - 1 /\ e[m] = z
  BY <1>0, <1>1
<1> HIDE DEF e
<1>5. ASSUME NEW n \in 1..m
      PROVE  e[n - 1] <= e[n] /\ s[n] = SubSeq(w, e[n - 1] + 1, e[n])
  <2> DEFINE i == (a - 1) + n
  <2>1. i \in a..b /\ n - 1 \in 0..m /\ n \in 0..m /\ i - 1 = (a - 1) + (n - 1) /\ i \in Nat
    BY <1>0, <1>1
  <2>2. own[n] = w[i] /\ i \in 1..Len(w)
    BY <1>0, <1>1, <2>1
  <2>3. e[n] = (IF i <= z THEN i ELSE z) /\ e[n - 1] = (IF i - 1 <= z THEN i - 1 ELSE z)
    BY <1>3, <2>1
  <2> HIDE DEF i
  <2>4. s[n] = InTicks(rows, i - 1, i - 1)
    <3>1. own[n].tick = i - 1
      BY <2>2 DEF Ticked
    <3>2. QED
      BY <1>2, <3>1 DEF ByTick
  <2>5. i <= q <=> i <= z
    BY <2>1 DEF UpTo
  <2>6. i \in (p + 1)..Len(w) /\ i \in i..Len(w)
    BY <1>1, <2>1, <2>2
  <2>7. CASE i <= z
    <3>1. i \in (i - 1)..i
      BY <2>1
    <3>2. UpTo(i, i, i, q)
      BY <2>1, <2>5, <2>7 DEF UpTo
    <3>3. s[n] = SubSeq(w, (i - 1) + 1, i)
      BY <2>4, <2>6, <3>1, <3>2, TicksIn
    <3>4. e[n] = i /\ e[n - 1] = i - 1
      BY <1>1, <2>1, <2>3, <2>7
    <3>5. QED
      BY <2>1, <3>3, <3>4
  <2>8. CASE ~(i <= z)
    <3> DEFINE y == i - 1
    <3>1. y \in (i - 1)..i
      BY <2>1
    <3>2. UpTo(y, i, i, q)
      BY <2>1, <2>5, <2>8 DEF UpTo
    <3>3. s[n] = SubSeq(w, (i - 1) + 1, y)
      BY <2>4, <2>6, <3>1, <3>2, TicksIn
    <3>4. SubSeq(w, (i - 1) + 1, i - 1) = << >> /\ SubSeq(w, z + 1, z) = << >>
      BY <1>1, <2>1, <2>2
    <3>5. e[n] = z /\ e[n - 1] = z
      BY <1>1, <2>1, <2>3, <2>8
    <3>6. s[n] = << >>
      BY <3>3, <3>4
    <3>7. SubSeq(w, e[n - 1] + 1, e[n]) = << >>
      BY <3>4, <3>5
    <3>8. e[n - 1] <= e[n]
      BY <1>1, <3>5
    <3>9. QED
      BY <3>6, <3>7, <3>8
  <2>9. QED
    BY <2>7, <2>8
<1>6. \A n \in 0..m : e[n] \in 0..Len(w)
  BY <1>1, <1>3
<1>7. Pieces(s, m, w, e)
  BY <1>2, <1>5, <1>6 DEF Pieces
<1>8. FlattenSeq(s) = SubSeq(w, e[0] + 1, e[m])
  BY <1>1, <1>7, FlattenWindow
<1>9. QED
  BY <1>4, <1>8 DEF s

(* One lap, a to b, of the r session samples, and the frames up to q of a  *)
(* cluster.                                                                *)
FirstOf(s, w, n) == s = SubSeq(w, 0 + 1, n)
Spans(lap, a, b) == lap.first = a - 1 /\ lap.last = b - 1

LEMMA LapExtracted ==
  ASSUME NEW w \in Seq(Frame), Ticked(w), NEW r \in 0..Len(w), NEW q \in 0..Len(w),
         NEW a \in 1..r, NEW b \in a..r, NEW s, FirstOf(s, w, r),
         NEW rows, FirstOf(rows, w, q), NEW lap, Spans(lap, a, b)
  PROVE  /\ IsPrefix(LapValues(s, lap, rows), InTicks(s, lap.first, lap.last))
         /\ b <= q => LapValues(s, lap, rows) = InTicks(s, lap.first, lap.last)
         /\ LapValues(s, lap, InTicks(rows, lap.first, lap.last)) = LapValues(s, lap, rows)
<1> DEFINE own == InTicks(s, a - 1, b - 1)
           m == b - a + 1
<1>a. /\ s = SubSeq(w, 0 + 1, r) /\ rows = SubSeq(w, 0 + 1, q)
      /\ lap.first = a - 1 /\ lap.last = b - 1
  BY DEF FirstOf, Spans
<1>1. Len(w) \in Nat /\ r \in Nat /\ a \in Nat \ {0} /\ b \in Nat /\ q \in Nat /\ a <= b /\ b <= r
      /\ r <= Len(w) /\ q <= Len(w) /\ m \in Nat
  OBVIOUS
<1>2. a \in (0 + 1)..Len(w) /\ b \in a..Len(w) /\ 0 \in 0..Len(w) /\ r \in 0..Len(w)
      /\ q \in 0..Len(w) /\ a - 1 \in 0..Len(w)
  BY <1>1
<1>3. own = SubSeq(w, (a - 1) + 1, b)
  <2>1. b \in (a - 1)..b
    BY <1>1
  <2>2. UpTo(b, a, b, r)
    BY <1>1 DEF UpTo
  <2>3. InTicks(SubSeq(w, 0 + 1, r), a - 1, b - 1) = SubSeq(w, (a - 1) + 1, b)
    BY <1>2, <2>1, <2>2, TicksIn
  <2>4. QED
    BY <1>a, <2>3
<1>4. own \in Seq(Frame) /\ Len(own) = m /\ \A n \in 1..m : own[n] = w[(a - 1) + n]
  <2>1. b \in (a - 1)..Len(w) /\ b - (a - 1) = m
    BY <1>1
  <2> HIDE DEF own, m
  <2>2. QED
    BY <1>2, <1>3, <2>1, SubSeqShape
<1> HIDE DEF own, m
<1>5. PICK z \in (a - 1)..b : UpTo(z, a, b, q)
  BY <1>1, UpToExists
<1>6. z \in Int /\ z <= b /\ a - 1 <= z /\ z \in Nat
  BY <1>1
<1> USE DEF own
<1> DEFINE Found(x) == FlattenSeq([n \in 1..Len(own) |-> ByTick(x, own[n].tick)])
<1>7. \A x : LapValues(s, lap, x) = Found(x)
  BY <1>a DEF LapValues
<1>8. InTicks(s, lap.first, lap.last) = own /\ InTicks(rows, lap.first, lap.last) = InTicks(rows, a - 1, b - 1)
  BY <1>a
<1> HIDE DEF own, m
<1>9. OwnIs(own, w, a, b)
  BY <1>4 DEF m, OwnIs
<1>10. Found(rows) = SubSeq(w, (a - 1) + 1, z)
  <2>1. q \in 0..Len(w) /\ 0 \in 0..Len(w) /\ a \in (0 + 1)..Len(w) /\ b \in a..Len(w)
    BY <1>2
  <2>2. UpTo(z, a, b, q)
    BY <1>5
  <2>3. FlattenSeq([n \in 1..Len(own) |-> ByTick(SubSeq(w, 0 + 1, q), own[n].tick)])
          = SubSeq(w, (a - 1) + 1, z)
    BY ZenonT(30), <1>9, <2>1, <2>2, ValuesAre
  <2>4. QED
    BY <1>a, <2>3
<1>11. Found(InTicks(rows, a - 1, b - 1)) = SubSeq(w, (a - 1) + 1, z)
  <2>1. InTicks(rows, a - 1, b - 1) = SubSeq(w, (a - 1) + 1, z)
    BY <1>2, <1>5, <1>a, TicksIn
  <2>2. a \in ((a - 1) + 1)..Len(w) /\ z \in (a - 1)..Len(w) /\ b \in a..Len(w)
      /\ a - 1 \in 0..Len(w)
    BY <1>1, <1>6
  <2>3. UpTo(z, a, b, z)
    BY DEF UpTo
  <2>4. FlattenSeq([n \in 1..Len(own) |-> ByTick(SubSeq(w, (a - 1) + 1, z), own[n].tick)])
          = SubSeq(w, (a - 1) + 1, z)
    BY <1>9, <2>2, <2>3, ValuesAre
  <2>5. QED
    BY <2>1, <2>4
<1> DEFINE vals == Found(rows)
<1>12. IsPrefix(vals, own)
  <2> DEFINE j == z - (a - 1)
  <2>1. z \in (a - 1)..Len(w) /\ a - 1 \in 0..Len(w) /\ z - (a - 1) = j
    BY <1>1, <1>6
  <2> HIDE DEF vals, j
  <2>2. vals = SubSeq(w, (a - 1) + 1, z)
    BY <1>10 DEF vals
  <2>3. vals \in Seq(Frame) /\ Len(vals) = j /\ \A n \in 1..j : vals[n] = w[(a - 1) + n]
    BY <2>1, <2>2, SubSeqShape
  <2>4. j \in Nat /\ j <= m
    BY <1>1, <1>6 DEF m, j
  <2>5. \A n \in 1..j : vals[n] = own[n]
    <3> SUFFICES ASSUME NEW n \in 1..j PROVE vals[n] = own[n]
      OBVIOUS
    <3>1. n \in 1..m
      BY <1>1, <2>4
    <3>2. QED
      BY <1>4, <2>3, <3>1
  <2>6. SubSeq(vals, 1, j) = SubSeq(own, 1, j)
    <3>1. j \in 0..Len(own) /\ j \in 0..Len(vals)
      BY <1>4, <2>3, <2>4
    <3>2. \A n \in 1..j : SubSeq(vals, 1, j)[n] = vals[n] /\ SubSeq(own, 1, j)[n] = own[n]
      BY <1>4, <2>3, <3>1
    <3>3. QED
      BY <1>4, <2>3, <2>5, <3>1, <3>2
  <2>7. QED
    BY <1>4, <2>3, <2>4, <2>6 DEF IsPrefix
<1>13. ASSUME b <= q PROVE vals = own
  <2>1. b \in a..b
    BY <1>1
  <2>2. b <= z
    BY <1>5, <1>13, <2>1 DEF UpTo
  <2>3. z = b
    BY <1>1, <1>6, <2>2
  <2>4. QED
    BY <1>3, <1>10, <2>3
<1>14. QED
  BY <1>7, <1>8, <1>10, <1>11, <1>12, <1>13

LEMMA ExtractsNow == FileInv /\ LanesInv => ExtractsAlign
<1> SUFFICES ASSUME FileInv, LanesInv, Opens, ~ClusterFails(Session),
                    NEW k \in 1..LapCount(ReadAll(Session)), NEW c \in ToSet(Clusters)
             PROVE  LET s == ReadAll(Session)
                        lap == Lap(s, k)
                        own == InTicks(s, lap.first, lap.last)
                        values == ExtractAll(c, s, lap)
                    IN  /\ IsPrefix(values, own)
                        /\ HasFooter => values = own
                        /\ ExtractLap(c, s, lap) = values
  BY DEF ExtractsAlign
<1>1. Ordered /\ file # << >>
  BY OpensOnUnits DEF LanesInv
<1>2. PICK x : Placed(x)
  BY DEF LanesInv
<1>3. Session \in ClusterSet /\ c \in ClusterSet
  BY ReaderAssumption, ClustersAre DEF ReaderAssumption
<1> DEFINE s == ReadAll(Session)
           r == x[Session]
           a == LapStarts(s)[k]
           b == LapEnd(s, k)
           lap == Lap(s, k)
           rows == ReadOrNone(c)
<1>4. s = SubSeq(written, 0 + 1, r) /\ r \in 0..Len(written)
  BY <1>1, <1>2, <1>3, AnyClusterNow
<1>5. written \in Seq(Frame) /\ Ticked(written) /\ Len(written) \in Nat
  BY DEF FileInv, IInv, TypeOK_Frames, FramesInv
<1>6. k \in 1..LapCount(s) /\ s # << >>
  BY DEF LapCount
<1>7. lap.first = s[a].tick /\ lap.last = s[b].tick
  BY DEF Lap
<1> HIDE DEF s, r
<1>8. s \in Seq(Frame) /\ Len(s) = r /\ \A n \in 1..r : s[n] = written[n]
  <2>1. s \in Seq(Frame) /\ Len(s) = r - 0 /\ \A n \in 1..(r - 0) : s[n] = written[0 + n]
    BY <1>4, <1>5, SubSeqShape
  <2>2. r - 0 = r /\ \A n \in 1..r : 0 + n = n
    BY <1>4, <1>5
  <2>3. QED
    BY <2>1, <2>2
<1>9. a \in 1..r /\ b \in a..r
  BY <1>6, <1>8, LapBounds
<1> HIDE DEF a, b, lap
<1>10. lap.first = a - 1 /\ lap.last = b - 1
  <2>1. b \in 1..r /\ a \in 1..Len(written) /\ b \in 1..Len(written)
    BY <1>4, <1>5, <1>9
  <2>2. s[a] = written[a] /\ s[b] = written[b]
    BY <1>8, <1>9, <2>1
  <2>3. QED
    BY <1>5, <1>7, <2>1, <2>2 DEF Ticked
<1>11. \E q \in 0..Len(written) :
         rows = SubSeq(written, 0 + 1, q) /\ (HasFooter => q = Len(written))
  <2>1. CASE HasFooter
    <3>1. rows = written
      BY <1>3, <2>1, FinishedReads
    <3>2. written = SubSeq(written, 0 + 1, Len(written)) /\ Len(written) \in 0..Len(written)
      BY <1>5
    <3>3. QED
      BY ZenonT(30), <3>1, <3>2
  <2>2. CASE ~HasFooter /\ ClusterFails(c)
    <3>1. rows = << >>
      BY <2>2 DEF ReadOrNone
    <3>2. SubSeq(written, 0 + 1, 0) = << >> /\ 0 \in 0..Len(written)
      BY <1>5
    <3>3. QED
      BY <2>2, <3>1, <3>2
  <2>3. CASE ~HasFooter /\ ~ClusterFails(c)
    <3>1. rows = ReadAll(c)
      BY <2>3 DEF ReadOrNone
    <3>2. ReadAll(c) = SubSeq(written, 0 + 1, x[c]) /\ x[c] \in 0..Len(written)
      BY <1>1, <1>2, <1>3, <2>3, AnyClusterNow
    <3>3. QED
      BY <2>3, <3>1, <3>2
  <2>4. QED
    BY SMTT(30), <2>1, <2>2, <2>3
<1>12. PICK q \in 0..Len(written) :
         rows = SubSeq(written, 0 + 1, q) /\ (HasFooter => q = Len(written))
  BY <1>11
<1> HIDE DEF rows
<1>13. HasFooter => b <= q
  BY <1>4, <1>5, <1>9, <1>12
<1>14. /\ IsPrefix(LapValues(s, lap, rows), InTicks(s, lap.first, lap.last))
       /\ b <= q => LapValues(s, lap, rows) = InTicks(s, lap.first, lap.last)
       /\ LapValues(s, lap, InTicks(rows, lap.first, lap.last)) = LapValues(s, lap, rows)
  <2>1. FirstOf(s, written, r) /\ FirstOf(rows, written, q) /\ Spans(lap, a, b)
    BY <1>4, <1>10, <1>12 DEF FirstOf, Spans
  <2>2. QED
    BY <1>4, <1>5, <1>9, <2>1, LapExtracted
<1>15. /\ ExtractAll(c, s, lap) = LapValues(s, lap, rows)
       /\ ExtractLap(c, s, lap) = LapValues(s, lap, InTicks(rows, lap.first, lap.last))
  BY DEF ExtractAll, ExtractLap, ReadRange, rows
<1>16. QED
  BY <1>13, <1>14, <1>15 DEF s, lap

(* extract_lap_telemetry pairs by tick what belongs together: in a lap the *)
(* n-th value of every field is from the n-th session sample, whether all  *)
(* laps are read or one; a cut file only shortens the columns, and a       *)
(* finished one does not even do that.                                     *)
THEOREM ExtractsInStep == FileSpec => []ExtractsAlign
<1>1. FileInv /\ LanesInv => ExtractsAlign
  BY ExtractsNow
<1>2. QED
  BY <1>1, FileAlways, LanesAlways, PTL

-----------------------------------------------------------------------------
(* The metadata block.  Every piece that the encoder writes is found by a  *)
(* decoder that looks where the pieces before it end.                      *)
ByteSeq == Seq(0..255)
Holds(b, p, s) ==
  /\ p \in Nat /\ s \in ByteSeq /\ p + Len(s) <= Len(b)
  /\ \A k \in 1..Len(s) : b[p + k] = s[k]
Begins(b, s) == b \in ByteSeq /\ s \in ByteSeq /\ Len(s) <= Len(b)
                /\ \A k \in 1..Len(s) : b[k] = s[k]

LEMMA StepBack ==
  ASSUME NEW b, NEW s \in ByteSeq, NEW t \in ByteSeq, Begins(b, s \o t)
  PROVE  Begins(b, s) /\ Holds(b, Len(s), t)
<1>1. /\ s \o t \in ByteSeq /\ Len(s \o t) = Len(s) + Len(t) /\ Len(s) \in Nat /\ Len(t) \in Nat
      /\ \A k \in 1..Len(s) : (s \o t)[k] = s[k]
      /\ \A k \in 1..Len(t) : (s \o t)[Len(s) + k] = t[k]
  BY DEF ByteSeq
<1>2. b \in ByteSeq /\ Len(b) \in Nat /\ Len(s) + Len(t) <= Len(b)
      /\ \A k \in 1..(Len(s) + Len(t)) : b[k] = (s \o t)[k]
  BY <1>1 DEF Begins, ByteSeq
<1>3. Len(s) <= Len(b)
  BY <1>1, <1>2
<1>4. \A k \in 1..Len(s) : b[k] = s[k]
  <2> SUFFICES ASSUME NEW k \in 1..Len(s) PROVE b[k] = s[k]
    OBVIOUS
  <2>1. k \in 1..(Len(s) + Len(t))
    BY <1>1
  <2>2. QED
    BY <1>1, <1>2, <2>1
<1>5. \A k \in 1..Len(t) : b[Len(s) + k] = t[k]
  <2> SUFFICES ASSUME NEW k \in 1..Len(t) PROVE b[Len(s) + k] = t[k]
    OBVIOUS
  <2>1. Len(s) + k \in 1..(Len(s) + Len(t))
    BY <1>1
  <2>2. QED
    BY <1>1, <1>2, <2>1
<1>6. QED
  BY <1>1, <1>2, <1>3, <1>4, <1>5 DEF Begins, Holds

LEMMA HoldsParts ==
  ASSUME NEW b \in ByteSeq, NEW p, NEW s \in ByteSeq, NEW t \in ByteSeq, Holds(b, p, s \o t)
  PROVE  Holds(b, p, s) /\ Holds(b, p + Len(s), t)
<1>1. /\ s \o t \in ByteSeq /\ Len(s \o t) = Len(s) + Len(t) /\ Len(s) \in Nat /\ Len(t) \in Nat
      /\ \A k \in 1..Len(s) : (s \o t)[k] = s[k]
      /\ \A k \in 1..Len(t) : (s \o t)[Len(s) + k] = t[k]
  BY DEF ByteSeq
<1>2. p \in Nat /\ p + (Len(s) + Len(t)) <= Len(b)
      /\ \A k \in 1..(Len(s) + Len(t)) : b[p + k] = (s \o t)[k]
  BY <1>1 DEF Holds
<1>3. \A k \in 1..Len(s) : b[p + k] = s[k]
  <2> SUFFICES ASSUME NEW k \in 1..Len(s) PROVE b[p + k] = s[k]
    OBVIOUS
  <2>1. k \in 1..(Len(s) + Len(t))
    BY <1>1
  <2>2. QED
    BY <1>1, <1>2, <2>1
<1>4. \A k \in 1..Len(t) : b[(p + Len(s)) + k] = t[k]
  <2> SUFFICES ASSUME NEW k \in 1..Len(t) PROVE b[(p + Len(s)) + k] = t[k]
    OBVIOUS
  <2>1. Len(s) + k \in 1..(Len(s) + Len(t))
    BY <1>1
  <2>2. (p + Len(s)) + k = p + (Len(s) + k)
    BY <1>1, <1>2
  <2>3. QED
    BY <1>1, <1>2, <2>1, <2>2
<1>5. Len(b) \in Nat
  BY DEF ByteSeq
<1>6. QED
  BY <1>1, <1>2, <1>3, <1>4, <1>5 DEF Holds

LEMMA ReadHolds ==
  ASSUME NEW b \in ByteSeq, NEW p, NEW s, Holds(b, p, s)
  PROVE  Read(b, p, Len(s)) = s /\ p \in Nat /\ Len(s) \in Nat /\ p + Len(s) <= Len(b)
<1>1. p \in Nat /\ s \in Seq(0..255) /\ Len(s) \in Nat /\ Len(b) \in Nat /\ b \in Seq(0..255)
      /\ p + Len(s) <= Len(b) /\ \A k \in 1..Len(s) : s[k] = b[p + k]
  BY DEF Holds, ByteSeq
<1>2. p \in 0..Len(b) /\ p + Len(s) \in p..Len(b) /\ Len(s) = (p + Len(s)) - p
  BY <1>1
<1> DEFINE to == p + Len(s)
<1>3. to \in p..Len(b) /\ Len(s) = to - p
  BY <1>2
<1> HIDE DEF to
<1>4. s = SubSeq(b, p + 1, to)
  BY <1>1, <1>2, <1>3, SubSeqIs
<1>5. QED
  BY <1>1, <1>4 DEF Read, to

Short(v) == v \in Nat /\ v < 65536
Long(v) == v \in Nat /\ v < 4294967296

LEMMA Digits ==
  ASSUME NEW v, Long(v)
  PROVE  ((v \div 1) % 256) + 256 * ((v \div 256) % 256) + 65536 * ((v \div 65536) % 256)
           + 16777216 * ((v \div 16777216) % 256) = v
  BY DEF Long

LEMMA NumberShape ==
  ASSUME NEW v \in Nat, NEW n \in {2, 4}
  PROVE  LittleEndian(v, n) \in ByteSeq /\ Len(LittleEndian(v, n)) = n
<1>1. ASSUME NEW k \in 1..n PROVE (v \div Weight[k]) % 256 \in 0..255
  <2>1. k \in {1, 2, 3, 4}
    OBVIOUS
  <2>2. Weight[k] \in {1, 256, 65536, 16777216}
    BY <2>1 DEF Weight
  <2>3. v \div Weight[k] \in Int
    BY <2>2
  <2>4. QED
    BY <2>3
<1>2. QED
  BY <1>1 DEF LittleEndian, ByteSeq

LEMMA ReadLong ==
  ASSUME NEW b \in ByteSeq, NEW p, NEW v, Long(v), Holds(b, p, LittleEndian(v, 4))
  PROVE  Number(b, p, 4) = v
<1> DEFINE s == LittleEndian(v, 4)
           d1 == (v \div 1) % 256
           d2 == (v \div 256) % 256
           d3 == (v \div 65536) % 256
           d4 == (v \div 16777216) % 256
<1>1. v \in Nat
  BY DEF Long
<1>2. s \in ByteSeq /\ Len(s) = 4
  BY <1>1, NumberShape
<1>3. Read(b, p, Len(s)) = s
  <2> HIDE DEF s
  <2>1. Holds(b, p, s)
    BY DEF s
  <2>2. QED
    BY <2>1, ReadHolds
<1>4. s[1] = d1 /\ s[2] = d2 /\ s[3] = d3 /\ s[4] = d4
  BY DEF LittleEndian, Weight
<1>5. d1 \in Int /\ d2 \in Int /\ d3 \in Int /\ d4 \in Int
  BY <1>1
<1>6. d1 + 256 * d2 + 65536 * d3 + 16777216 * d4 = v
  BY SMTT(30), Digits
<1> HIDE DEF s, d1, d2, d3, d4
<1>7. Number(b, p, 4) = Worth(s, 1) + Worth(s, 2) + Worth(s, 3) + Worth(s, 4)
  BY <1>2, <1>3 DEF Number
<1>8. /\ Worth(s, 1) = Weight[1] * s[1] /\ Worth(s, 2) = Weight[2] * s[2]
      /\ Worth(s, 3) = Weight[3] * s[3] /\ Worth(s, 4) = Weight[4] * s[4]
  BY <1>2 DEF Worth
<1>9. Weight[1] = 1 /\ Weight[2] = 256 /\ Weight[3] = 65536 /\ Weight[4] = 16777216
  BY DEF Weight
<1>10. /\ Worth(s, 1) = d1 /\ Worth(s, 2) = 256 * d2
       /\ Worth(s, 3) = 65536 * d3 /\ Worth(s, 4) = 16777216 * d4
  BY <1>4, <1>5, <1>8, <1>9
<1>11. QED
  BY <1>5, <1>6, <1>7, <1>10

LEMMA ReadShort ==
  ASSUME NEW b \in ByteSeq, NEW p, NEW v, Short(v), Holds(b, p, LittleEndian(v, 2))
  PROVE  Number(b, p, 2) = v
<1> DEFINE s == LittleEndian(v, 2)
           d1 == (v \div 1) % 256
           d2 == (v \div 256) % 256
<1>1. v \in Nat
  BY DEF Short
<1>2. s \in ByteSeq /\ Len(s) = 2
  BY <1>1, NumberShape
<1>3. Read(b, p, Len(s)) = s
  <2> HIDE DEF s
  <2>1. Holds(b, p, s)
    BY DEF s
  <2>2. QED
    BY <2>1, ReadHolds
<1>4. s[1] = d1 /\ s[2] = d2
  BY DEF LittleEndian, Weight
<1>5. d1 \in Int /\ d2 \in Int
  BY <1>1
<1>6. d1 + 256 * d2 = v
  BY SMTT(30) DEF Short
<1> HIDE DEF s, d1, d2
<1>7. Number(b, p, 2) = Worth(s, 1) + Worth(s, 2) + Worth(s, 3) + Worth(s, 4)
  BY <1>2, <1>3 DEF Number
<1>8. /\ Worth(s, 1) = Weight[1] * s[1] /\ Worth(s, 2) = Weight[2] * s[2]
      /\ Worth(s, 3) = 0 /\ Worth(s, 4) = 0
  BY <1>2 DEF Worth
<1>9. Weight[1] = 1 /\ Weight[2] = 256
  BY DEF Weight
<1>10. Worth(s, 1) = d1 /\ Worth(s, 2) = 256 * d2
  BY <1>4, <1>5, <1>8, <1>9
<1>11. QED
  BY <1>5, <1>6, <1>7, <1>8, <1>10

Joins(c, s, t) == s \in ByteSeq /\ t \in ByteSeq /\ c = s \o t

LEMMA JoinedShape ==
  ASSUME NEW c, NEW s, NEW t, Joins(c, s, t)
  PROVE  c \in ByteSeq /\ Len(c) = Len(s) + Len(t) /\ Len(s) \in Nat /\ Len(t) \in Nat
BY DEF Joins, ByteSeq

LEMMA JoinedParts ==
  ASSUME NEW b, NEW c, NEW s, NEW t, Joins(c, s, t), Begins(b, c)
  PROVE  Begins(b, s) /\ Holds(b, Len(s), t)
BY StepBack DEF Joins

(* The metadata a recording can have: what the block counts is not longer  *)
(* than its counts can be, floats have four bytes, and what was measured   *)
(* is not negative.                                                        *)
SessionMetadata ==
  [created : ByteSeq, poll_hz : Nat, chunk_rows : Nat, track : ByteSeq, car : ByteSeq,
   sm_version : ByteSeq, ac_version : ByteSeq, sessions : Nat, num_cars : Nat,
   sector_count : Nat, max_rpm : Nat, max_torque : ByteSeq, max_power : ByteSeq,
   max_fuel : ByteSeq, penalties : Nat, raw_static : ByteSeq, session_type : Nat \cup {None}]

Fits(m) ==
  /\ Len(m.created) = 8 /\ Len(m.max_torque) = 4 /\ Len(m.max_power) = 4
  /\ Len(m.max_fuel) = 4 /\ m.poll_hz > 0 /\ Long(m.poll_hz) /\ Long(m.chunk_rows)
  /\ Short(Len(m.track)) /\ Short(Len(m.car))
  /\ Short(Len(m.sm_version)) /\ Short(Len(m.ac_version))
  /\ Long(m.sessions) /\ Long(m.num_cars) /\ Long(m.sector_count) /\ Long(m.max_rpm)
  /\ Long(m.penalties) /\ Long(Len(m.raw_static))
  /\ m.session_type # None => Long(m.session_type)

TypeBytes(m) ==
  IF m.session_type # None
  THEN LittleEndian(1, 4) \o LittleEndian(m.session_type, 4)
  ELSE LittleEndian(0, 4)

Ext(m) == 24 + Len(m.track) + Len(m.car)
Static(m) == Ext(m) + 12 + Len(m.sm_version) + Len(m.ac_version)
TypeAt(m) == Static(m) + 24 + Len(EncodeStatic(m.raw_static))

LaidOut(b, m) ==
  /\ Len(b) = TypeAt(m) + Len(TypeBytes(m))
  /\ Holds(b, 4, m.created)
  /\ Holds(b, 12, LittleEndian(m.poll_hz, 4))
  /\ Holds(b, 16, LittleEndian(m.chunk_rows, 4))
  /\ Holds(b, 20, LittleEndian(Len(m.track), 2))
  /\ Holds(b, 22, LittleEndian(Len(m.car), 2))
  /\ Holds(b, 24, m.track)
  /\ Holds(b, 24 + Len(m.track), m.car)
  /\ Holds(b, Ext(m), LittleEndian(Len(m.sm_version), 2))
  /\ Holds(b, Ext(m) + 2, LittleEndian(Len(m.ac_version), 2))
  /\ Holds(b, Ext(m) + 4, LittleEndian(m.sessions, 4))
  /\ Holds(b, Ext(m) + 8, LittleEndian(m.num_cars, 4))
  /\ Holds(b, Ext(m) + 12, m.sm_version)
  /\ Holds(b, Ext(m) + 12 + Len(m.sm_version), m.ac_version)
  /\ Holds(b, Static(m), LittleEndian(m.sector_count, 4))
  /\ Holds(b, Static(m) + 4, LittleEndian(m.max_rpm, 4))
  /\ Holds(b, Static(m) + 8, m.max_torque)
  /\ Holds(b, Static(m) + 12, m.max_power)
  /\ Holds(b, Static(m) + 16, m.max_fuel)
  /\ Holds(b, Static(m) + 20, LittleEndian(m.penalties, 4))
  /\ Holds(b, Static(m) + 24, EncodeStatic(m.raw_static))
  /\ Holds(b, TypeAt(m), TypeBytes(m))

LEMMA PiecesTyped ==
  ASSUME NEW m \in SessionMetadata, Fits(m)
  PROVE  /\ EncodeStatic(m.raw_static) \in ByteSeq /\ TypeBytes(m) \in ByteSeq
         /\ Len(EncodeStatic(m.raw_static)) =
              (IF m.raw_static = << >> THEN 0 ELSE 4 + Len(m.raw_static))
         /\ Len(TypeBytes(m)) = (IF m.session_type # None THEN 8 ELSE 4)
<1>1. m.raw_static \in ByteSeq /\ Len(m.raw_static) \in Nat
  BY DEF SessionMetadata, ByteSeq
<1>2. EncodeStatic(m.raw_static) \in ByteSeq
      /\ Len(EncodeStatic(m.raw_static)) =
           (IF m.raw_static = << >> THEN 0 ELSE 4 + Len(m.raw_static))
  <2>1. CASE m.raw_static = << >>
    BY <2>1 DEF EncodeStatic, ByteSeq
  <2>2. CASE m.raw_static # << >>
    <3> DEFINE count == LittleEndian(Len(m.raw_static), 4)
    <3>1. count \in ByteSeq /\ Len(count) = 4
      BY <1>1, NumberShape
    <3>2. EncodeStatic(m.raw_static) = count \o m.raw_static
      BY <2>2 DEF EncodeStatic
    <3> HIDE DEF count
    <3>3. Joins(EncodeStatic(m.raw_static), count, m.raw_static)
      BY <1>1, <3>1, <3>2 DEF Joins
    <3>4. Len(EncodeStatic(m.raw_static)) = Len(count) + Len(m.raw_static)
          /\ EncodeStatic(m.raw_static) \in ByteSeq
      BY <3>3, JoinedShape
    <3>5. QED
      BY <2>2, <3>1, <3>4
  <2>3. QED
    BY <2>1, <2>2
<1>3. TypeBytes(m) \in ByteSeq /\ Len(TypeBytes(m)) = (IF m.session_type # None THEN 8 ELSE 4)
  <2>1. CASE m.session_type = None
    BY <2>1, NumberShape DEF TypeBytes
  <2>2. CASE m.session_type # None
    <3> DEFINE flag == LittleEndian(1, 4)
               value == LittleEndian(m.session_type, 4)
    <3>1. m.session_type \in Nat
      BY <2>2 DEF SessionMetadata
    <3>2. flag \in ByteSeq /\ Len(flag) = 4 /\ value \in ByteSeq /\ Len(value) = 4
      BY <3>1, NumberShape
    <3>3. TypeBytes(m) = flag \o value
      BY <2>2 DEF TypeBytes
    <3> HIDE DEF flag, value
    <3>4. Joins(TypeBytes(m), flag, value)
      BY <3>2, <3>3 DEF Joins
    <3>5. Len(TypeBytes(m)) = Len(flag) + Len(value) /\ TypeBytes(m) \in ByteSeq
      BY <3>4, JoinedShape
    <3>6. QED
      BY <2>2, <3>2, <3>5
  <2>3. QED
    BY <2>1, <2>2
<1>4. QED
  BY <1>2, <1>3

LEMMA EncodedIsLaidOut ==
  ASSUME NEW m \in SessionMetadata, Fits(m)
  PROVE  LaidOut(EncodeMetadata(m), m) /\ EncodeMetadata(m) \in ByteSeq
<1> DEFINE c1 == LittleEndian(0, 4)
           t2 == m.created
           t3 == LittleEndian(m.poll_hz, 4)
           t4 == LittleEndian(m.chunk_rows, 4)
           t5 == LittleEndian(Len(m.track), 2)
           t6 == LittleEndian(Len(m.car), 2)
           t7 == m.track
           t8 == m.car
           t9 == LittleEndian(Len(m.sm_version), 2)
           t10 == LittleEndian(Len(m.ac_version), 2)
           t11 == LittleEndian(m.sessions, 4)
           t12 == LittleEndian(m.num_cars, 4)
           t13 == m.sm_version
           t14 == m.ac_version
           t15 == LittleEndian(m.sector_count, 4)
           t16 == LittleEndian(m.max_rpm, 4)
           t17 == m.max_torque
           t18 == m.max_power
           t19 == m.max_fuel
           t20 == LittleEndian(m.penalties, 4)
           t21 == EncodeStatic(m.raw_static)
           t22 == TypeBytes(m)
           c2 == c1 \o t2
           c3 == c2 \o t3
           c4 == c3 \o t4
           c5 == c4 \o t5
           c6 == c5 \o t6
           c7 == c6 \o t7
           c8 == c7 \o t8
           c9 == c8 \o t9
           c10 == c9 \o t10
           c11 == c10 \o t11
           c12 == c11 \o t12
           c13 == c12 \o t13
           c14 == c13 \o t14
           c15 == c14 \o t15
           c16 == c15 \o t16
           c17 == c16 \o t17
           c18 == c17 \o t18
           c19 == c18 \o t19
           c20 == c19 \o t20
           c21 == c20 \o t21
           c22 == c21 \o t22
<1>1. EncodeMetadata(m) = c22
  <2>1. HzToX1000(m.poll_hz) = m.poll_hz
    BY DEF HzToX1000, Fits
  <2>2. QED
    BY <2>1 DEF EncodeMetadata, TypeBytes
<1>2. c1 \in ByteSeq /\ Len(c1) = 4
  BY NumberShape
<1>3. /\ m.poll_hz \in Nat /\ m.chunk_rows \in Nat /\ m.sessions \in Nat /\ m.num_cars \in Nat
      /\ m.sector_count \in Nat /\ m.max_rpm \in Nat /\ m.penalties \in Nat
      /\ m.created \in ByteSeq /\ m.track \in ByteSeq /\ m.car \in ByteSeq
      /\ m.sm_version \in ByteSeq /\ m.ac_version \in ByteSeq
      /\ m.max_torque \in ByteSeq /\ m.max_power \in ByteSeq /\ m.max_fuel \in ByteSeq
  BY DEF SessionMetadata
<1>4. /\ Len(m.created) = 8 /\ Len(m.max_torque) = 4 /\ Len(m.max_power) = 4 /\ Len(m.max_fuel) = 4
      /\ Len(m.track) \in Nat /\ Len(m.car) \in Nat
      /\ Len(m.sm_version) \in Nat /\ Len(m.ac_version) \in Nat
  BY DEF Fits, Short
<1>5. EncodeStatic(m.raw_static) \in ByteSeq /\ TypeBytes(m) \in ByteSeq
      /\ Len(EncodeStatic(m.raw_static)) \in Nat
  <2>1. EncodeStatic(m.raw_static) \in ByteSeq /\ TypeBytes(m) \in ByteSeq
    BY PiecesTyped
  <2>2. QED
    BY <2>1 DEF ByteSeq
<1>6. t2 \in ByteSeq /\ Len(t2) = 8
  BY <1>3, <1>4, <1>5
<1>7. t3 \in ByteSeq /\ Len(t3) = 4
  BY <1>3, <1>4, NumberShape
<1>8. t4 \in ByteSeq /\ Len(t4) = 4
  BY <1>3, <1>4, NumberShape
<1>9. t5 \in ByteSeq /\ Len(t5) = 2
  BY <1>3, <1>4, NumberShape
<1>10. t6 \in ByteSeq /\ Len(t6) = 2
  BY <1>3, <1>4, NumberShape
<1>11. t7 \in ByteSeq /\ Len(t7) = Len(m.track)
  BY <1>3, <1>4, <1>5
<1>12. t8 \in ByteSeq /\ Len(t8) = Len(m.car)
  BY <1>3, <1>4, <1>5
<1>13. t9 \in ByteSeq /\ Len(t9) = 2
  BY <1>3, <1>4, NumberShape
<1>14. t10 \in ByteSeq /\ Len(t10) = 2
  BY <1>3, <1>4, NumberShape
<1>15. t11 \in ByteSeq /\ Len(t11) = 4
  BY <1>3, <1>4, NumberShape
<1>16. t12 \in ByteSeq /\ Len(t12) = 4
  BY <1>3, <1>4, NumberShape
<1>17. t13 \in ByteSeq /\ Len(t13) = Len(m.sm_version)
  BY <1>3, <1>4, <1>5
<1>18. t14 \in ByteSeq /\ Len(t14) = Len(m.ac_version)
  BY <1>3, <1>4, <1>5
<1>19. t15 \in ByteSeq /\ Len(t15) = 4
  BY <1>3, <1>4, NumberShape
<1>20. t16 \in ByteSeq /\ Len(t16) = 4
  BY <1>3, <1>4, NumberShape
<1>21. t17 \in ByteSeq /\ Len(t17) = 4
  BY <1>3, <1>4, <1>5
<1>22. t18 \in ByteSeq /\ Len(t18) = 4
  BY <1>3, <1>4, <1>5
<1>23. t19 \in ByteSeq /\ Len(t19) = 4
  BY <1>3, <1>4, <1>5
<1>24. t20 \in ByteSeq /\ Len(t20) = 4
  BY <1>3, <1>4, NumberShape
<1>25. t21 \in ByteSeq /\ Len(t21) = Len(EncodeStatic(m.raw_static))
  BY <1>3, <1>4, <1>5
<1>26. t22 \in ByteSeq /\ Len(t22) = Len(TypeBytes(m))
  BY <1>3, <1>4, <1>5
<1>27. Joins(c2, c1, t2)
  BY <1>2, <1>6 DEF Joins
<1>28. c2 \in ByteSeq /\ Len(c2) = Len(c1) + Len(t2)
  BY <1>27, JoinedShape
<1>29. Joins(c3, c2, t3)
  BY <1>28, <1>7 DEF Joins
<1>30. c3 \in ByteSeq /\ Len(c3) = Len(c2) + Len(t3)
  BY <1>29, JoinedShape
<1>31. Joins(c4, c3, t4)
  BY <1>30, <1>8 DEF Joins
<1>32. c4 \in ByteSeq /\ Len(c4) = Len(c3) + Len(t4)
  BY <1>31, JoinedShape
<1>33. Joins(c5, c4, t5)
  BY <1>32, <1>9 DEF Joins
<1>34. c5 \in ByteSeq /\ Len(c5) = Len(c4) + Len(t5)
  BY <1>33, JoinedShape
<1>35. Joins(c6, c5, t6)
  BY <1>34, <1>10 DEF Joins
<1>36. c6 \in ByteSeq /\ Len(c6) = Len(c5) + Len(t6)
  BY <1>35, JoinedShape
<1>37. Joins(c7, c6, t7)
  BY <1>36, <1>11 DEF Joins
<1>38. c7 \in ByteSeq /\ Len(c7) = Len(c6) + Len(t7)
  BY <1>37, JoinedShape
<1>39. Joins(c8, c7, t8)
  BY <1>38, <1>12 DEF Joins
<1>40. c8 \in ByteSeq /\ Len(c8) = Len(c7) + Len(t8)
  BY <1>39, JoinedShape
<1>41. Joins(c9, c8, t9)
  BY <1>40, <1>13 DEF Joins
<1>42. c9 \in ByteSeq /\ Len(c9) = Len(c8) + Len(t9)
  BY <1>41, JoinedShape
<1>43. Joins(c10, c9, t10)
  BY <1>42, <1>14 DEF Joins
<1>44. c10 \in ByteSeq /\ Len(c10) = Len(c9) + Len(t10)
  BY <1>43, JoinedShape
<1>45. Joins(c11, c10, t11)
  BY <1>44, <1>15 DEF Joins
<1>46. c11 \in ByteSeq /\ Len(c11) = Len(c10) + Len(t11)
  BY <1>45, JoinedShape
<1>47. Joins(c12, c11, t12)
  BY <1>46, <1>16 DEF Joins
<1>48. c12 \in ByteSeq /\ Len(c12) = Len(c11) + Len(t12)
  BY <1>47, JoinedShape
<1>49. Joins(c13, c12, t13)
  BY <1>48, <1>17 DEF Joins
<1>50. c13 \in ByteSeq /\ Len(c13) = Len(c12) + Len(t13)
  BY <1>49, JoinedShape
<1>51. Joins(c14, c13, t14)
  BY <1>50, <1>18 DEF Joins
<1>52. c14 \in ByteSeq /\ Len(c14) = Len(c13) + Len(t14)
  BY <1>51, JoinedShape
<1>53. Joins(c15, c14, t15)
  BY <1>52, <1>19 DEF Joins
<1>54. c15 \in ByteSeq /\ Len(c15) = Len(c14) + Len(t15)
  BY <1>53, JoinedShape
<1>55. Joins(c16, c15, t16)
  BY <1>54, <1>20 DEF Joins
<1>56. c16 \in ByteSeq /\ Len(c16) = Len(c15) + Len(t16)
  BY <1>55, JoinedShape
<1>57. Joins(c17, c16, t17)
  BY <1>56, <1>21 DEF Joins
<1>58. c17 \in ByteSeq /\ Len(c17) = Len(c16) + Len(t17)
  BY <1>57, JoinedShape
<1>59. Joins(c18, c17, t18)
  BY <1>58, <1>22 DEF Joins
<1>60. c18 \in ByteSeq /\ Len(c18) = Len(c17) + Len(t18)
  BY <1>59, JoinedShape
<1>61. Joins(c19, c18, t19)
  BY <1>60, <1>23 DEF Joins
<1>62. c19 \in ByteSeq /\ Len(c19) = Len(c18) + Len(t19)
  BY <1>61, JoinedShape
<1>63. Joins(c20, c19, t20)
  BY <1>62, <1>24 DEF Joins
<1>64. c20 \in ByteSeq /\ Len(c20) = Len(c19) + Len(t20)
  BY <1>63, JoinedShape
<1>65. Joins(c21, c20, t21)
  BY <1>64, <1>25 DEF Joins
<1>66. c21 \in ByteSeq /\ Len(c21) = Len(c20) + Len(t21)
  BY <1>65, JoinedShape
<1>67. Joins(c22, c21, t22)
  BY <1>66, <1>26 DEF Joins
<1>68. c22 \in ByteSeq /\ Len(c22) = Len(c21) + Len(t22)
  BY <1>67, JoinedShape
<1> HIDE DEF c1, c2, c3, c4, c5, c6, c7, c8, c9, c10, c11, c12, c13, c14, c15, c16, c17, c18, c19, c20, c21, c22,
            t2, t3, t4, t5, t6, t7, t8, t9, t10, t11, t12, t13, t14, t15, t16, t17, t18, t19, t20, t21, t22
<1>69. Len(c2) = 12
  BY <1>4, <1>2, <1>6, <1>28
<1>70. Len(c3) = 16
  BY <1>4, <1>69, <1>7, <1>30
<1>71. Len(c4) = 20
  BY <1>4, <1>70, <1>8, <1>32
<1>72. Len(c5) = 22
  BY <1>4, <1>71, <1>9, <1>34
<1>73. Len(c6) = 24
  BY <1>4, <1>72, <1>10, <1>36
<1>74. Len(c7) = 24 + Len(m.track)
  BY <1>4, <1>73, <1>11, <1>38
<1>75. Len(c8) = Ext(m)
  BY <1>4, <1>74, <1>12, <1>40 DEF Ext
<1>76. Len(c9) = Ext(m) + 2
  BY <1>4, <1>75, <1>13, <1>42 DEF Ext
<1>77. Len(c10) = Ext(m) + 4
  BY <1>4, <1>76, <1>14, <1>44 DEF Ext
<1>78. Len(c11) = Ext(m) + 8
  BY <1>4, <1>77, <1>15, <1>46 DEF Ext
<1>79. Len(c12) = Ext(m) + 12
  BY <1>4, <1>78, <1>16, <1>48 DEF Ext
<1>80. Len(c13) = Ext(m) + 12 + Len(m.sm_version)
  BY <1>4, <1>79, <1>17, <1>50 DEF Ext
<1>0. Static(m) \in Nat
  <2> DEFINE tl == Len(m.track)
             cl == Len(m.car)
             sl == Len(m.sm_version)
             al == Len(m.ac_version)
  <2>1. tl \in Nat /\ cl \in Nat /\ sl \in Nat /\ al \in Nat
    BY <1>4
  <2>2. Static(m) = (24 + tl + cl) + 12 + sl + al
    BY DEF Static, Ext
  <2> HIDE DEF tl, cl, sl, al
  <2>3. QED
    BY <2>1, <2>2
<1>81. Len(c14) = Static(m)
  BY <1>4, <1>80, <1>18, <1>52 DEF Ext, Static
<1>82. Len(c15) = Static(m) + 4
  BY <1>0, <1>81, <1>19, <1>54
<1>83. Len(c16) = Static(m) + 8
  BY <1>0, <1>82, <1>20, <1>56
<1>84. Len(c17) = Static(m) + 12
  BY <1>0, <1>83, <1>21, <1>58
<1>85. Len(c18) = Static(m) + 16
  BY <1>0, <1>84, <1>22, <1>60
<1>86. Len(c19) = Static(m) + 20
  BY <1>0, <1>85, <1>23, <1>62
<1>87. Len(c20) = Static(m) + 24
  BY <1>0, <1>86, <1>24, <1>64
<1>88. Len(c21) = TypeAt(m)
  BY <1>0, <1>5, <1>87, <1>25, <1>66 DEF TypeAt
<1>89. Len(c22) = TypeAt(m) + Len(TypeBytes(m))
  BY <1>88, <1>26, <1>68
<1>90. Begins(c22, c22)
  BY <1>68 DEF Begins, ByteSeq
<1>91. Begins(c22, c21) /\ Holds(c22, TypeAt(m), t22)
  <2>1. Begins(c22, c21) /\ Holds(c22, Len(c21), t22)
    BY <1>90, <1>67, JoinedParts
  <2>2. QED
    BY <2>1, <1>88
<1>92. Begins(c22, c20) /\ Holds(c22, Static(m) + 24, t21)
  <2>1. Begins(c22, c20) /\ Holds(c22, Len(c20), t21)
    BY <1>91, <1>65, JoinedParts
  <2>2. QED
    BY <2>1, <1>87
<1>93. Begins(c22, c19) /\ Holds(c22, Static(m) + 20, t20)
  <2>1. Begins(c22, c19) /\ Holds(c22, Len(c19), t20)
    BY <1>92, <1>63, JoinedParts
  <2>2. QED
    BY <2>1, <1>86
<1>94. Begins(c22, c18) /\ Holds(c22, Static(m) + 16, t19)
  <2>1. Begins(c22, c18) /\ Holds(c22, Len(c18), t19)
    BY <1>93, <1>61, JoinedParts
  <2>2. QED
    BY <2>1, <1>85
<1>95. Begins(c22, c17) /\ Holds(c22, Static(m) + 12, t18)
  <2>1. Begins(c22, c17) /\ Holds(c22, Len(c17), t18)
    BY <1>94, <1>59, JoinedParts
  <2>2. QED
    BY <2>1, <1>84
<1>96. Begins(c22, c16) /\ Holds(c22, Static(m) + 8, t17)
  <2>1. Begins(c22, c16) /\ Holds(c22, Len(c16), t17)
    BY <1>95, <1>57, JoinedParts
  <2>2. QED
    BY <2>1, <1>83
<1>97. Begins(c22, c15) /\ Holds(c22, Static(m) + 4, t16)
  <2>1. Begins(c22, c15) /\ Holds(c22, Len(c15), t16)
    BY <1>96, <1>55, JoinedParts
  <2>2. QED
    BY <2>1, <1>82
<1>98. Begins(c22, c14) /\ Holds(c22, Static(m), t15)
  <2>1. Begins(c22, c14) /\ Holds(c22, Len(c14), t15)
    BY <1>97, <1>53, JoinedParts
  <2>2. QED
    BY <2>1, <1>81
<1>99. Begins(c22, c13) /\ Holds(c22, Ext(m) + 12 + Len(m.sm_version), t14)
  <2>1. Begins(c22, c13) /\ Holds(c22, Len(c13), t14)
    BY <1>98, <1>51, JoinedParts
  <2>2. QED
    BY <2>1, <1>80
<1>100. Begins(c22, c12) /\ Holds(c22, Ext(m) + 12, t13)
  <2>1. Begins(c22, c12) /\ Holds(c22, Len(c12), t13)
    BY <1>99, <1>49, JoinedParts
  <2>2. QED
    BY <2>1, <1>79
<1>101. Begins(c22, c11) /\ Holds(c22, Ext(m) + 8, t12)
  <2>1. Begins(c22, c11) /\ Holds(c22, Len(c11), t12)
    BY <1>100, <1>47, JoinedParts
  <2>2. QED
    BY <2>1, <1>78
<1>102. Begins(c22, c10) /\ Holds(c22, Ext(m) + 4, t11)
  <2>1. Begins(c22, c10) /\ Holds(c22, Len(c10), t11)
    BY <1>101, <1>45, JoinedParts
  <2>2. QED
    BY <2>1, <1>77
<1>103. Begins(c22, c9) /\ Holds(c22, Ext(m) + 2, t10)
  <2>1. Begins(c22, c9) /\ Holds(c22, Len(c9), t10)
    BY <1>102, <1>43, JoinedParts
  <2>2. QED
    BY <2>1, <1>76
<1>104. Begins(c22, c8) /\ Holds(c22, Ext(m), t9)
  <2>1. Begins(c22, c8) /\ Holds(c22, Len(c8), t9)
    BY <1>103, <1>41, JoinedParts
  <2>2. QED
    BY <2>1, <1>75
<1>105. Begins(c22, c7) /\ Holds(c22, 24 + Len(m.track), t8)
  <2>1. Begins(c22, c7) /\ Holds(c22, Len(c7), t8)
    BY <1>104, <1>39, JoinedParts
  <2>2. QED
    BY <2>1, <1>74
<1>106. Begins(c22, c6) /\ Holds(c22, 24, t7)
  <2>1. Begins(c22, c6) /\ Holds(c22, Len(c6), t7)
    BY <1>105, <1>37, JoinedParts
  <2>2. QED
    BY <2>1, <1>73
<1>107. Begins(c22, c5) /\ Holds(c22, 22, t6)
  <2>1. Begins(c22, c5) /\ Holds(c22, Len(c5), t6)
    BY <1>106, <1>35, JoinedParts
  <2>2. QED
    BY <2>1, <1>72
<1>108. Begins(c22, c4) /\ Holds(c22, 20, t5)
  <2>1. Begins(c22, c4) /\ Holds(c22, Len(c4), t5)
    BY <1>107, <1>33, JoinedParts
  <2>2. QED
    BY <2>1, <1>71
<1>109. Begins(c22, c3) /\ Holds(c22, 16, t4)
  <2>1. Begins(c22, c3) /\ Holds(c22, Len(c3), t4)
    BY <1>108, <1>31, JoinedParts
  <2>2. QED
    BY <2>1, <1>70
<1>110. Begins(c22, c2) /\ Holds(c22, 12, t3)
  <2>1. Begins(c22, c2) /\ Holds(c22, Len(c2), t3)
    BY <1>109, <1>29, JoinedParts
  <2>2. QED
    BY <2>1, <1>69
<1>111. Begins(c22, c1) /\ Holds(c22, 4, t2)
  <2>1. Begins(c22, c1) /\ Holds(c22, Len(c1), t2)
    BY <1>110, <1>27, JoinedParts
  <2>2. QED
    BY <2>1, <1>2
<1>112. LaidOut(c22, m)
  BY <1>89, <1>91, <1>92, <1>93, <1>94, <1>95, <1>96, <1>97, <1>98, <1>99, <1>100, <1>101, <1>102, <1>103, <1>104, <1>105, <1>106, <1>107, <1>108, <1>109, <1>110, <1>111
  DEF LaidOut, t2, t3, t4, t5, t6, t7, t8, t9, t10, t11, t12, t13, t14, t15, t16, t17, t18, t19, t20, t21, t22
<1>113. QED
  BY <1>1, <1>68, <1>112

(* What is found in a block that is laid out so.                           *)
LEMMA LaidOutIsDecoded ==
  ASSUME NEW m \in SessionMetadata, Fits(m), NEW b \in ByteSeq, LaidOut(b, m),
         m.raw_static # << >> \/ m.session_type = None
  PROVE  DecodeMetadata(b) = m
<1> DEFINE track_len == Number(b, 20, 2)
           car_len == Number(b, 22, 2)
           ext == 24 + track_len + car_len
           has_ext == Left(b, ext) >= 12
           sm_len == IF has_ext THEN Number(b, ext, 2) ELSE 0
           ac_len == IF has_ext THEN Number(b, ext + 2, 2) ELSE 0
           static == IF has_ext THEN ext + 12 + sm_len + ac_len ELSE ext
           has_static == Left(b, static) >= 24
           StaticNumber(p, n) == IF has_static THEN Number(b, static + p, n) ELSE 0
           StaticFloat(p) == IF has_static THEN Read(b, static + p, 4) ELSE << >>
           raw == IF has_static THEN static + 12 + 3 * 4 ELSE static
           raw_len == IF Left(b, raw) >= 4 THEN Number(b, raw, 4) ELSE 0
           has_raw == raw_len > 0 /\ raw_len <= Left(b, raw) - 4
           tail == IF Left(b, raw) < 4 THEN raw ELSE IF has_raw THEN raw + 4 + raw_len ELSE raw + 4
           has_type == Left(b, tail) >= 8 /\ Number(b, tail, 4) # 0
<1>1. DecodeMetadata(b) =
        [created |-> Read(b, 4, 8), poll_hz |-> Number(b, 12, 4), chunk_rows |-> Number(b, 16, 4),
         track |-> Read(b, 24, track_len), car |-> Read(b, 24 + track_len, car_len),
         sm_version |-> Read(b, ext + 12, sm_len), ac_version |-> Read(b, ext + 12 + sm_len, ac_len),
         sessions |-> IF has_ext THEN Number(b, ext + 4, 4) ELSE 0,
         num_cars |-> IF has_ext THEN Number(b, ext + 8, 4) ELSE 0,
         sector_count |-> StaticNumber(0, 4), max_rpm |-> StaticNumber(4, 4),
         max_torque |-> StaticFloat(8), max_power |-> StaticFloat(8 + 4),
         max_fuel |-> StaticFloat(8 + 2 * 4), penalties |-> StaticNumber(8 + 3 * 4, 4),
         raw_static |-> IF has_raw THEN Read(b, raw + 4, raw_len) ELSE << >>,
         session_type |-> IF has_type THEN Number(b, tail + 4, 4) ELSE None]
  BY ZenonT(30) DEF DecodeMetadata, DecodeBlock
<1>2. /\ Short(Len(m.track)) /\ Short(Len(m.car))
      /\ Short(Len(m.sm_version)) /\ Short(Len(m.ac_version))
  BY DEF Fits
<1>3. /\ Len(m.track) \in Nat /\ Len(m.car) \in Nat
      /\ Len(m.sm_version) \in Nat /\ Len(m.ac_version) \in Nat
  BY <1>2 DEF Short
<1> DEFINE tl == Len(m.track)
           cl == Len(m.car)
           sl == Len(m.sm_version)
           al == Len(m.ac_version)
<1>a. tl \in Nat /\ cl \in Nat /\ sl \in Nat /\ al \in Nat
  BY <1>3
<1>b. Ext(m) = 24 + tl + cl /\ Static(m) = Ext(m) + 12 + sl + al
  BY DEF Ext, Static
<1> HIDE DEF tl, cl, sl, al
<1>4. Ext(m) \in Nat
  BY <1>a, <1>b
<1>5. Static(m) \in Nat /\ Ext(m) + 12 <= Static(m)
  BY <1>4, <1>a, <1>b
<1> DEFINE page == Len(EncodeStatic(m.raw_static))
           types == Len(TypeBytes(m))
<1>6. page \in Nat /\ types \in Nat /\ types \in {4, 8}
      /\ page = (IF m.raw_static = << >> THEN 0 ELSE 4 + Len(m.raw_static))
      /\ types = (IF m.session_type # None THEN 8 ELSE 4)
  <2>1. Len(m.raw_static) \in Nat
    BY DEF SessionMetadata, ByteSeq
  <2>2. QED
    BY <2>1, PiecesTyped
<1> HIDE DEF page, types
<1>7. TypeAt(m) = Static(m) + 24 + page /\ TypeAt(m) \in Nat /\ Len(b) = TypeAt(m) + types
      /\ Len(b) \in Nat
  <2>1. TypeAt(m) = Static(m) + 24 + page /\ Len(b) = TypeAt(m) + types
    BY DEF LaidOut, TypeAt, page, types
  <2>2. QED
    BY <1>5, <1>6, <2>1
<1>c. Static(m) + 24 <= Len(b)
  BY <1>5, <1>6, <1>7
<1>d. Len(b) \in Nat
  BY <1>7
<1>8. \A p \in Nat : p <= Len(b) => Left(b, p) = Len(b) - p
  BY DEF Left
<1>9. track_len = Len(m.track) /\ car_len = Len(m.car)
  <2>1. Holds(b, 20, LittleEndian(Len(m.track), 2)) /\ Holds(b, 22, LittleEndian(Len(m.car), 2))
    BY DEF LaidOut
  <2>2. QED
    BY <1>2, <2>1, ReadShort
<1> HIDE DEF track_len, car_len
<1>10. ext = Ext(m)
  BY <1>9, <1>b DEF tl, cl
<1> HIDE DEF ext
<1>11. has_ext
  <2>1. Left(b, Ext(m)) = Len(b) - Ext(m)
    BY <1>4, <1>5, <1>8, <1>c, <1>d
  <2>2. Len(b) - Ext(m) >= 12
    BY <1>4, <1>5, <1>c, <1>d
  <2>3. QED
    BY <1>10, <2>1, <2>2
<1> HIDE DEF has_ext
<1>12. sm_len = Len(m.sm_version) /\ ac_len = Len(m.ac_version)
  <2>1. /\ Holds(b, Ext(m), LittleEndian(Len(m.sm_version), 2))
        /\ Holds(b, Ext(m) + 2, LittleEndian(Len(m.ac_version), 2))
    BY DEF LaidOut
  <2>2. Number(b, Ext(m), 2) = Len(m.sm_version) /\ Number(b, Ext(m) + 2, 2) = Len(m.ac_version)
    BY <1>2, <2>1, ReadShort
  <2>3. QED
    BY <1>10, <1>11, <2>2
<1> HIDE DEF sm_len, ac_len
<1>13. static = Static(m)
  BY <1>10, <1>11, <1>12, <1>b DEF sl, al
<1> HIDE DEF static
<1>14. has_static
  <2>1. Left(b, Static(m)) = Len(b) - Static(m)
    BY <1>5, <1>8, <1>c, <1>d
  <2>2. Len(b) - Static(m) >= 24
    BY <1>5, <1>c, <1>d
  <2>3. QED
    BY <1>13, <2>1, <2>2
<1>15. /\ \A p, n : StaticNumber(p, n) = Number(b, Static(m) + p, n)
       /\ \A p : StaticFloat(p) = Read(b, Static(m) + p, 4)
       /\ raw = Static(m) + 24
  <2>1. \A p, n : StaticNumber(p, n) = Number(b, Static(m) + p, n)
    BY <1>13, <1>14
  <2>2. \A p : StaticFloat(p) = Read(b, Static(m) + p, 4)
    BY <1>13, <1>14
  <2>3. raw = Static(m) + 24
    BY <1>5, <1>13, <1>14
  <2>4. QED
    BY <2>1, <2>2, <2>3
<1> HIDE DEF has_static, StaticNumber, StaticFloat, raw
<1>16. /\ Read(b, 4, 8) = m.created /\ Number(b, 12, 4) = m.poll_hz
       /\ Number(b, 16, 4) = m.chunk_rows
  <2>1. Holds(b, 4, m.created) /\ Len(m.created) = 8
    BY DEF LaidOut, Fits
  <2>2. Read(b, 4, Len(m.created)) = m.created
    BY <2>1, ReadHolds
  <2>3. /\ Holds(b, 12, LittleEndian(m.poll_hz, 4)) /\ Long(m.poll_hz)
        /\ Holds(b, 16, LittleEndian(m.chunk_rows, 4)) /\ Long(m.chunk_rows)
    BY DEF LaidOut, Fits
  <2>4. Number(b, 12, 4) = m.poll_hz /\ Number(b, 16, 4) = m.chunk_rows
    BY <2>3, ReadLong
  <2>5. QED
    BY <2>1, <2>2, <2>4
<1>17. Read(b, 24, track_len) = m.track /\ Read(b, 24 + track_len, car_len) = m.car
  <2>1. Holds(b, 24, m.track) /\ Holds(b, 24 + Len(m.track), m.car)
    BY DEF LaidOut
  <2>2. QED
    BY <1>9, <2>1, ReadHolds
<1>18. /\ Read(b, ext + 12, sm_len) = m.sm_version
       /\ Read(b, ext + 12 + sm_len, ac_len) = m.ac_version
  <2>1. /\ Holds(b, Ext(m) + 12, m.sm_version)
        /\ Holds(b, Ext(m) + 12 + Len(m.sm_version), m.ac_version)
    BY DEF LaidOut
  <2>2. /\ Read(b, Ext(m) + 12, Len(m.sm_version)) = m.sm_version
        /\ Read(b, Ext(m) + 12 + Len(m.sm_version), Len(m.ac_version)) = m.ac_version
    BY <2>1, ReadHolds
  <2>3. QED
    BY <1>10, <1>12, <2>2
<1>19. Number(b, ext + 4, 4) = m.sessions /\ Number(b, ext + 8, 4) = m.num_cars
  <2>1. /\ Holds(b, Ext(m) + 4, LittleEndian(m.sessions, 4)) /\ Long(m.sessions)
        /\ Holds(b, Ext(m) + 8, LittleEndian(m.num_cars, 4)) /\ Long(m.num_cars)
    BY DEF LaidOut, Fits
  <2>2. Number(b, Ext(m) + 4, 4) = m.sessions /\ Number(b, Ext(m) + 8, 4) = m.num_cars
    BY <2>1, ReadLong
  <2>3. QED
    BY <1>10, <2>2
<1>20. /\ StaticNumber(0, 4) = m.sector_count /\ StaticNumber(4, 4) = m.max_rpm
       /\ StaticNumber(8 + 3 * 4, 4) = m.penalties
  <2>1. /\ Holds(b, Static(m), LittleEndian(m.sector_count, 4)) /\ Long(m.sector_count)
        /\ Holds(b, Static(m) + 4, LittleEndian(m.max_rpm, 4)) /\ Long(m.max_rpm)
        /\ Holds(b, Static(m) + 20, LittleEndian(m.penalties, 4)) /\ Long(m.penalties)
    BY DEF LaidOut, Fits
  <2>2. /\ Number(b, Static(m), 4) = m.sector_count /\ Number(b, Static(m) + 4, 4) = m.max_rpm
        /\ Number(b, Static(m) + 20, 4) = m.penalties
    BY <2>1, ReadLong
  <2>3. Static(m) + 0 = Static(m) /\ 8 + 3 * 4 = 20
    BY <1>5
  <2>4. QED
    BY <1>15, <2>2, <2>3
<1>21. /\ StaticFloat(8) = m.max_torque /\ StaticFloat(8 + 4) = m.max_power
       /\ StaticFloat(8 + 2 * 4) = m.max_fuel
  <2>1. /\ Holds(b, Static(m) + 8, m.max_torque) /\ Len(m.max_torque) = 4
        /\ Holds(b, Static(m) + 12, m.max_power) /\ Len(m.max_power) = 4
        /\ Holds(b, Static(m) + 16, m.max_fuel) /\ Len(m.max_fuel) = 4
    BY DEF LaidOut, Fits
  <2>2. /\ Read(b, Static(m) + 8, Len(m.max_torque)) = m.max_torque
        /\ Read(b, Static(m) + 12, Len(m.max_power)) = m.max_power
        /\ Read(b, Static(m) + 16, Len(m.max_fuel)) = m.max_fuel
    BY ZenonT(30), <2>1, ReadHolds
  <2>3. 8 + 4 = 12 /\ 8 + 2 * 4 = 16
    OBVIOUS
  <2>4. QED
    BY <1>15, <2>1, <2>2, <2>3
<1>22. Holds(b, TypeAt(m), TypeBytes(m)) /\ Holds(b, Static(m) + 24, EncodeStatic(m.raw_static))
  BY DEF LaidOut
<1>23. /\ (IF has_raw THEN Read(b, raw + 4, raw_len) ELSE << >>) = m.raw_static
       /\ tail = (IF m.raw_static = << >> THEN TypeAt(m) + 4 ELSE TypeAt(m))
  <2>1. CASE m.raw_static = << >>
    <3>1. m.session_type = None /\ page = 0 /\ types = 4 /\ raw = TypeAt(m)
      BY <1>5, <1>6, <1>7, <1>15, <2>1
    <3>2. Left(b, raw) = 4
      BY <1>7, <1>8, <3>1
    <3>3. Number(b, TypeAt(m), 4) = 0
      <4>1. TypeBytes(m) = LittleEndian(0, 4) /\ Long(0)
        BY <3>1 DEF TypeBytes, Long
      <4>2. QED
        BY <1>22, <4>1, ReadLong
    <3>4. raw_len = 0 /\ ~has_raw /\ tail = raw + 4
      BY <3>1, <3>2, <3>3
    <3>5. QED
      BY <2>1, <3>1, <3>4
  <2>2. CASE m.raw_static # << >>
    <3> DEFINE n == Len(m.raw_static)
               count == LittleEndian(n, 4)
    <3>1. m.raw_static \in ByteSeq /\ n \in Nat /\ n > 0 /\ Long(n)
      BY <2>2 DEF SessionMetadata, ByteSeq, Fits
    <3>2. page = 4 + n
      BY <1>6, <2>2
    <3>3. EncodeStatic(m.raw_static) = count \o m.raw_static
      BY <2>2 DEF EncodeStatic
    <3>4. count \in ByteSeq /\ Len(count) = 4
      BY <3>1, NumberShape
    <3>5. Holds(b, raw, count) /\ Holds(b, raw + Len(count), m.raw_static)
      <4> HIDE DEF count, n
      <4>1. Holds(b, raw, count \o m.raw_static)
        BY <1>15, <1>22, <3>3
      <4>2. QED
        BY <3>1, <3>4, <4>1, HoldsParts
    <3>6. Number(b, raw, 4) = n
      BY <3>1, <3>5, ReadLong
    <3> HIDE DEF count
    <3>7. Read(b, raw + 4, n) = m.raw_static
      BY <3>4, <3>5, ReadHolds
    <3> HIDE DEF n
    <3>8. raw \in Nat /\ raw <= Len(b) /\ Len(b) - raw = 4 + n + types
          /\ raw + 4 + n = TypeAt(m)
      <4>1. /\ TypeAt(m) = Static(m) + 24 + page /\ Len(b) = TypeAt(m) + types
            /\ page = 4 + n /\ raw = Static(m) + 24 /\ Static(m) \in Nat /\ n \in Nat
            /\ types \in Nat
        BY <1>5, <1>6, <1>7, <1>15, <3>1, <3>2
      <4> HIDE DEF raw_len, has_raw, tail, has_type
      <4>2. QED
        BY <4>1
    <3>9. Left(b, raw) = 4 + n + types
      BY <1>8, <3>8
    <3>10. raw_len = n
      BY <1>6, <3>1, <3>6, <3>9
    <3> HIDE DEF raw_len
    <3>11. has_raw
      BY <1>6, <3>1, <3>9, <3>10
    <3> HIDE DEF has_raw
    <3>12. tail = raw + 4 + raw_len
      BY <1>6, <3>1, <3>9, <3>11
    <3>13. QED
      BY <2>2, <3>7, <3>8, <3>10, <3>11, <3>12
  <2>3. QED
    BY <2>1, <2>2
<1> HIDE DEF has_raw, raw_len, tail
<1>24. (IF has_type THEN Number(b, tail + 4, 4) ELSE None) = m.session_type
  <2>1. CASE m.session_type = None
    <3>1. tail \in Nat /\ tail <= Len(b) /\ Len(b) - tail <= 4
      BY <1>6, <1>7, <1>23, <2>1
    <3>2. ~has_type
      BY <1>7, <1>8, <3>1
    <3>3. QED
      BY <2>1, <3>2
  <2>2. CASE m.session_type # None
    <3>1. tail = TypeAt(m) /\ types = 8
      BY <1>6, <1>23, <2>2
    <3>2. Left(b, tail) = 8
      BY <1>7, <1>8, <3>1
    <3> DEFINE flag == LittleEndian(1, 4)
               value == LittleEndian(m.session_type, 4)
    <3>3. m.session_type \in Nat /\ Long(m.session_type) /\ Long(1)
      BY <2>2 DEF SessionMetadata, Fits, Long
    <3>4. flag \in ByteSeq /\ Len(flag) = 4 /\ value \in ByteSeq
      BY <3>3, NumberShape
    <3>5. Holds(b, tail, flag) /\ Holds(b, tail + Len(flag), value)
      <4>1. TypeBytes(m) = flag \o value
        BY <2>2 DEF TypeBytes
      <4> HIDE DEF flag, value
      <4>2. Holds(b, tail, flag \o value)
        BY <1>22, <3>1, <4>1
      <4>3. QED
        BY <3>4, <4>2, HoldsParts
    <3>6. Number(b, tail, 4) = 1
      BY <3>3, <3>5, ReadLong
    <3>7. Number(b, tail + 4, 4) = m.session_type
      <4> HIDE DEF flag
      <4>1. Holds(b, tail + 4, value)
        BY <3>4, <3>5
      <4>2. QED
        BY <3>3, <4>1, ReadLong
    <3>8. has_type
      BY <3>2, <3>6
    <3>9. QED
      BY <3>7, <3>8
  <2>3. QED
    BY <2>1, <2>2
<1> HIDE DEF has_type
<1>25. DecodeMetadata(b) =
         [created |-> m.created, poll_hz |-> m.poll_hz, chunk_rows |-> m.chunk_rows,
          track |-> m.track, car |-> m.car, sm_version |-> m.sm_version,
          ac_version |-> m.ac_version, sessions |-> m.sessions, num_cars |-> m.num_cars,
          sector_count |-> m.sector_count, max_rpm |-> m.max_rpm, max_torque |-> m.max_torque,
          max_power |-> m.max_power, max_fuel |-> m.max_fuel, penalties |-> m.penalties,
          raw_static |-> m.raw_static, session_type |-> m.session_type]
  BY <1>1, <1>11, <1>16, <1>17, <1>18, <1>19, <1>20, <1>21, <1>23, <1>24
<1>26. QED
  BY SMTT(30), <1>25 DEF SessionMetadata

(* decode_metadata returns what encode_metadata was given, whatever the    *)
(* lengths of the texts and of the raw page: each of some twenty values is *)
(* found where the ones before it end.  Only a session type without a raw  *)
(* page is not.                                                            *)
THEOREM MetadataSurvives ==
  ASSUME NEW m \in SessionMetadata, Fits(m), m.raw_static # << >> \/ m.session_type = None
  PROVE  DecodeMetadata(EncodeMetadata(m)) = m
BY EncodedIsLaidOut, LaidOutIsDecoded

(* The metadata that the runs check fit the block.                         *)
LEMMA SomeTexts ==
  /\ \A t \in {<<1, 2, 3, 4, 5, 6, 7, 8>>} : t \in ByteSeq /\ Len(t) = 8
  /\ \A t \in {<< >>, <<11, 12>>} : t \in ByteSeq /\ Len(t) \in 0..2
  /\ \A t \in {<<13>>} : t \in ByteSeq /\ Len(t) = 1
  /\ \A t \in {<< >>, <<14>>} : t \in ByteSeq /\ Len(t) \in 0..1
  /\ \A t \in {<<15, 16>>} : t \in ByteSeq /\ Len(t) = 2
  /\ \A t \in {<<21, 22, 23, 24>>} : t \in ByteSeq /\ Len(t) = 4
  /\ \A t \in {<<25, 26, 27, 28>>} : t \in ByteSeq /\ Len(t) = 4
  /\ \A t \in {<<31, 32, 33, 34>>} : t \in ByteSeq /\ Len(t) = 4
  /\ \A t \in {<< >>, <<41>>, <<42, 43, 44, 45, 46>>} : t \in ByteSeq /\ Len(t) \in 0..5
BY SMT DEF ByteSeq

LEMMA SomePieces ==
  ASSUME NEW m \in SomeMetadata
  PROVE  /\ m.created \in ByteSeq /\ Len(m.created) = 8
         /\ m.track \in ByteSeq /\ Len(m.track) \in 0..2
         /\ m.car \in ByteSeq /\ Len(m.car) = 1
         /\ m.sm_version \in ByteSeq /\ Len(m.sm_version) \in 0..1
         /\ m.ac_version \in ByteSeq /\ Len(m.ac_version) = 2
         /\ m.max_torque \in ByteSeq /\ Len(m.max_torque) = 4
         /\ m.max_power \in ByteSeq /\ Len(m.max_power) = 4
         /\ m.max_fuel \in ByteSeq /\ Len(m.max_fuel) = 4
         /\ m.raw_static \in ByteSeq /\ Len(m.raw_static) \in 0..5
<1>1. m.created \in {<<1, 2, 3, 4, 5, 6, 7, 8>>}
  BY SMT DEF SomeMetadata
<1>2. m.track \in {<< >>, <<11, 12>>}
  BY SMT DEF SomeMetadata
<1>3. m.car \in {<<13>>}
  BY SMT DEF SomeMetadata
<1>4. m.sm_version \in {<< >>, <<14>>}
  BY SMT DEF SomeMetadata
<1>5. m.ac_version \in {<<15, 16>>}
  BY SMT DEF SomeMetadata
<1>6. m.max_torque \in {<<21, 22, 23, 24>>}
  BY SMT DEF SomeMetadata
<1>7. m.max_power \in {<<25, 26, 27, 28>>}
  BY SMT DEF SomeMetadata
<1>8. m.max_fuel \in {<<31, 32, 33, 34>>}
  BY SMT DEF SomeMetadata
<1>9. m.raw_static \in {<< >>, <<41>>, <<42, 43, 44, 45, 46>>}
  BY SMT DEF SomeMetadata
<1>10. QED
  BY <1>1, <1>2, <1>3, <1>4, <1>5, <1>6, <1>7, <1>8, <1>9, SomeTexts, ZenonT(30)

LEMMA SomeNumbers ==
  ASSUME NEW m \in SomeMetadata
  PROVE  /\ m.poll_hz \in Nat /\ m.poll_hz > 0 /\ Long(m.poll_hz)
         /\ m.chunk_rows \in Nat /\ Long(m.chunk_rows) /\ m.sessions \in Nat /\ Long(m.sessions)
         /\ m.num_cars \in Nat /\ Long(m.num_cars) /\ m.sector_count \in Nat /\ Long(m.sector_count)
         /\ m.max_rpm \in Nat /\ Long(m.max_rpm) /\ m.penalties \in Nat /\ Long(m.penalties)
         /\ m.session_type \in Nat \cup {None}
         /\ m.session_type # None => Long(m.session_type)
<1>1. m.poll_hz \in {120000, 333}
  BY SMT DEF SomeMetadata
<1>2. /\ m.chunk_rows = 1024 /\ m.sessions = 1 /\ m.num_cars = 60
      /\ m.sector_count = 3 /\ m.max_rpm = 8000 /\ m.penalties = 1
  BY SMT DEF SomeMetadata
<1>3. m.session_type \in {None, 0, 2}
  BY SMT DEF SomeMetadata
<1>4. m.poll_hz \in Nat /\ m.poll_hz > 0 /\ Long(m.poll_hz)
  BY <1>1, SMT DEF Long
<1>5. /\ m.chunk_rows \in Nat /\ Long(m.chunk_rows) /\ m.sessions \in Nat /\ Long(m.sessions)
      /\ m.num_cars \in Nat /\ Long(m.num_cars) /\ m.sector_count \in Nat /\ Long(m.sector_count)
      /\ m.max_rpm \in Nat /\ Long(m.max_rpm) /\ m.penalties \in Nat /\ Long(m.penalties)
  BY <1>2, SMT DEF Long
<1>6. m.session_type \in Nat \cup {None} /\ (m.session_type # None => Long(m.session_type))
  BY <1>3, SMT DEF Long
<1>7. QED
  BY <1>4, <1>5, <1>6

LEMMA SomeFit ==
  ASSUME NEW m \in SomeMetadata
  PROVE  m \in SessionMetadata /\ Fits(m)
<1>1. m = [created |-> m.created, poll_hz |-> m.poll_hz, chunk_rows |-> m.chunk_rows,
           track |-> m.track, car |-> m.car, sm_version |-> m.sm_version,
           ac_version |-> m.ac_version, sessions |-> m.sessions, num_cars |-> m.num_cars,
           sector_count |-> m.sector_count, max_rpm |-> m.max_rpm, max_torque |-> m.max_torque,
           max_power |-> m.max_power, max_fuel |-> m.max_fuel, penalties |-> m.penalties,
           raw_static |-> m.raw_static, session_type |-> m.session_type]
  BY SMT DEF SomeMetadata
<1>2. m \in SessionMetadata
  BY <1>1, SomePieces, SomeNumbers, SMT DEF SessionMetadata
<1>3. /\ Short(Len(m.track)) /\ Short(Len(m.car)) /\ Short(Len(m.sm_version))
      /\ Short(Len(m.ac_version)) /\ Long(Len(m.raw_static))
  <2>1. /\ Len(m.track) \in 0..2 /\ Len(m.car) = 1 /\ Len(m.sm_version) \in 0..1
        /\ Len(m.ac_version) = 2 /\ Len(m.raw_static) \in 0..5
    BY SomePieces
  <2>2. \A v \in 0..8 : Short(v) /\ Long(v)
    BY SMT DEF Short, Long
  <2>3. /\ Len(m.track) \in 0..8 /\ Len(m.car) \in 0..8 /\ Len(m.sm_version) \in 0..8
        /\ Len(m.ac_version) \in 0..8 /\ Len(m.raw_static) \in 0..8
    BY <2>1, SMT
  <2>4. QED
    BY <2>2, <2>3, Zenon
<1>4. Len(m.created) = 8 /\ Len(m.max_torque) = 4 /\ Len(m.max_power) = 4 /\ Len(m.max_fuel) = 4
  BY SomePieces
<1>5. /\ m.poll_hz > 0 /\ Long(m.poll_hz) /\ Long(m.chunk_rows) /\ Long(m.sessions)
      /\ Long(m.num_cars) /\ Long(m.sector_count) /\ Long(m.max_rpm) /\ Long(m.penalties)
      /\ m.session_type # None => Long(m.session_type)
  BY SomeNumbers
<1>6. Fits(m)
  BY <1>3, <1>4, <1>5, Zenon DEF Fits
<1>7. QED
  BY <1>2, <1>6

(* What a block says before its floats.                                   *)
DecodedFront(d, m) ==
  /\ d.created = m.created /\ d.poll_hz = m.poll_hz /\ d.chunk_rows = m.chunk_rows
  /\ d.track = m.track /\ d.car = m.car
  /\ d.sm_version = m.sm_version /\ d.ac_version = m.ac_version
  /\ d.sessions = m.sessions /\ d.num_cars = m.num_cars
  /\ d.sector_count = m.sector_count /\ d.max_rpm = m.max_rpm

LEMMA FrontHasNoFloats ==
  ASSUME NEW b
  PROVE  DecodedFront(DecodeBlock(b, 8), DecodeBlock(b, 4))
<1> DEFINE track_len == Number(b, 20, 2)
           car_len == Number(b, 22, 2)
           ext == 24 + track_len + car_len
           has_ext == Left(b, ext) >= 12
           sm_len == IF has_ext THEN Number(b, ext, 2) ELSE 0
           ac_len == IF has_ext THEN Number(b, ext + 2, 2) ELSE 0
           static == IF has_ext THEN ext + 12 + sm_len + ac_len ELSE ext
           has_static == Left(b, static) >= 24
           track == Read(b, 24, track_len)
           car == Read(b, 24 + track_len, car_len)
           sm == Read(b, ext + 12, sm_len)
           ac == Read(b, ext + 12 + sm_len, ac_len)
           sessions == IF has_ext THEN Number(b, ext + 4, 4) ELSE 0
           cars == IF has_ext THEN Number(b, ext + 8, 4) ELSE 0
           sectors == IF has_static THEN Number(b, static + 0, 4) ELSE 0
           rpm == IF has_static THEN Number(b, static + 4, 4) ELSE 0
<1>1. ASSUME NEW float
      PROVE  LET d == DecodeBlock(b, float)
             IN  /\ d.created = Read(b, 4, 8) /\ d.poll_hz = Number(b, 12, 4)
                 /\ d.chunk_rows = Number(b, 16, 4) /\ d.track = track /\ d.car = car
                 /\ d.sm_version = sm /\ d.ac_version = ac
                 /\ d.sessions = sessions /\ d.num_cars = cars
                 /\ d.sector_count = sectors /\ d.max_rpm = rpm
  BY ZenonT(30) DEF DecodeBlock
<1> HIDE DEF track, car, sm, ac, sessions, cars, sectors, rpm
<1>2. QED
  BY SMTT(30), <1>1 DEF DecodedFront

LEMMA ReadLength ==
  ASSUME NEW b \in ByteSeq, NEW p \in Nat, NEW n \in Nat
  PROVE  Read(b, p, n) \in ByteSeq /\ Len(Read(b, p, n)) \in {0, n}
<1>1. Len(b) \in Nat /\ b \in Seq(0..255)
  BY DEF ByteSeq
<1>2. CASE p + n <= Len(b)
  <2>1. p \in 0..Len(b) /\ p + n \in p..Len(b)
    BY <1>1, <1>2
  <2> DEFINE to == p + n
  <2>2. to \in p..Len(b) /\ to - p = n
    BY <2>1
  <2> HIDE DEF to
  <2>3. SubSeq(b, p + 1, to) \in Seq(0..255) /\ Len(SubSeq(b, p + 1, to)) = to - p
    BY <1>1, <2>1, <2>2, SubSeqShape
  <2>4. QED
    BY <1>2, <2>2, <2>3 DEF Read, ByteSeq, to
<1>3. CASE ~(p + n <= Len(b))
  BY <1>3 DEF Read, ByteSeq
<1>4. QED
  BY <1>2, <1>3

LEMMA ByteAt ==
  ASSUME NEW bytes \in ByteSeq, NEW k \in 1..Len(bytes)
  PROVE  bytes[k] \in Nat
<1>1. ASSUME NEW S, NEW s \in Seq(S), NEW j \in 1..Len(s)
      PROVE  s[j] \in S
  OBVIOUS
<1>2. bytes \in Seq(0..255)
  BY DEF ByteSeq
<1>3. bytes[k] \in 0..255
  BY <1>1, <1>2
<1>4. \A v \in 0..255 : v \in Nat
  OBVIOUS
<1>5. QED
  BY <1>3, <1>4, Zenon

LEMMA NumberNat ==
  ASSUME NEW b \in ByteSeq, NEW p \in Nat, NEW n \in Nat
  PROVE  Number(b, p, n) \in Nat
<1> DEFINE bytes == Read(b, p, n)
<1>1. bytes \in ByteSeq
  BY ReadLength
<1> HIDE DEF bytes
<1>2. \A k \in 1..4 : Worth(bytes, k) \in Nat
  <2> SUFFICES ASSUME NEW k \in 1..4
               PROVE  Worth(bytes, k) \in Nat
    OBVIOUS
  <2>1. Weight[k] \in Nat
    BY SMT DEF Weight
  <2>2. k <= Len(bytes) => bytes[k] \in Nat
    <3>1. bytes \in Seq(0..255) /\ Len(bytes) \in Nat
      BY <1>1 DEF ByteSeq
    <3>2. k \in 1..Len(bytes) => bytes[k] \in Nat
      BY <1>1, ByteAt
    <3>3. k <= Len(bytes) => k \in 1..Len(bytes)
      BY <3>1
    <3>4. QED
      BY <3>2, <3>3
  <2>3. k <= Len(bytes) => Weight[k] * bytes[k] \in Nat
    BY <2>1, <2>2
  <2>4. QED
    BY <2>3 DEF Worth
<1>3. QED
  BY <1>2 DEF Number, bytes

(* The V2 reader takes a float to have eight bytes, or finds none.         *)
LEMMA FloatsAreWide ==
  ASSUME NEW b \in ByteSeq
  PROVE  Len(DecodeBlock(b, 8).max_torque) # 4
<1> DEFINE track_len == Number(b, 20, 2)
           car_len == Number(b, 22, 2)
           ext == 24 + track_len + car_len
           has_ext == Left(b, ext) >= 12
           sm_len == IF has_ext THEN Number(b, ext, 2) ELSE 0
           ac_len == IF has_ext THEN Number(b, ext + 2, 2) ELSE 0
           static == IF has_ext THEN ext + 12 + sm_len + ac_len ELSE ext
           has_static == Left(b, static) >= 24
<1>1. DecodeBlock(b, 8).max_torque = IF has_static THEN Read(b, static + 8, 8) ELSE << >>
  BY ZenonT(30) DEF DecodeBlock
<1>2. track_len \in Nat /\ car_len \in Nat
  BY NumberNat
<1> HIDE DEF track_len, car_len
<1>3. ext \in Nat
  BY <1>2
<1> HIDE DEF ext
<1>4. sm_len \in Nat /\ ac_len \in Nat
  <2>1. Number(b, ext, 2) \in Nat
    BY <1>3, NumberNat
  <2>2. ext + 2 \in Nat
    BY <1>3
  <2>3. Number(b, ext + 2, 2) \in Nat
    BY <2>2, NumberNat
  <2> HIDE DEF has_ext
  <2>4. QED
    BY <2>1, <2>3
<1> HIDE DEF sm_len, ac_len, has_ext
<1>5. static \in Nat
  BY <1>3, <1>4
<1> HIDE DEF static, has_static
<1>6. Len(Read(b, static + 8, 8)) \in {0, 8}
  <2>1. static + 8 \in Nat
    BY <1>5
  <2>2. QED
    BY <2>1, ReadLength
<1>7. CASE has_static
  <2>1. DecodeBlock(b, 8).max_torque = Read(b, static + 8, 8)
    BY <1>1, <1>7
  <2>2. \A v \in {0, 8} : v # 4
    OBVIOUS
  <2>3. Len(Read(b, static + 8, 8)) # 4
    BY <1>6, <2>2, Zenon
  <2>4. QED
    BY <2>1, <2>3, Zenon
<1>8. CASE ~has_static
  <2>1. DecodeBlock(b, 8).max_torque = << >>
    BY <1>1, <1>8
  <2>2. QED
    BY <2>1
<1>9. QED
  BY SMTT(30), <1>7, <1>8

(* What a converted file says of a session: everything before the floats   *)
(* is as it was measured, but not the torque, whatever it was.             *)
THEOREM FloatsAreLost ==
  ASSUME NEW m \in SessionMetadata, Fits(m), m.raw_static # << >> \/ m.session_type = None
  PROVE  DecodedFront(MetadataRead(m), m) /\ MetadataRead(m).max_torque # m.max_torque
<1> DEFINE b == EncodeMetadata(m)
<1>1. ConvertedMetadata(m) = m /\ DecodeMetadata(b) = m
  BY MetadataSurvives DEF ConvertedMetadata
<1>2. b \in ByteSeq
  BY EncodedIsLaidOut
<1> HIDE DEF b
<1>3. MetadataRead(m) = DecodeBlock(b, 8) /\ DecodeBlock(b, 4) = m
  BY <1>1 DEF MetadataRead, DecodeMetadata, DecodeMetadataV2, b
<1>4. DecodedFront(MetadataRead(m), m)
  BY <1>3, FrontHasNoFloats
<1>5. MetadataRead(m).max_torque # m.max_torque
  <2>1. Len(DecodeBlock(b, 8).max_torque) # 4
    BY <1>2, FloatsAreWide
  <2>2. Len(m.max_torque) = 4
    BY DEF Fits
  <2>3. QED
    BY <1>3, <2>1, <2>2, Zenon
<1>6. QED
  BY <1>4, <1>5
-----------------------------------------------------------------------------
(* The columns of both formats.  The lists of a cluster are compared field *)
(* by field, nine times; what follows from their agreement holds for any   *)
(* number of rows, since the places are linear in it.                      *)
(* Bytes of the value of a field. *)
Width(sample, k) == sample[k].lanes * sample[k].width

(* What the four lists of a cluster with n fields have to agree on.        *)
ColumnsAgree(n, sample, encode, decode) ==
  /\ DOMAIN sample = 1..n /\ DOMAIN encode.ids = 1..n
  /\ encode.pushed = sample
  /\ encode.sizes = [k \in 1..n |-> Width(sample, k)]
  /\ encode.ids = decode.ids /\ encode.sizes = decode.sizes
  /\ \A j, k \in 1..n : encode.ids[j] = encode.ids[k] => j = k

LEMMA ControlShape ==
  /\ DOMAIN ControlSample = 1..12 /\ Len(ControlSample) = 12
  /\ \A k \in 1..12 :
       /\ ControlSample[k].lanes = 1
       /\ ControlSample[k].width = IF k <= 2 THEN 8 ELSE 4
BY SMT DEF ControlSample, Stamps, Words, Fields

LEMMA MotionShape ==
  /\ DOMAIN MotionSample = 1..9 /\ Len(MotionSample) = 9
  /\ \A k \in 1..9 :
       /\ MotionSample[k].lanes = IF k \in 3..6 THEN 3 ELSE 1
       /\ MotionSample[k].width = IF k <= 2 THEN 8 ELSE 4
BY SMT DEF MotionSample, Stamps, Words, Floats, Fields

LEMMA TyreShape ==
  /\ DOMAIN TyreSample = 1..31 /\ Len(TyreSample) = 31
  /\ \A k \in 1..31 :
       /\ TyreSample[k].lanes = IF k \in 3..25 THEN 4 ELSE IF k \in 26..28 THEN 12 ELSE 1
       /\ TyreSample[k].width = IF k <= 2 THEN 8 ELSE 4
BY SMT DEF TyreSample, Stamps, Words, Floats, Fields

LEMMA PowertrainShape ==
  /\ DOMAIN PowertrainSample = 1..24 /\ Len(PowertrainSample) = 24
  /\ \A k \in 1..24 :
       /\ PowertrainSample[k].lanes = 1
       /\ PowertrainSample[k].width = IF k <= 2 THEN 8 ELSE 4
BY SMT DEF PowertrainSample, Stamps, Words, Fields

LEMMA SessionShape ==
  /\ DOMAIN SessionSample = 1..32 /\ Len(SessionSample) = 32
  /\ \A k \in 1..32 :
       /\ SessionSample[k].lanes = IF k = 18 THEN 33 ELSE 1
       /\ SessionSample[k].width = IF k <= 2 THEN 8 ELSE IF k = 18 THEN 2 ELSE 4
BY SMT DEF SessionSample, Stamps, Words, Text, Fields

LEMMA TimingShape ==
  /\ DOMAIN TimingSample = 1..21 /\ Len(TimingSample) = 21
  /\ \A k \in 1..21 :
       /\ TimingSample[k].lanes = IF k \in 15..20 THEN 15 ELSE 1
       /\ TimingSample[k].width = IF k <= 2 THEN 8 ELSE IF k \in 15..20 THEN 2 ELSE 4
BY SMTT(30) DEF TimingSample, Stamps, Words, Text, Fields

LEMMA CarStateShape ==
  /\ DOMAIN CarStateSample = 1..42 /\ Len(CarStateSample) = 42
  /\ \A k \in 1..42 :
       /\ CarStateSample[k].lanes = IF k = 3 THEN 5 ELSE IF k = 5 THEN 2 ELSE IF k = 22 THEN 33
                           ELSE IF k = 25 THEN 4 ELSE 1
       /\ CarStateSample[k].width = IF k <= 2 THEN 8 ELSE IF k = 22 THEN 2 ELSE 4
BY SMT DEF CarStateSample, Stamps, Words, Floats, Text, Fields

LEMMA EnvironmentShape ==
  /\ DOMAIN EnvironmentSample = 1..11 /\ Len(EnvironmentSample) = 11
  /\ \A k \in 1..11 :
       /\ EnvironmentSample[k].lanes = 1
       /\ EnvironmentSample[k].width = IF k <= 2 THEN 8 ELSE 4
BY SMT DEF EnvironmentSample, Stamps, Words, Fields

LEMMA OtherCarsShape ==
  /\ DOMAIN OtherCarsSample = 1..6 /\ Len(OtherCarsSample) = 6
  /\ \A k \in 1..6 :
       /\ OtherCarsSample[k].lanes = IF k = 5 THEN 180 ELSE IF k = 6 THEN 60 ELSE 1
       /\ OtherCarsSample[k].width = IF k <= 2 THEN 8 ELSE 4
BY SMT DEF OtherCarsSample, Stamps, Words, Vector, Fields

LEMMA ControlsAgree == ColumnsAgree(12, ControlSample, EncodeControls, DecodeControls)
<1>1. EncodeControls.sizes =
        [k \in 1..12 |-> IF k <= 2 THEN 8 ELSE 4]
  BY SMT DEF EncodeControls, Encoder, Times
<1>2. /\ DOMAIN EncodeControls.ids = 1..12
      /\ \A j, k \in 1..12 : EncodeControls.ids[j] = EncodeControls.ids[k] => j = k
  BY SMT DEF EncodeControls, Encoder, CONTROL_COLUMNS, Ids
<1>3. /\ EncodeControls.ids = DecodeControls.ids
      /\ EncodeControls.sizes = DecodeControls.sizes
  BY SMT DEF EncodeControls, Encoder, CONTROL_COLUMNS, DecodeControls, Decoder, Ids, Times
<1>4. \A k \in 1..12 : Width(ControlSample, k) = EncodeControls.sizes[k]
  BY SMT, <1>1, ControlShape DEF Width
<1>5. EncodeControls.sizes = [k \in 1..12 |-> Width(ControlSample, k)]
  BY SMT, <1>1, <1>4
<1>6. EncodeControls.pushed = ControlSample
  BY DEF EncodeControls, Encoder
<1>7. DOMAIN ControlSample = 1..12
  BY ControlShape
<1>8. QED
  BY <1>2, <1>3, <1>5, <1>6, <1>7, Zenon DEF ColumnsAgree

LEMMA MotionAgree == ColumnsAgree(9, MotionSample, EncodeMotion, DecodeMotion)
<1>1. EncodeMotion.sizes =
        [k \in 1..9 |-> IF k <= 2 THEN 8 ELSE IF k <= 6 THEN 12 ELSE 4]
  BY SMT DEF EncodeMotion, Encoder, Times
<1>2. /\ DOMAIN EncodeMotion.ids = 1..9
      /\ \A j, k \in 1..9 : EncodeMotion.ids[j] = EncodeMotion.ids[k] => j = k
  BY SMT DEF EncodeMotion, Encoder, MOTION_COLUMNS_EX, Ids
<1>3. /\ EncodeMotion.ids = DecodeMotion.ids
      /\ EncodeMotion.sizes = DecodeMotion.sizes
  BY SMT DEF EncodeMotion, Encoder, MOTION_COLUMNS_EX, DecodeMotion, Decoder, Ids, Times
<1>4. \A k \in 1..9 : Width(MotionSample, k) = EncodeMotion.sizes[k]
  BY SMT, <1>1, MotionShape DEF Width
<1>5. EncodeMotion.sizes = [k \in 1..9 |-> Width(MotionSample, k)]
  BY SMT, <1>1, <1>4
<1>6. EncodeMotion.pushed = MotionSample
  BY DEF EncodeMotion, Encoder
<1>7. DOMAIN MotionSample = 1..9
  BY MotionShape
<1>8. QED
  BY <1>2, <1>3, <1>5, <1>6, <1>7, Zenon DEF ColumnsAgree

LEMMA TyresAgree == ColumnsAgree(31, TyreSample, EncodeTyres, DecodeTyres)
<1>1. EncodeTyres.sizes =
        [k \in 1..31 |-> IF k <= 2 THEN 8 ELSE IF k <= 25 THEN 16 ELSE IF k <= 28 THEN 48 ELSE 4]
  BY SMT DEF EncodeTyres, Encoder, Times
<1>2. /\ DOMAIN EncodeTyres.ids = 1..31
      /\ \A j, k \in 1..31 : EncodeTyres.ids[j] = EncodeTyres.ids[k] => j = k
  BY SMT DEF EncodeTyres, Encoder, TYRES_COLUMNS, Ids
<1>3. /\ EncodeTyres.ids = DecodeTyres.ids
      /\ EncodeTyres.sizes = DecodeTyres.sizes
  BY SMT DEF EncodeTyres, Encoder, TYRES_COLUMNS, DecodeTyres, Decoder, Ids, Times
<1>4. \A k \in 1..31 : Width(TyreSample, k) = EncodeTyres.sizes[k]
  BY SMT, <1>1, TyreShape DEF Width
<1>5. EncodeTyres.sizes = [k \in 1..31 |-> Width(TyreSample, k)]
  BY SMT, <1>1, <1>4
<1>6. EncodeTyres.pushed = TyreSample
  BY DEF EncodeTyres, Encoder
<1>7. DOMAIN TyreSample = 1..31
  BY TyreShape
<1>8. QED
  BY <1>2, <1>3, <1>5, <1>6, <1>7, Zenon DEF ColumnsAgree

LEMMA PowertrainAgree == ColumnsAgree(24, PowertrainSample, EncodePowertrain, DecodePowertrain)
<1>1. EncodePowertrain.sizes =
        [k \in 1..24 |-> IF k <= 2 THEN 8 ELSE 4]
  BY SMT DEF EncodePowertrain, Encoder, Times
<1>2. /\ DOMAIN EncodePowertrain.ids = 1..24
      /\ \A j, k \in 1..24 : EncodePowertrain.ids[j] = EncodePowertrain.ids[k] => j = k
  BY SMT DEF EncodePowertrain, Encoder, POWERTRAIN_COLUMNS, Ids
<1>3. /\ EncodePowertrain.ids = DecodePowertrain.ids
      /\ EncodePowertrain.sizes = DecodePowertrain.sizes
  BY SMT
     DEF EncodePowertrain, Encoder, POWERTRAIN_COLUMNS, DecodePowertrain, Decoder, Ids,
         Times
<1>4. \A k \in 1..24 : Width(PowertrainSample, k) = EncodePowertrain.sizes[k]
  BY SMT, <1>1, PowertrainShape DEF Width
<1>5. EncodePowertrain.sizes = [k \in 1..24 |-> Width(PowertrainSample, k)]
  BY SMT, <1>1, <1>4
<1>6. EncodePowertrain.pushed = PowertrainSample
  BY DEF EncodePowertrain, Encoder
<1>7. DOMAIN PowertrainSample = 1..24
  BY PowertrainShape
<1>8. QED
  BY <1>2, <1>3, <1>5, <1>6, <1>7, Zenon DEF ColumnsAgree

LEMMA SessionAgree == ColumnsAgree(32, SessionSample, EncodeSession, DecodeSession)
<1>1. EncodeSession.sizes =
        [k \in 1..32 |-> IF k <= 2 THEN 8 ELSE IF k = 18 THEN 66 ELSE 4]
  BY SMT DEF EncodeSession, Encoder, Times
<1>2. /\ DOMAIN EncodeSession.ids = 1..32
      /\ \A j, k \in 1..32 : EncodeSession.ids[j] = EncodeSession.ids[k] => j = k
  BY SMT DEF EncodeSession, Encoder, SESSION_COLUMNS, Ids
<1>3. /\ EncodeSession.ids = DecodeSession.ids
      /\ EncodeSession.sizes = DecodeSession.sizes
  BY SMT DEF EncodeSession, Encoder, SESSION_COLUMNS, DecodeSession, Decoder, Ids, Times
<1>4. \A k \in 1..32 : Width(SessionSample, k) = EncodeSession.sizes[k]
  BY SMT, <1>1, SessionShape DEF Width
<1>5. EncodeSession.sizes = [k \in 1..32 |-> Width(SessionSample, k)]
  BY SMT, <1>1, <1>4
<1>6. EncodeSession.pushed = SessionSample
  BY DEF EncodeSession, Encoder
<1>7. DOMAIN SessionSample = 1..32
  BY SessionShape
<1>8. QED
  BY <1>2, <1>3, <1>5, <1>6, <1>7, Zenon DEF ColumnsAgree

LEMMA TimingAgree == ColumnsAgree(21, TimingSample, EncodeTiming, DecodeTiming)
<1>1. EncodeTiming.sizes =
        [k \in 1..21 |-> IF k <= 2 THEN 8 ELSE IF k \in 15..20 THEN 30 ELSE 4]
  BY SMT DEF EncodeTiming, Encoder, Times
<1>2. /\ DOMAIN EncodeTiming.ids = 1..21
      /\ \A j, k \in 1..21 : EncodeTiming.ids[j] = EncodeTiming.ids[k] => j = k
  BY SMT DEF EncodeTiming, Encoder, TIMING_COLUMNS, Ids
<1>3. /\ EncodeTiming.ids = DecodeTiming.ids
      /\ EncodeTiming.sizes = DecodeTiming.sizes
  BY SMT DEF EncodeTiming, Encoder, TIMING_COLUMNS, DecodeTiming, Decoder, Ids, Times
<1>4. \A k \in 1..21 : Width(TimingSample, k) = EncodeTiming.sizes[k]
  BY SMT, <1>1, TimingShape DEF Width
<1>5. EncodeTiming.sizes = [k \in 1..21 |-> Width(TimingSample, k)]
  BY SMT, <1>1, <1>4
<1>6. EncodeTiming.pushed = TimingSample
  BY DEF EncodeTiming, Encoder
<1>7. DOMAIN TimingSample = 1..21
  BY TimingShape
<1>8. QED
  BY <1>2, <1>3, <1>5, <1>6, <1>7, Zenon DEF ColumnsAgree

LEMMA CarStateAgree == ColumnsAgree(42, CarStateSample, EncodeCarState, DecodeCarState)
<1>1. EncodeCarState.sizes =
        [k \in 1..42 |-> IF k = 3 THEN 20 ELSE IF k \in {1, 2, 5} THEN 8 ELSE IF k = 22 THEN 66
                               ELSE IF k = 25 THEN 16 ELSE 4]
  BY SMT DEF EncodeCarState, Encoder, Times
<1>2. /\ DOMAIN EncodeCarState.ids = 1..42
      /\ \A j, k \in 1..42 : EncodeCarState.ids[j] = EncodeCarState.ids[k] => j = k
  BY SMT DEF EncodeCarState, Encoder, CAR_STATE_COLUMNS, Ids
<1>3. /\ EncodeCarState.ids = DecodeCarState.ids
      /\ EncodeCarState.sizes = DecodeCarState.sizes
  BY SMT DEF EncodeCarState, Encoder, CAR_STATE_COLUMNS, DecodeCarState, Decoder, Ids, Times
<1>4. \A k \in 1..42 : Width(CarStateSample, k) = EncodeCarState.sizes[k]
  BY SMT, <1>1, CarStateShape DEF Width
<1>5. EncodeCarState.sizes = [k \in 1..42 |-> Width(CarStateSample, k)]
  BY SMT, <1>1, <1>4
<1>6. EncodeCarState.pushed = CarStateSample
  BY DEF EncodeCarState, Encoder
<1>7. DOMAIN CarStateSample = 1..42
  BY CarStateShape
<1>8. QED
  BY <1>2, <1>3, <1>5, <1>6, <1>7, Zenon DEF ColumnsAgree

LEMMA EnvironmentAgree == ColumnsAgree(11, EnvironmentSample, EncodeEnvironment, DecodeEnvironment)
<1>1. EncodeEnvironment.sizes =
        [k \in 1..11 |-> IF k <= 2 THEN 8 ELSE 4]
  BY SMT DEF EncodeEnvironment, Encoder, Times
<1>2. /\ DOMAIN EncodeEnvironment.ids = 1..11
      /\ \A j, k \in 1..11 : EncodeEnvironment.ids[j] = EncodeEnvironment.ids[k] => j = k
  BY SMT DEF EncodeEnvironment, Encoder, ENVIRONMENT_COLUMNS, Ids
<1>3. /\ EncodeEnvironment.ids = DecodeEnvironment.ids
      /\ EncodeEnvironment.sizes = DecodeEnvironment.sizes
  BY SMT
     DEF EncodeEnvironment, Encoder, ENVIRONMENT_COLUMNS, DecodeEnvironment, Decoder, Ids,
         Times
<1>4. \A k \in 1..11 : Width(EnvironmentSample, k) = EncodeEnvironment.sizes[k]
  BY SMT, <1>1, EnvironmentShape DEF Width
<1>5. EncodeEnvironment.sizes = [k \in 1..11 |-> Width(EnvironmentSample, k)]
  BY SMT, <1>1, <1>4
<1>6. EncodeEnvironment.pushed = EnvironmentSample
  BY DEF EncodeEnvironment, Encoder
<1>7. DOMAIN EnvironmentSample = 1..11
  BY EnvironmentShape
<1>8. QED
  BY <1>2, <1>3, <1>5, <1>6, <1>7, Zenon DEF ColumnsAgree

LEMMA OtherCarsAgree == ColumnsAgree(6, OtherCarsSample, EncodeOtherCars, DecodeOtherCars)
<1>1. EncodeOtherCars.sizes =
        [k \in 1..6 |-> IF k <= 2 THEN 8 ELSE IF k = 5 THEN 720 ELSE IF k = 6 THEN 240 ELSE 4]
  BY SMT DEF EncodeOtherCars, Encoder, Times
<1>2. /\ DOMAIN EncodeOtherCars.ids = 1..6
      /\ \A j, k \in 1..6 : EncodeOtherCars.ids[j] = EncodeOtherCars.ids[k] => j = k
  BY SMT DEF EncodeOtherCars, Encoder, OTHER_CARS_COLUMNS, Ids
<1>3. /\ EncodeOtherCars.ids = DecodeOtherCars.ids
      /\ EncodeOtherCars.sizes = DecodeOtherCars.sizes
  BY SMT DEF EncodeOtherCars, Encoder, OTHER_CARS_COLUMNS, DecodeOtherCars, Decoder, Ids, Times
<1>4. \A k \in 1..6 : Width(OtherCarsSample, k) = EncodeOtherCars.sizes[k]
  BY SMT, <1>1, OtherCarsShape DEF Width
<1>5. EncodeOtherCars.sizes = [k \in 1..6 |-> Width(OtherCarsSample, k)]
  BY SMT, <1>1, <1>4
<1>6. EncodeOtherCars.pushed = OtherCarsSample
  BY DEF EncodeOtherCars, Encoder
<1>7. DOMAIN OtherCarsSample = 1..6
  BY OtherCarsShape
<1>8. QED
  BY <1>2, <1>3, <1>5, <1>6, <1>7, Zenon DEF ColumnsAgree

LEMMA FrameHasNine ==
  FrameClusters = {"controls", "motion", "tyres", "powertrain", "session", "timing",
                   "car_state", "environment", "other_cars"}
BY DEF FrameClusters, Sample

LEMMA TablesAgree ==
  \A c \in FrameClusters : \E n \in Nat : ColumnsAgree(n, Sample[c], Encode[c], Decode[c])
<1> SUFFICES ASSUME NEW c \in FrameClusters
             PROVE  \E n \in Nat : ColumnsAgree(n, Sample[c], Encode[c], Decode[c])
  OBVIOUS
<1>1. CASE c = "controls"
  BY <1>1, ControlsAgree DEF Sample, Encode, Decode
<1>2. CASE c = "motion"
  BY <1>2, MotionAgree DEF Sample, Encode, Decode
<1>3. CASE c = "tyres"
  BY <1>3, TyresAgree DEF Sample, Encode, Decode
<1>4. CASE c = "powertrain"
  BY <1>4, PowertrainAgree DEF Sample, Encode, Decode
<1>5. CASE c = "session"
  BY <1>5, SessionAgree DEF Sample, Encode, Decode
<1>6. CASE c = "timing"
  BY <1>6, TimingAgree DEF Sample, Encode, Decode
<1>7. CASE c = "car_state"
  BY <1>7, CarStateAgree DEF Sample, Encode, Decode
<1>8. CASE c = "environment"
  BY <1>8, EnvironmentAgree DEF Sample, Encode, Decode
<1>9. CASE c = "other_cars"
  BY <1>9, OtherCarsAgree DEF Sample, Encode, Decode
<1>10. QED
  BY <1>1, <1>2, <1>3, <1>4, <1>5, <1>6, <1>7, <1>8, <1>9, FrameHasNine

(* Since the columns' ids differ, find_column comes to the column of the   *)
(* same place in the list; and since the sizes are the widths of what is   *)
(* pushed, the places computed from them are the same sums.                *)
THEOREM ChunksGiveBack == \A n \in Nat : ChunkGivesBack(n)
<1> SUFFICES ASSUME NEW n \in Nat, NEW c \in FrameClusters, NEW k \in FieldsOf(c), NEW i \in 1..n
             PROVE  ColumnBytes(c, n, k, i) = PushedBytes(c, n, k, i)
  BY DEF ChunkGivesBack
<1> DEFINE sizes == Encode[c].sizes
           widths == [j \in FieldsOf(c) |-> Encode[c].pushed[j].lanes * Encode[c].pushed[j].width]
           found == {j \in DOMAIN Encode[c].ids : Encode[c].ids[j] = Decode[c].ids[k]}
           first == CHOOSE j \in found : \A m \in found : j <= m
           column == ColumnEntry(sizes, n, first)
<1>1. PICK count \in Nat : ColumnsAgree(count, Sample[c], Encode[c], Decode[c])
  BY TablesAgree
<1>2. FieldsOf(c) = 1..count
  BY <1>1 DEF ColumnsAgree, FieldsOf
<1>3. widths = sizes
  BY <1>1, <1>2 DEF ColumnsAgree, Width
<1>4. found = {k}
  BY <1>1, <1>2 DEF ColumnsAgree
<1>5. first = k
  BY <1>2, <1>4
<1>6. Decode[c].sizes[k] = sizes[k]
  BY <1>1 DEF ColumnsAgree
<1> HIDE DEF sizes, widths, found, first
<1>7. column = Bytes(n * SumBefore(sizes, k), n * sizes[k])
  BY <1>5 DEF ColumnEntry
<1>8. column.len = n * sizes[k] /\ column.at = n * SumBefore(sizes, k)
  BY <1>7 DEF Bytes
<1>9. PushedBytes(c, n, k, i) = Bytes(n * SumBefore(widths, k) + (i - 1) * widths[k], widths[k])
  BY DEF PushedBytes, widths
<1>10. ColumnBytes(c, n, k, i) =
         IF found = {} THEN NoBytes
         ELSE IF column.len # n * Decode[c].sizes[k] THEN NoBytes
         ELSE Bytes(column.at + (i - 1) * Decode[c].sizes[k], Decode[c].sizes[k])
  BY SMTT(30) DEF ColumnBytes, found, first, sizes
<1> HIDE DEF column
<1>11. QED
  <2>1. found # {}
    BY <1>4
  <2>2. ColumnBytes(c, n, k, i) = Bytes(column.at + (i - 1) * sizes[k], sizes[k])
    BY <1>6, <1>8, <1>10, <2>1, Zenon
  <2>3. QED
    BY <1>3, <1>8, <1>9, <2>2, Zenon

-----------------------------------------------------------------------------
(* The groups of the V2 file.                                              *)
(* What the lists of a row group have to agree on, for one field.          *)
RowAgrees(c, k) ==
  LET source == Build[c][k]
  IN  /\ source.id = ColumnOf[c][k]
      /\ source.id \in SchemaColumns(source.group)
      /\ source.group \in RangeGroups[c]
      /\ \/ source.kind = "val" /\ Sample[c][k].lanes = 1
         \/ source.kind # "val" /\ source.take = Sample[c][k].lanes

RowsAgree(c, n) ==
  \A k \in 1..n : Sample[c][k].name \notin NotRebuilt => RowAgrees(c, k)

LEMMA SchemaHas ==
  /\ \A id \in 1..4 : id \in SchemaColumns("FrameMeta")
  /\ \A id \in 10..17 \cup 60..81 : id \in SchemaColumns("DriverInputs")
  /\ \A id \in 20..26 : id \in SchemaColumns("VehicleDynamics")
  /\ \A id \in 30..58 : id \in SchemaColumns("Tyres")
  /\ \A id \in 93..94 \cup 96..99 \cup {108} \cup 120..138 : id \in SchemaColumns("Timing")
  /\ \A id \in 90..91 \cup {95} \cup 106..107 \cup 200..208 : id \in SchemaColumns("Environment")
  /\ \A id \in {92} \cup 100..105 \cup 109..119 \cup 150..189 \cup 210..213 :
       id \in SchemaColumns("ColdStorage")
BY SMT DEF SchemaColumns, ColumnGroup, AllIds

LEMMA ControlIds == ColumnOf["controls"] = [k \in 1..12 |-> IF k <= 4 THEN k ELSE k + 5]
BY SMT DEF ColumnOf, Ids

LEMMA MotionIds == ColumnOf["motion"] = [k \in 1..9 |-> IF k <= 2 THEN k ELSE k + 17]
BY SMT DEF ColumnOf, Ids

LEMMA TyreIds == ColumnOf["tyres"] = [k \in 1..31 |-> IF k <= 2 THEN k ELSE k + 27]
BY SMT DEF ColumnOf, Ids

LEMMA PowertrainIds == ColumnOf["powertrain"] = [k \in 1..24 |-> IF k <= 2 THEN k ELSE k + 57]
BY SMT DEF ColumnOf, Ids

LEMMA SessionIds == ColumnOf["session"] = [k \in 1..32 |-> IF k <= 2 THEN k ELSE k + 87]
BY SMT DEF ColumnOf, Ids

LEMMA TimingIds == ColumnOf["timing"] = [k \in 1..21 |-> IF k <= 2 THEN k ELSE k + 117]
BY SMT DEF ColumnOf, Ids

LEMMA CarStateIds == ColumnOf["car_state"] = [k \in 1..42 |-> IF k <= 2 THEN k ELSE k + 147]
BY SMT DEF ColumnOf, Ids

LEMMA EnvironmentIds == ColumnOf["environment"] = [k \in 1..11 |-> IF k <= 2 THEN k ELSE k + 197]
BY SMT DEF ColumnOf, Ids

LEMMA OtherCarsIds == ColumnOf["other_cars"] = [k \in 1..6 |-> IF k <= 2 THEN k ELSE k + 207]
BY SMT DEF ColumnOf, Ids

LEMMA ControlsRebuilt == RowsAgree("controls", 12)
<1> SUFFICES ASSUME NEW k \in 1..12, ControlSample[k].name \notin NotRebuilt
             PROVE  RowAgrees("controls", k)
  BY DEF RowsAgree, Sample
<1>1. /\ BuildControls[k].id = IF k <= 4 THEN k ELSE k + 5
      /\ BuildControls[k].group \in RangeGroups["controls"]
  BY SMT DEF BuildControls, FrameStamps, Vals, Val, RangeGroups
<1>2. \/ BuildControls[k].kind = "val" /\ ControlSample[k].lanes = 1
      \/ BuildControls[k].kind # "val" /\ BuildControls[k].take = ControlSample[k].lanes
  BY SMT, ControlShape DEF BuildControls, FrameStamps, Vals, Val
<1>3. BuildControls[k].id \in SchemaColumns(BuildControls[k].group)
  BY SMT, SchemaHas DEF BuildControls, FrameStamps, Vals, Val
<1>4. QED
  BY <1>1, <1>2, <1>3, ControlIds, SMT DEF RowAgrees, Build, Sample

LEMMA MotionRebuilt == RowsAgree("motion", 9)
<1> SUFFICES ASSUME NEW k \in 1..9, MotionSample[k].name \notin NotRebuilt
             PROVE  RowAgrees("motion", k)
  BY DEF RowsAgree, Sample
<1>1. /\ BuildMotion[k].id = IF k <= 2 THEN k ELSE k + 17
      /\ BuildMotion[k].group \in RangeGroups["motion"]
  BY SMT DEF BuildMotion, FrameStamps, Vals, Val, Rows, Row, RangeGroups
<1>2. \/ BuildMotion[k].kind = "val" /\ MotionSample[k].lanes = 1
      \/ BuildMotion[k].kind # "val" /\ BuildMotion[k].take = MotionSample[k].lanes
  BY SMT, MotionShape DEF BuildMotion, FrameStamps, Vals, Val, Rows, Row
<1>3. BuildMotion[k].id \in SchemaColumns(BuildMotion[k].group)
  BY SMT, SchemaHas DEF BuildMotion, FrameStamps, Vals, Val, Rows, Row
<1>4. QED
  BY <1>1, <1>2, <1>3, MotionIds, SMT DEF RowAgrees, Build, Sample

LEMMA TyresRebuilt == RowsAgree("tyres", 31)
<1> SUFFICES ASSUME NEW k \in 1..31, TyreSample[k].name \notin NotRebuilt
             PROVE  RowAgrees("tyres", k)
  BY DEF RowsAgree, Sample
<1>1. /\ BuildTyres[k].id = IF k <= 2 THEN k ELSE k + 27
      /\ BuildTyres[k].group \in RangeGroups["tyres"]
  BY SMT DEF BuildTyres, FrameStamps, Vals, Val, Rows, Row, RangeGroups
<1>2. \/ BuildTyres[k].kind = "val" /\ TyreSample[k].lanes = 1
      \/ BuildTyres[k].kind # "val" /\ BuildTyres[k].take = TyreSample[k].lanes
  BY SMT, TyreShape DEF BuildTyres, FrameStamps, Vals, Val, Rows, Row
<1>3. BuildTyres[k].id \in SchemaColumns(BuildTyres[k].group)
  BY SMT, SchemaHas DEF BuildTyres, FrameStamps, Vals, Val, Rows, Row
<1>4. QED
  BY <1>1, <1>2, <1>3, TyreIds, SMT DEF RowAgrees, Build, Sample

LEMMA PowertrainRebuilt == RowsAgree("powertrain", 24)
<1> SUFFICES ASSUME NEW k \in 1..24, PowertrainSample[k].name \notin NotRebuilt
             PROVE  RowAgrees("powertrain", k)
  BY DEF RowsAgree, Sample
<1>1. /\ BuildPowertrain[k].id = IF k <= 2 THEN k ELSE k + 57
      /\ BuildPowertrain[k].group \in RangeGroups["powertrain"]
  BY SMT DEF BuildPowertrain, FrameStamps, Vals, Val, RangeGroups
<1>2. \/ BuildPowertrain[k].kind = "val" /\ PowertrainSample[k].lanes = 1
      \/ BuildPowertrain[k].kind # "val" /\ BuildPowertrain[k].take = PowertrainSample[k].lanes
  BY SMT, PowertrainShape DEF BuildPowertrain, FrameStamps, Vals, Val
<1>3. BuildPowertrain[k].id \in SchemaColumns(BuildPowertrain[k].group)
  BY SMT, SchemaHas DEF BuildPowertrain, FrameStamps, Vals, Val
<1>4. QED
  BY <1>1, <1>2, <1>3, PowertrainIds, SMT DEF RowAgrees, Build, Sample

LEMMA SessionRebuilt == RowsAgree("session", 32)
<1> SUFFICES ASSUME NEW k \in 1..32, SessionSample[k].name \notin NotRebuilt
             PROVE  RowAgrees("session", k)
  BY DEF RowsAgree, Sample
<1>1. /\ BuildSession[k].id = IF k <= 2 THEN k ELSE k + 87
      /\ BuildSession[k].group \in RangeGroups["session"]
  BY SMTT(30) DEF BuildSession, FrameStamps, Vals, Val, Row, RangeGroups
<1>2. \/ BuildSession[k].kind = "val" /\ SessionSample[k].lanes = 1
      \/ BuildSession[k].kind # "val" /\ BuildSession[k].take = SessionSample[k].lanes
  BY SMTT(30), SessionShape DEF BuildSession, FrameStamps, Vals, Val, Row
<1>3. BuildSession[k].id \in SchemaColumns(BuildSession[k].group)
  BY SMT, SchemaHas DEF BuildSession, FrameStamps, Vals, Val, Row
<1>4. QED
  BY <1>1, <1>2, <1>3, SessionIds, SMT DEF RowAgrees, Build, Sample

LEMMA TimingRebuilt == RowsAgree("timing", 21)
<1> SUFFICES ASSUME NEW k \in 1..21, TimingSample[k].name \notin NotRebuilt
             PROVE  RowAgrees("timing", k)
  BY DEF RowsAgree, Sample
<1>1. /\ BuildTiming[k].id = IF k <= 2 THEN k ELSE k + 117
      /\ BuildTiming[k].group \in RangeGroups["timing"]
  BY SMTT(30)
     DEF BuildTiming, FrameStamps, Vals, Val, Row, Times, Zeroed, NotRebuilt,
         TimingSample, Stamps, Words, Text, Fields, RangeGroups
<1>2. \/ BuildTiming[k].kind = "val" /\ TimingSample[k].lanes = 1
      \/ BuildTiming[k].kind # "val" /\ BuildTiming[k].take = TimingSample[k].lanes
  BY SMTT(30), TimingShape
     DEF BuildTiming, FrameStamps, Vals, Val, Row, Times, Zeroed, NotRebuilt,
         TimingSample, Stamps, Words, Text, Fields
<1>3. BuildTiming[k].id \in SchemaColumns(BuildTiming[k].group)
  BY SMT, SchemaHas
     DEF BuildTiming, FrameStamps, Vals, Val, Row, Times, Zeroed, NotRebuilt,
         TimingSample, Stamps, Words, Text, Fields
<1>4. QED
  BY <1>1, <1>2, <1>3, TimingIds, SMT DEF RowAgrees, Build, Sample

LEMMA CarStateRebuilt == RowsAgree("car_state", 42)
<1> SUFFICES ASSUME NEW k \in 1..42, CarStateSample[k].name \notin NotRebuilt
             PROVE  RowAgrees("car_state", k)
  BY DEF RowsAgree, Sample
<1>1. /\ BuildCarState[k].id = IF k <= 2 THEN k ELSE k + 147
      /\ BuildCarState[k].group \in RangeGroups["car_state"]
  BY SMT DEF BuildCarState, FrameStamps, Vals, Val, Row, RangeGroups
<1>2. \/ BuildCarState[k].kind = "val" /\ CarStateSample[k].lanes = 1
      \/ BuildCarState[k].kind # "val" /\ BuildCarState[k].take = CarStateSample[k].lanes
  BY SMT, CarStateShape DEF BuildCarState, FrameStamps, Vals, Val, Row
<1>3. BuildCarState[k].id \in SchemaColumns(BuildCarState[k].group)
  BY SMT, SchemaHas DEF BuildCarState, FrameStamps, Vals, Val, Row
<1>4. QED
  BY <1>1, <1>2, <1>3, CarStateIds, SMT DEF RowAgrees, Build, Sample

LEMMA EnvironmentRebuilt == RowsAgree("environment", 11)
<1> SUFFICES ASSUME NEW k \in 1..11, EnvironmentSample[k].name \notin NotRebuilt
             PROVE  RowAgrees("environment", k)
  BY DEF RowsAgree, Sample
<1>1. /\ BuildEnvironment[k].id = IF k <= 2 THEN k ELSE k + 197
      /\ BuildEnvironment[k].group \in RangeGroups["environment"]
  BY SMT DEF BuildEnvironment, FrameStamps, Vals, Val, RangeGroups
<1>2. \/ BuildEnvironment[k].kind = "val" /\ EnvironmentSample[k].lanes = 1
      \/ BuildEnvironment[k].kind # "val" /\ BuildEnvironment[k].take = EnvironmentSample[k].lanes
  BY SMT, EnvironmentShape DEF BuildEnvironment, FrameStamps, Vals, Val
<1>3. BuildEnvironment[k].id \in SchemaColumns(BuildEnvironment[k].group)
  BY SMT, SchemaHas DEF BuildEnvironment, FrameStamps, Vals, Val
<1>4. QED
  BY <1>1, <1>2, <1>3, EnvironmentIds, SMT DEF RowAgrees, Build, Sample

LEMMA OtherCarsRebuilt == RowsAgree("other_cars", 6)
<1> SUFFICES ASSUME NEW k \in 1..6, OtherCarsSample[k].name \notin NotRebuilt
             PROVE  RowAgrees("other_cars", k)
  BY DEF RowsAgree, Sample
<1>1. /\ BuildOtherCars[k].id = IF k <= 2 THEN k ELSE k + 207
      /\ BuildOtherCars[k].group \in RangeGroups["other_cars"]
  BY SMT DEF BuildOtherCars, FrameStamps, Vals, Val, Row, RangeGroups
<1>2. \/ BuildOtherCars[k].kind = "val" /\ OtherCarsSample[k].lanes = 1
      \/ BuildOtherCars[k].kind # "val" /\ BuildOtherCars[k].take = OtherCarsSample[k].lanes
  BY SMT, OtherCarsShape DEF BuildOtherCars, FrameStamps, Vals, Val, Row
<1>3. BuildOtherCars[k].id \in SchemaColumns(BuildOtherCars[k].group)
  BY SMT, SchemaHas DEF BuildOtherCars, FrameStamps, Vals, Val, Row
<1>4. QED
  BY <1>1, <1>2, <1>3, OtherCarsIds, SMT DEF RowAgrees, Build, Sample

(* The ids of a cluster's columns.  The stamps' columns, 1 and 2, are in   *)
(* every cluster; the others are the cluster's own.                        *)
OwnIds ==
  [controls    |-> 3..17,     motion      |-> 20..26,
   tyres       |-> 30..58,    powertrain  |-> 60..81,
   session     |-> 90..119,   timing      |-> 120..138,
   car_state   |-> 150..189,  environment |-> 200..208,
   other_cars  |-> 210..213]

IdsDiffer(c) ==
  /\ FieldsOf(c) \subseteq 1..50 /\ 1 \in FieldsOf(c) /\ 2 \in FieldsOf(c)
  /\ \A k \in 1..2 : ColumnOf[c][k] = k /\ Sample[c][k].lanes = 1
  /\ \A k \in FieldsOf(c) \ 1..2 : ColumnOf[c][k] \in OwnIds[c]
  /\ \A j, k \in FieldsOf(c) : ColumnOf[c][j] = ColumnOf[c][k] => j = k
  /\ \A k \in FieldsOf(c) : Sample[c][k].lanes \in Nat \ {0}

LEMMA ColumnsDiffer == \A c \in FrameClusters : IdsDiffer(c)
<1> SUFFICES ASSUME NEW c \in FrameClusters
             PROVE  IdsDiffer(c)
  OBVIOUS
<1>1. CASE c = "controls"
  BY <1>1, ControlShape, ControlIds, SMT DEF IdsDiffer, FieldsOf, Sample, OwnIds
<1>2. CASE c = "motion"
  BY <1>2, MotionShape, MotionIds, SMT DEF IdsDiffer, FieldsOf, Sample, OwnIds
<1>3. CASE c = "tyres"
  BY <1>3, TyreShape, TyreIds, SMT DEF IdsDiffer, FieldsOf, Sample, OwnIds
<1>4. CASE c = "powertrain"
  BY <1>4, PowertrainShape, PowertrainIds, SMT DEF IdsDiffer, FieldsOf, Sample, OwnIds
<1>5. CASE c = "session"
  BY <1>5, SessionShape, SessionIds, SMT DEF IdsDiffer, FieldsOf, Sample, OwnIds
<1>6. CASE c = "timing"
  BY <1>6, TimingShape, TimingIds, SMT DEF IdsDiffer, FieldsOf, Sample, OwnIds
<1>7. CASE c = "car_state"
  BY <1>7, CarStateShape, CarStateIds, SMTT(30) DEF IdsDiffer, FieldsOf, Sample, OwnIds
<1>8. CASE c = "environment"
  BY <1>8, EnvironmentShape, EnvironmentIds, SMT DEF IdsDiffer, FieldsOf, Sample, OwnIds
<1>9. CASE c = "other_cars"
  BY <1>9, OtherCarsShape, OtherCarsIds, SMT DEF IdsDiffer, FieldsOf, Sample, OwnIds
<1>10. QED
  BY <1>1, <1>2, <1>3, <1>4, <1>5, <1>6, <1>7, <1>8, <1>9, FrameHasNine

LEMMA RangesApart ==
  ASSUME NEW c \in FrameClusters, NEW d \in FrameClusters, c # d,
         NEW x \in OwnIds[c], NEW y \in OwnIds[d]
  PROVE  x # y
BY FrameHasNine, SMT DEF OwnIds

LEMMA RangeAboveStamps ==
  ASSUME NEW c \in FrameClusters, NEW x \in OwnIds[c]
  PROVE  x \in Nat /\ x > 2
BY FrameHasNine, SMT DEF OwnIds

(* A column belongs to one field only, or to a stamp.                      *)
LEMMA OneOwner ==
  ASSUME NEW c \in FrameClusters, NEW k \in FieldsOf(c),
         NEW d \in FrameClusters, NEW j \in FieldsOf(d), ColumnOf[d][j] = ColumnOf[c][k]
  PROVE  j = k /\ (c = d \/ k \in 1..2)
<1>1. IdsDiffer(c) /\ IdsDiffer(d)
  BY ColumnsDiffer
<1>2. CASE c = d
  BY <1>1, <1>2 DEF IdsDiffer
<1>3. CASE c # d
  <2>1. CASE k \in 1..2 /\ j \in 1..2
    BY <1>1, <2>1 DEF IdsDiffer
  <2>2. CASE k \in 1..2 /\ j \notin 1..2
    BY <1>1, <2>2, RangeAboveStamps DEF IdsDiffer
  <2>3. CASE k \notin 1..2 /\ j \in 1..2
    BY <1>1, <2>3, RangeAboveStamps DEF IdsDiffer
  <2>4. CASE k \notin 1..2 /\ j \notin 1..2
    BY <1>1, <1>3, <2>4, RangesApart DEF IdsDiffer
  <2>5. QED
    BY <2>1, <2>2, <2>3, <2>4
<1>4. QED
  BY <1>2, <1>3

LEMMA LanesOfColumn ==
  ASSUME NEW c \in FrameClusters, NEW k \in FieldsOf(c)
  PROVE  Lanes(ColumnOf[c][k]) = Sample[c][k].lanes /\ Lanes(ColumnOf[c][k]) \in Nat \ {0}
<1> DEFINE Owns(o) == o[2] \in FieldsOf(o[1]) /\ ColumnOf[o[1]][o[2]] = ColumnOf[c][k]
           pairs == {<<d, j>> : d \in FrameClusters, j \in 1..50}
           owner == CHOOSE o \in pairs : Owns(o)
<1>1. <<c, k>> \in pairs /\ Owns(<<c, k>>)
  <2>1. k \in 1..50
    BY ColumnsDiffer DEF IdsDiffer
  <2>2. QED
    BY <2>1
<1> HIDE DEF Owns, pairs
<1>2. owner \in pairs /\ Owns(owner)
  BY <1>1
<1>3. Lanes(ColumnOf[c][k]) = Sample[owner[1]][owner[2]].lanes
  BY DEF Lanes, Owns, pairs
<1> HIDE DEF owner
<1>4. owner[1] \in FrameClusters /\ owner[2] \in FieldsOf(owner[1])
      /\ ColumnOf[owner[1]][owner[2]] = ColumnOf[c][k]
  <2>1. owner[1] \in FrameClusters
    BY <1>2 DEF pairs
  <2>2. QED
    BY <1>2, <2>1 DEF Owns
<1>5. owner[2] = k /\ (c = owner[1] \/ k \in 1..2)
  BY <1>4, OneOwner
<1>6. Sample[owner[1]][owner[2]].lanes = Sample[c][k].lanes
  BY <1>4, <1>5, ColumnsDiffer DEF IdsDiffer
<1>7. QED
  BY <1>3, <1>6, ColumnsDiffer DEF IdsDiffer

LEMMA Share ==
  ASSUME NEW n \in Nat \ {0}, NEW l \in Nat
  PROVE  (n * l) \div n = l
BY Z3

LEMMA RowOfShares ==
  ASSUME NEW l \in Nat, NEW i \in Nat \ {0}
  PROVE  {(i - 1) * l + j : j \in 1..l} = OwnPlaces(l, i)
<1> DEFINE p == (i - 1) * l
<1>1. p \in Nat /\ i * l = p + l
  BY Z3
<1> HIDE DEF p
<1>2. {p + j : j \in 1..l} = (p + 1)..(p + l)
  <2>1. ASSUME NEW x \in (p + 1)..(p + l)
        PROVE  \E j \in 1..l : x = p + j
    <3>1. x - p \in 1..l /\ x = p + (x - p)
      BY <1>1
    <3>2. QED
      BY <3>1
  <2>2. \A j \in 1..l : p + j \in (p + 1)..(p + l)
    BY <1>1
  <2>3. QED
    BY <2>1, <2>2
<1>3. QED
  BY <1>1, <1>2 DEF p, OwnPlaces

LEMMA AllRowsAgree ==
  ASSUME NEW c \in FrameClusters, NEW k \in FieldsOf(c), Sample[c][k].name \notin NotRebuilt
  PROVE  RowAgrees(c, k)
<1>1. CASE c = "controls"
  BY <1>1, ControlShape, ControlsRebuilt DEF RowsAgree, FieldsOf, Sample
<1>2. CASE c = "motion"
  BY <1>2, MotionShape, MotionRebuilt DEF RowsAgree, FieldsOf, Sample
<1>3. CASE c = "tyres"
  BY <1>3, TyreShape, TyresRebuilt DEF RowsAgree, FieldsOf, Sample
<1>4. CASE c = "powertrain"
  BY <1>4, PowertrainShape, PowertrainRebuilt DEF RowsAgree, FieldsOf, Sample
<1>5. CASE c = "session"
  BY <1>5, SessionShape, SessionRebuilt DEF RowsAgree, FieldsOf, Sample
<1>6. CASE c = "timing"
  BY <1>6, TimingShape, TimingRebuilt DEF RowsAgree, FieldsOf, Sample
<1>7. CASE c = "car_state"
  BY <1>7, CarStateShape, CarStateRebuilt DEF RowsAgree, FieldsOf, Sample
<1>8. CASE c = "environment"
  BY <1>8, EnvironmentShape, EnvironmentRebuilt DEF RowsAgree, FieldsOf, Sample
<1>9. CASE c = "other_cars"
  BY <1>9, OtherCarsShape, OtherCarsRebuilt DEF RowsAgree, FieldsOf, Sample
<1>10. QED
  BY <1>1, <1>2, <1>3, <1>4, <1>5, <1>6, <1>7, <1>8, <1>9, FrameHasNine

(* What GroupColumns writes of any number of rows is read back from every  *)
(* lane of every field: each field comes from the column the decoder names *)
(* by id, or from the one column it is built from.                         *)
THEOREM RowsGiveBack ==
  ASSUME NEW n \in Nat \ {0}, NEW c \in FrameClusters, NEW k \in FieldsOf(c),
         Sample[c][k].name \notin NotRebuilt, NEW i \in 1..n
  PROVE  RebuiltFrom(c, k, n, i)
<1> DEFINE source == Build[c][k]
           lanes == Sample[c][k].lanes
           share == (n * Lanes(source.id)) \div n
<1>1. RowAgrees(c, k)
  BY AllRowsAgree
<1>2. Lanes(source.id) = lanes /\ lanes \in Nat \ {0}
  BY <1>1, LanesOfColumn DEF RowAgrees
<1>3. share = lanes
  BY <1>2, Share
<1>4. source.id = ColumnOf[c][k] /\ source.id \in SchemaColumns(source.group)
      /\ source.group \in RangeGroups[c]
  BY <1>1 DEF RowAgrees
<1>5. \/ source.kind = "val" /\ lanes = 1
      \/ source.kind # "val" /\ source.take = lanes
  BY <1>1 DEF RowAgrees
<1>6. Places(source, n, i) =
        IF source.kind = "val" THEN {i}
        ELSE {(i - 1) * share + j : j \in 1..(IF share < source.take THEN share ELSE source.take)}
  BY DEF Places
<1>7. RebuiltFrom(c, k, n, i) <=> Places(source, n, i) = OwnPlaces(lanes, i)
  BY <1>4 DEF RebuiltFrom
<1> HIDE DEF source, lanes, share
<1>8. Places(source, n, i) = OwnPlaces(lanes, i)
  <2>1. CASE source.kind = "val" /\ lanes = 1
    BY <1>6, <2>1 DEF OwnPlaces
  <2>2. CASE source.kind # "val" /\ source.take = lanes
    <3>1. Places(source, n, i) = {(i - 1) * lanes + j : j \in 1..lanes}
      BY <1>3, <1>6, <2>2
    <3>2. lanes \in Nat /\ i \in Nat \ {0}
      BY <1>2
    <3>3. QED
      BY <3>1, <3>2, RowOfShares
  <2>3. QED
    BY <1>5, <2>1, <2>2
<1>9. QED
  BY <1>7, <1>8

-----------------------------------------------------------------------------
(* The names of the items.                                                 *)
(* The names of a cluster's fields, after the stamps.                      *)
ControlNames ==
  {"physics_packet_id", "graphics_packet_id", "speed_kmh", "gas",
   "brake", "clutch", "steer_angle", "gear", "rpms", "fuel"}

MotionNames ==
  {"velocity", "acc_g", "local_velocity", "local_angular_vel",
   "heading", "pitch", "roll"}

TyreNames ==
  {"wheel_slip", "wheel_load", "wheels_pressure",
   "wheel_angular_speed", "tyre_wear", "tyre_dirty_level",
   "tyre_core_temperature", "camber_rad", "suspension_travel",
   "slip_ratio", "slip_angle", "tyre_temp_i", "tyre_temp_m",
   "tyre_temp_o", "tyre_temp", "mz", "fx", "fy", "suspension_damage",
   "brake_temp", "brake_pressure", "pad_life", "disc_life",
   "tyre_contact_point", "tyre_contact_normal",
   "tyre_contact_heading", "number_of_tyres_out",
   "front_brake_compound", "rear_brake_compound"}

PowertrainNames ==
  {"turbo_boost", "ballast", "kers_charge", "kers_input",
   "kers_current_kj", "drs", "tc", "abs", "engine_brake",
   "ers_recovery_level", "ers_power_level", "ers_heat_charging",
   "ers_is_charging", "drs_available", "drs_enabled", "tc_in_action",
   "abs_in_action", "auto_shifter_on", "current_max_rpm",
   "p2p_activations", "p2p_status", "water_temp"}

SessionNames ==
  {"status", "session", "session_index", "completed_laps",
   "position", "session_time_left", "number_of_laps",
   "current_sector_index", "normalized_car_position", "is_in_pit",
   "is_in_pit_lane", "mandatory_pit_done", "missing_mandatory_pits",
   "penalty_time", "penalty_type", "track_status", "clock",
   "replay_time_multiplier", "is_valid_lap", "global_yellow",
   "global_yellow1", "global_yellow2", "global_yellow3",
   "global_white", "global_green", "global_chequered", "global_red",
   "gap_ahead_or_tail_value", "flag", "gap_behind"}

TimingNames ==
  {"i_current_time", "i_last_time", "i_best_time", "i_split",
   "last_sector_time", "i_delta_lap_time", "is_delta_positive",
   "i_estimated_lap_time", "fuel_estimated_laps", "fuel_x_lap",
   "used_fuel", "distance_traveled", "current_time_str",
   "last_time_str", "best_time_str", "split_str",
   "delta_lap_time_str", "estimated_lap_time_str",
   "observed_slot_before_i_split"}

CarStateNames ==
  {"car_damage", "pit_limiter_on", "ride_height", "ignition_on",
   "starter_engine_on", "is_engine_running", "is_ai_controlled",
   "cg_height", "brake_bias", "rain_lights", "flashing_lights",
   "lights_stage", "wiper_lv", "driver_stint_total_time_left",
   "driver_stint_time_left", "rain_tyres", "current_tyre_set",
   "strategy_tyre_set", "track_grip_status", "tyre_compound_str",
   "mfd_tyre_set", "mfd_fuel_to_add", "mfd_tyre_pressure",
   "ideal_line_on", "is_setup_menu_visible", "main_display_index",
   "secondary_display_index", "direction_lights_left",
   "direction_lights_right", "tc_level", "tc_cut", "engine_map",
   "abs_level", "exhaust_temperature", "final_ff",
   "performance_meter", "kerb_vibration", "slip_vibrations",
   "g_vibrations", "abs_vibrations"}

EnvironmentNames ==
  {"air_density", "air_temp", "road_temp", "wind_speed",
   "wind_direction", "surface_grip", "rain_intensity",
   "rain_intensity_in_10min", "rain_intensity_in_30min"}

OtherCarsNames ==
  {"active_cars", "player_car_id", "car_coordinates", "car_id"}

NamesOf ==
  [controls |-> ControlNames,
   motion |-> MotionNames,
   tyres |-> TyreNames,
   powertrain |-> PowertrainNames,
   session |-> SessionNames,
   timing |-> TimingNames,
   car_state |-> CarStateNames,
   environment |-> EnvironmentNames,
   other_cars |-> OtherCarsNames]

NamesAgree(sample, names) ==
  /\ sample[1].name = "sample_tick" /\ sample[2].name = "timestamp_ns"
  /\ \A k \in DOMAIN sample \ 1..2 : sample[k].name \in names
  /\ \A j, k \in DOMAIN sample : sample[j].name = sample[k].name => j = k

LEMMA ControlNamed == NamesAgree(ControlSample, ControlNames)
BY SMTT(30), ControlShape DEF NamesAgree, ControlNames, ControlSample, Stamps, Words, Fields

LEMMA MotionNamed == NamesAgree(MotionSample, MotionNames)
BY SMTT(30), MotionShape DEF NamesAgree, MotionNames, MotionSample, Stamps, Words, Floats, Fields

LEMMA TyreNamed == NamesAgree(TyreSample, TyreNames)
<1>1. TyreSample[1].name = "sample_tick" /\ TyreSample[2].name = "timestamp_ns"
  BY SMT DEF TyreSample, Stamps, Words, Floats, Fields
<1>2. \A k \in 3..31 : TyreSample[k].name \in TyreNames
  BY SMT DEF TyreNames, TyreSample, Stamps, Words, Floats, Fields
<1>3. \A j, k \in 1..31 : TyreSample[j].name = TyreSample[k].name => j = k
  BY SMTT(30) DEF TyreSample, Stamps, Words, Floats, Fields
<1>4. DOMAIN TyreSample = 1..31 /\ (1..31) \ (1..2) = 3..31
  BY TyreShape
<1>5. QED
  BY <1>1, <1>2, <1>3, <1>4 DEF NamesAgree

LEMMA PowertrainNamed == NamesAgree(PowertrainSample, PowertrainNames)
<1>1. PowertrainSample[1].name = "sample_tick" /\ PowertrainSample[2].name = "timestamp_ns"
  BY SMT DEF PowertrainSample, Stamps, Words, Fields
<1>2. \A k \in 3..24 : PowertrainSample[k].name \in PowertrainNames
  BY SMT DEF PowertrainNames, PowertrainSample, Stamps, Words, Fields
<1>3. \A j, k \in 1..24 : PowertrainSample[j].name = PowertrainSample[k].name => j = k
  BY SMT DEF PowertrainSample, Stamps, Words, Fields
<1>4. DOMAIN PowertrainSample = 1..24 /\ (1..24) \ (1..2) = 3..24
  BY SMTT(30), PowertrainShape
<1>5. QED
  BY <1>1, <1>2, <1>3, <1>4 DEF NamesAgree

LEMMA SessionNamed == NamesAgree(SessionSample, SessionNames)
<1>1. SessionSample[1].name = "sample_tick" /\ SessionSample[2].name = "timestamp_ns"
  BY SMT DEF SessionSample, Stamps, Words, Text, Fields
<1>2. \A k \in 3..32 : SessionSample[k].name \in SessionNames
  BY SMT DEF SessionNames, SessionSample, Stamps, Words, Text, Fields
<1>3. \A j, k \in 1..32 : SessionSample[j].name = SessionSample[k].name => j = k
  BY SMT DEF SessionSample, Stamps, Words, Text, Fields
<1>4. DOMAIN SessionSample = 1..32 /\ (1..32) \ (1..2) = 3..32
  BY SMTT(30), SessionShape
<1>5. QED
  BY <1>1, <1>2, <1>3, <1>4 DEF NamesAgree

LEMMA TimingNamed == NamesAgree(TimingSample, TimingNames)
<1>1. TimingSample[1].name = "sample_tick" /\ TimingSample[2].name = "timestamp_ns"
  BY SMT DEF TimingSample, Stamps, Words, Text, Fields
<1>2. \A k \in 3..21 : TimingSample[k].name \in TimingNames
  BY SMT DEF TimingNames, TimingSample, Stamps, Words, Text, Fields
<1>3. \A j, k \in 1..21 : TimingSample[j].name = TimingSample[k].name => j = k
  BY SMT DEF TimingSample, Stamps, Words, Text, Fields
<1>4. DOMAIN TimingSample = 1..21 /\ (1..21) \ (1..2) = 3..21
  BY SMTT(30), TimingShape
<1>5. QED
  BY <1>1, <1>2, <1>3, <1>4 DEF NamesAgree

LEMMA CarStateNamed == NamesAgree(CarStateSample, CarStateNames)
<1>1. CarStateSample[1].name = "sample_tick" /\ CarStateSample[2].name = "timestamp_ns"
  BY SMTT(30) DEF CarStateSample, Stamps, Words, Floats, Text, Fields
<1>2. \A k \in 3..42 : CarStateSample[k].name \in CarStateNames
  BY SMTT(30) DEF CarStateNames, CarStateSample, Stamps, Words, Floats, Text, Fields
<1>3. \A j, k \in 1..42 : CarStateSample[j].name = CarStateSample[k].name => j = k
  BY SMTT(30) DEF CarStateSample, Stamps, Words, Floats, Text, Fields
<1>4. DOMAIN CarStateSample = 1..42 /\ (1..42) \ (1..2) = 3..42
  BY CarStateShape
<1>5. QED
  BY ZenonT(30), <1>1, <1>2, <1>3, <1>4 DEF NamesAgree

LEMMA EnvironmentNamed == NamesAgree(EnvironmentSample, EnvironmentNames)
BY SMTT(30), EnvironmentShape
   DEF NamesAgree, EnvironmentNames, EnvironmentSample, Stamps, Words, Fields

LEMMA OtherCarsNamed == NamesAgree(OtherCarsSample, OtherCarsNames)
BY SMT, OtherCarsShape
   DEF NamesAgree, OtherCarsNames, OtherCarsSample, Stamps, Words, Vector, Fields

LEMMA AllNamed == \A c \in FrameClusters : NamesAgree(Sample[c], NamesOf[c])
<1> SUFFICES ASSUME NEW c \in FrameClusters
             PROVE  NamesAgree(Sample[c], NamesOf[c])
  OBVIOUS
<1>1. CASE c = "controls"
  BY <1>1, ControlNamed DEF Sample, NamesOf
<1>2. CASE c = "motion"
  BY <1>2, MotionNamed DEF Sample, NamesOf
<1>3. CASE c = "tyres"
  BY <1>3, TyreNamed DEF Sample, NamesOf
<1>4. CASE c = "powertrain"
  BY <1>4, PowertrainNamed DEF Sample, NamesOf
<1>5. CASE c = "session"
  BY <1>5, SessionNamed DEF Sample, NamesOf
<1>6. CASE c = "timing"
  BY <1>6, TimingNamed DEF Sample, NamesOf
<1>7. CASE c = "car_state"
  BY <1>7, CarStateNamed DEF Sample, NamesOf
<1>8. CASE c = "environment"
  BY <1>8, EnvironmentNamed DEF Sample, NamesOf
<1>9. CASE c = "other_cars"
  BY <1>9, OtherCarsNamed DEF Sample, NamesOf
<1>10. QED
  BY <1>1, <1>2, <1>3, <1>4, <1>5, <1>6, <1>7, <1>8, <1>9, FrameHasNine

(* The names that are no field's own. *)
OtherNames == {"sample_tick", "timestamp_ns", "tc_physics", "abs_physics"}

LEMMA NotOther ==
  \A c \in FrameClusters : NamesOf[c] \cap OtherNames = {}
BY FrameHasNine, SMT
   DEF NamesOf, OtherNames, ControlNames, MotionNames, TyreNames, PowertrainNames,
   SessionNames, TimingNames, CarStateNames, EnvironmentNames, OtherCarsNames

LEMMA NamesApart ==
  \A c, d \in FrameClusters : c # d => NamesOf[c] \cap NamesOf[d] = {}
BY FrameHasNine, SMTT(60) DEF NamesOf, ControlNames, MotionNames, TyreNames, PowertrainNames,
   SessionNames, TimingNames, CarStateNames, EnvironmentNames, OtherCarsNames

LEMMA PathIs ==
  ASSUME NEW c, NEW k
  PROVE  \/ PathName(c, k) = "tc_physics" /\ ColumnOf[c][k] = 66
         \/ PathName(c, k) = "abs_physics" /\ ColumnOf[c][k] = 67
         \/ PathName(c, k) = Sample[c][k].name /\ ColumnOf[c][k] \notin {66, 67}
<1>1. CASE ColumnOf[c][k] = 66
  BY <1>1 DEF PathName
<1>2. CASE ColumnOf[c][k] = 67
  BY <1>2 DEF PathName
<1>3. CASE ColumnOf[c][k] # 66 /\ ColumnOf[c][k] # 67
  BY <1>3 DEF PathName
<1>4. QED
  BY <1>1, <1>2, <1>3

LEMMA NameOfField ==
  ASSUME NEW c \in FrameClusters, NEW k \in FieldsOf(c)
  PROVE  \/ k = 1 /\ Sample[c][k].name = "sample_tick"
         \/ k = 2 /\ Sample[c][k].name = "timestamp_ns"
         \/ k \notin 1..2 /\ Sample[c][k].name \in NamesOf[c]
<1>1. NamesAgree(Sample[c], NamesOf[c])
  BY AllNamed
<1>2. k \in 1..50
  BY ColumnsDiffer DEF IdsDiffer
<1>3. QED
  BY <1>1, <1>2 DEF NamesAgree, FieldsOf

LEMMA SameNameSameColumn ==
  ASSUME NEW c \in FrameClusters, NEW k \in FieldsOf(c),
         NEW d \in FrameClusters, NEW j \in FieldsOf(d), Sample[d][j].name = Sample[c][k].name
  PROVE  ColumnOf[d][j] = ColumnOf[c][k]
<1>1. CASE c = d
  <2>1. NamesAgree(Sample[c], NamesOf[c])
    BY AllNamed
  <2>2. j = k
    BY <1>1, <2>1 DEF NamesAgree, FieldsOf
  <2>3. QED
    BY <1>1, <2>2
<1>2. CASE c # d
  <2>1. NamesOf[c] \cap NamesOf[d] = {}
    BY <1>2, NamesApart
  <2>2. NamesOf[c] \cap OtherNames = {} /\ NamesOf[d] \cap OtherNames = {}
    BY NotOther
  <2>3. j = k /\ k \in 1..2
    BY <2>1, <2>2, NameOfField DEF OtherNames
  <2>4. ColumnOf[c][k] = k /\ ColumnOf[d][j] = j
    BY <2>3, ColumnsDiffer DEF IdsDiffer
  <2>5. QED
    BY <2>3, <2>4
<1>3. QED
  BY <1>1, <1>2

LEMMA SamePathSameColumn ==
  ASSUME NEW c \in FrameClusters, NEW k \in FieldsOf(c), ColumnOf[c][k] \notin {66, 67},
         NEW d \in FrameClusters, NEW j \in FieldsOf(d), PathName(d, j) = Sample[c][k].name
  PROVE  ColumnOf[d][j] = ColumnOf[c][k]
<1>1. Sample[c][k].name # "tc_physics" /\ Sample[c][k].name # "abs_physics"
  <2>1. NamesOf[c] \cap OtherNames = {}
    BY NotOther
  <2>2. QED
    BY <2>1, NameOfField DEF OtherNames
<1>2. Sample[d][j].name = Sample[c][k].name
  BY <1>1, PathIs
<1>3. QED
  BY <1>2, SameNameSameColumn

LEMMA ItemsAreFields ==
  \A item \in AllRawItems : item[1] \in FrameClusters /\ item[2] \in FieldsOf(item[1])
<1> SUFFICES ASSUME NEW c \in FrameClusters, NEW item \in RawFieldNames(c)
             PROVE  item[1] \in FrameClusters /\ item[2] \in FieldsOf(item[1])
  BY DEF AllRawItems
<1>1. PICK k \in FieldsOf(c) : \E i \in Int : item = <<c, k, i>>
  BY DEF RawFieldNames
<1>2. QED
  BY <1>1

LEMMA ItemsFound == ItemsHaveColumns
<1> SUFFICES ASSUME NEW item \in AllRawItems, ~Refused(item)
             PROVE  PathToColumnId(Sample[item[1]][item[2]].name) = {ColumnOf[item[1]][item[2]]}
  BY DEF ItemsHaveColumns
<1> DEFINE c == item[1]
           k == item[2]
           name == Sample[c][k].name
           Found(o) == o[2] \in FieldsOf(o[1]) /\ PathName(o[1], o[2]) = name
           pairs == {<<d, j>> : d \in FrameClusters, j \in 1..50}
           matches == {o \in pairs : Found(o)}
<1>1. c \in FrameClusters /\ k \in FieldsOf(c)
  BY ItemsAreFields
<1>2. ColumnOf[c][k] \notin {66, 67}
  BY DEF Refused
<1> HIDE DEF c, k
<1>3. <<c, k>> \in matches
  <2>1. k \in 1..50
    BY <1>1, ColumnsDiffer DEF IdsDiffer
  <2>2. PathName(c, k) = name
    BY <1>2, PathIs
  <2>3. QED
    BY <1>1, <2>1, <2>2
<1>4. ASSUME NEW o \in matches
      PROVE  ColumnOf[o[1]][o[2]] = ColumnOf[c][k]
  <2>1. o[1] \in FrameClusters /\ o[2] \in FieldsOf(o[1]) /\ PathName(o[1], o[2]) = name
    OBVIOUS
  <2>2. QED
    BY <1>1, <1>2, <2>1, SamePathSameColumn
<1>5. PathToColumnId(name) = {ColumnOf[o[1]][o[2]] : o \in matches}
  BY DEF PathToColumnId
<1> HIDE DEF matches
<1>6. {ColumnOf[o[1]][o[2]] : o \in matches} = {ColumnOf[c][k]}
  <2>1. ColumnOf[<<c, k>>[1]][<<c, k>>[2]] = ColumnOf[c][k]
    OBVIOUS
  <2>2. QED
    BY <1>3, <1>4, <2>1
<1>7. QED
  BY <1>5, <1>6 DEF c, k

(* What is read from a file is, field by field, what was written to it, as *)
(* far as FieldsAreReadBack says: the tables of both formats agree, every  *)
(* item has a column, and the metadata is decoded as it was encoded.       *)
THEOREM FieldsSurvive == Spec => []FieldsAreReadBack
<1>1. ChunksAreReadBack
  BY ChunksGiveBack DEF ChunksAreReadBack, MaxRows
<1>2. GroupsAreReadBack
  <2>1. RowsOfColumn \in Nat \ {0}
    BY DEF RowsOfColumn
  <2>2. QED
    BY <2>1, RowsGiveBack DEF GroupsAreReadBack
<1>3. MetadataIsReadBack
  BY SomeFit, MetadataSurvives DEF MetadataIsReadBack
<1>4. FieldsAreReadBack
  BY <1>1, <1>2, <1>3, ItemsFound DEF FieldsAreReadBack
<1>5. QED
  BY <1>4, PTL

(* Five of the six time texts come back empty, from no column at all,      *)
(* whatever the row.                                                       *)
LEMMA TimeTextsAreLost ==
  ASSUME NEW k \in 16..20, NEW n, NEW i
  PROVE  ~RebuiltFrom("timing", k, n, i)
<1>1. BuildTiming[k].id = 0
  BY SMT DEF BuildTiming, FrameStamps, Vals, Val, Row, Times, Zeroed
<1>2. ColumnOf["timing"][k] = k + 117
  BY TimingIds
<1>3. QED
  BY <1>1, <1>2 DEF RebuiltFrom, Build

(* Against bin/acctlm-to-acctlm2.rs:1, no recording at all is converted    *)
(* without a loss.                                                         *)
THEOREM NothingIsLossless ==
  ASSUME Accepts, ReadAll(Controls) # << >>
  PROVE  ~ConversionIsLossless
<1>1. "timing" \in FrameClusters /\ 16 \in FieldsOf("timing")
  BY FrameHasNine, TimingShape DEF FieldsOf, Sample
<1>2. ~RebuiltFrom("timing", 16, RowsOfColumn, 1)
  BY TimeTextsAreLost
<1>3. QED
  BY <1>1, <1>2 DEF ConversionIsLossless
=============================================================================
