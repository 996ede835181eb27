------------------------ MODULE RowGroupReader_proofs -----------------------
(***************************************************************************)
(* Proofs about RowGroupFile and its reader.  Shape relates the stream,    *)
(* the file and the control point; Frames the row groups and the buffer to *)
(* the frames that were written; Index the lap entries to them; Read the   *)
(* skip index and the footer to the row groups.  They are stated of        *)
(* arbitrary values, so that what a call does to them is a lemma without a *)
(* step.                                                                   *)
(***************************************************************************)
EXTENDS RowGroupReader, SequenceLemmas

LEMMA AppendShape ==
  ASSUME NEW S, NEW s \in Seq(S), NEW e \in S
  PROVE  /\ Append(s, e) \in Seq(S)
         /\ Len(Append(s, e)) = Len(s) + 1 /\ Len(s) \in Nat
         /\ \A i \in 1..Len(s) : Append(s, e)[i] = s[i]
         /\ Append(s, e)[Len(s) + 1] = e
  OBVIOUS

LEMMA EmptyShape == ASSUME NEW S PROVE << >> \in Seq(S) /\ Len(<< >>) = 0
  OBVIOUS

LEMMA NotEmpty == ASSUME NEW S, NEW s \in Seq(S), s # << >>
                  PROVE  Len(s) \in Nat \ {0}
  OBVIOUS

-----------------------------------------------------------------------------
(* Types.                                                                  *)

TypeOK_Rest ==
  /\ pc \in {"create", "open", "rowgroup", "footer", "patch", "finished", "failed"}
  /\ caller \in {"write", "flush", "finish"}
  /\ buffer \in Seq(Frame) /\ written \in Seq(Frame)
  /\ ondisk \in 0..Len(stream) /\ cut \in Cuts
  /\ footer_at \in Nat /\ footer_offset \in Nat
  /\ groups_written \in Nat

TypeOK_Units == stream \in Seq(Unit) /\ skip \subseteq SkipEntry

TypeOK_Laps == laps \in Seq(LapEntry) /\ current \in Current

LEMMA RowGroupType ==
  ASSUME NEW rows \in Seq(Frame)
  PROVE  /\ RowGroup(rows) \in Unit
         /\ RowGroup(rows).kind = "RGHD"
         /\ \A g \in Groups : RowGroup(rows).columns[g] = rows
<1> DEFINE cols == [g \in Groups |-> rows]
<1>1. cols \in [Groups -> Seq(Frame)] /\ \A g \in Groups : cols[g] = rows
  OBVIOUS
<1>2. RowGroup(rows) = [kind |-> "RGHD", columns |-> cols, skip |-> {}, laps |-> << >>]
  BY DEF RowGroup
<1>3. << >> \in Seq(LapEntry) /\ {} \in SUBSET SkipEntry
  BY EmptyShape
<1> HIDE DEF cols
<1> QED
  BY <1>1, <1>2, <1>3 DEF Unit

LEMMA FooterType ==
  ASSUME NEW entries \in SUBSET SkipEntry, NEW index \in Seq(LapEntry)
  PROVE  Footer(entries, index) \in Unit /\ Footer(entries, index).kind = "FTR2"
<1>1. NoColumns \in [Groups -> Seq(Frame)]
  BY EmptyShape DEF NoColumns
<1> QED
  BY <1>1 DEF Footer, Unit

LEMMA PreambleType == Preamble \in Unit /\ Preamble.kind = "ACT2"
<1>1. NoColumns \in [Groups -> Seq(Frame)]
  BY EmptyShape DEF NoColumns
<1>2. << >> \in Seq(LapEntry) /\ {} \in SUBSET SkipEntry
  BY EmptyShape
<1> QED
  BY <1>1, <1>2 DEF Preamble, Unit

LEMMA FlushTypes ==
  ASSUME NEW rows \in Seq(Frame), NEW by \in {"write", "flush", "finish"},
         Len(rows) > 0, TypeOK_Rest, TypeOK_Units,
         FlushRowGroup(rows, by)
  PROVE  /\ TypeOK_Units' /\ buffer' \in Seq(Frame)
         /\ pc' = "rowgroup" /\ caller' \in {"write", "flush", "finish"}
         /\ Len(stream') = Len(stream) + 1
<1>1. RowGroup(rows) \in Unit
  BY RowGroupType
<1>2. stream' \in Seq(Unit) /\ Len(stream') = Len(stream) + 1
  BY <1>1, AppendShape DEF FlushRowGroup, TypeOK_Units
<1>3. rows[1].tick \in Nat /\ rows[Len(rows)].tick \in Nat
  <2>1. Len(rows) \in Nat /\ rows[1] \in Frame /\ rows[Len(rows)] \in Frame
    OBVIOUS
  <2> QED
    BY <2>1 DEF Frame
<1>4. \A g \in Groups : [group |-> g, first |-> rows[1].tick, last |-> rows[Len(rows)].tick,
                         index |-> groups_written] \in SkipEntry
  BY <1>3 DEF SkipEntry, TypeOK_Rest
<1>5. skip' \subseteq SkipEntry
  BY <1>4 DEF FlushRowGroup, TypeOK_Units
<1> QED
  BY <1>2, <1>5, EmptyShape DEF FlushRowGroup, TypeOK_Units

(* An entry of the lap index, and the lap that follows it. *)
LEMMA LapTypes ==
  ASSUME TypeOK_Laps, NEW last \in Int
  PROVE  Closed(last) \in LapEntry
  BY DEF TypeOK_Laps, Closed, LapEntry, Current

LEMMA CountLapCases ==
  ASSUME TypeOK_Laps, NEW f \in Frame, CountLap(f)
  PROVE  \/ /\ current.count > 0 /\ current.lap = f.lap /\ laps' = laps
            /\ current' = [lap |-> current.lap, first |-> current.first,
                           count |-> current.count + 1]
         \/ /\ current.count = 0 /\ laps' = laps
            /\ current' = [lap |-> f.lap, first |-> f.tick, count |-> 1]
         \/ /\ current.count > 0 /\ current.lap # f.lap
            /\ laps' = Append(laps, Closed(f.tick - 1))
            /\ current' = [lap |-> f.lap, first |-> f.tick, count |-> 1]
<1>1. current.count \in Nat /\ current \in [lap : Int, first : Nat, count : Nat]
  BY DEF TypeOK_Laps, Current
<1>2. CASE current.count > 0 /\ current.lap = f.lap
  <2>1. current' = [current EXCEPT !.count = @ + 1] /\ laps' = laps
    BY <1>2 DEF CountLap
  <2> QED
    BY <1>1, <1>2, <2>1
<1>3. CASE ~(current.count > 0 /\ current.lap = f.lap)
  BY <1>1, <1>3 DEF CountLap
<1> QED
  BY <1>2, <1>3

LEMMA CountLapTypes ==
  ASSUME TypeOK_Laps, NEW f \in Frame, CountLap(f)
  PROVE  TypeOK_Laps'
<1>1. f.lap \in Int /\ f.tick \in Nat /\ f.tick - 1 \in Int
  BY DEF Frame
<1>2. /\ current.count + 1 \in Nat /\ current.first \in Nat /\ current.lap \in Int
  BY DEF TypeOK_Laps, Current
<1>3. current' \in Current
  BY <1>1, <1>2, CountLapCases DEF Current
<1>4. Append(laps, Closed(f.tick - 1)) \in Seq(LapEntry)
  BY <1>1, LapTypes, AppendShape DEF TypeOK_Laps
<1>5. laps' \in Seq(LapEntry)
  BY <1>4, CountLapCases DEF TypeOK_Laps
<1> QED
  BY <1>3, <1>5 DEF TypeOK_Laps

LEMMA FooterTypes ==
  ASSUME TypeOK_Rest, TypeOK_Units, TypeOK_Laps, WriteFooter
  PROVE  /\ TypeOK_Units' /\ TypeOK_Laps' /\ footer_at' \in Nat /\ pc' = "footer"
         /\ Len(stream') = Len(stream) + 1
<1>1. current.first + current.count - 1 \in Int
  BY DEF TypeOK_Laps, Current
<1>2. Append(laps, Closed(current.first + current.count - 1)) \in Seq(LapEntry)
  BY <1>1, LapTypes, AppendShape DEF TypeOK_Laps
<1>3. laps' \in Seq(LapEntry) /\ current' \in Current
  BY <1>2 DEF WriteFooter, TypeOK_Laps
<1>4. Footer(skip, laps') \in Unit
  BY <1>3, FooterType DEF TypeOK_Units
<1>5. stream' \in Seq(Unit) /\ Len(stream') = Len(stream) + 1
  BY <1>4, AppendShape DEF WriteFooter, TypeOK_Units
<1>6. footer_at' \in Nat
  BY DEF WriteFooter, TypeOK_Rest
<1> QED
  BY <1>3, <1>5, <1>6 DEF WriteFooter, TypeOK_Units, TypeOK_Laps

(* The frame that write_frame is given, and the rows it may flush. *)
LEMMA FrameTypes ==
  ASSUME TypeOK_Rest, TypeOK_Units, NEW lap \in Laps
  PROVE  LET f == [tick |-> FirstTick + Len(written), lap |-> lap]
         IN  /\ f \in Frame
             /\ Append(buffer, f) \in Seq(Frame) /\ Append(written, f) \in Seq(Frame)
             /\ Len(Append(buffer, f)) = Len(buffer) + 1 /\ Len(buffer) \in Nat
<1> DEFINE f == [tick |-> FirstTick + Len(written), lap |-> lap]
<1>1. f \in Frame
  BY FileAssumption DEF FileAssumption, Frame, TypeOK_Rest
<1> HIDE DEF f
<1>2. /\ Append(buffer, f) \in Seq(Frame) /\ Append(written, f) \in Seq(Frame)
      /\ Len(Append(buffer, f)) = Len(buffer) + 1 /\ Len(buffer) \in Nat
  BY <1>1, AppendShape DEF TypeOK_Rest
<1> QED
  BY <1>1, <1>2 DEF f

LEMMA TypeStep ==
  TypeOK_Rest /\ TypeOK_Units /\ TypeOK_Laps /\ [Next]_vars
    => TypeOK_Rest' /\ TypeOK_Units' /\ TypeOK_Laps'
<1> SUFFICES ASSUME TypeOK_Rest, TypeOK_Units, TypeOK_Laps, [Next]_vars
             PROVE  TypeOK_Rest' /\ TypeOK_Units' /\ TypeOK_Laps'
  OBVIOUS
<1> USE DEF fileVars, lapVars
<1>0. Len(stream) \in Nat /\ (buffer # << >> => Len(buffer) > 0)
  BY NotEmpty DEF TypeOK_Units, TypeOK_Rest
<1>1. CASE WriteFrame
  <2>1. PICK lap \in Laps :
          LET f == [tick |-> FirstTick + Len(written), lap |-> lap]
              rows == Append(buffer, f)
          IN  /\ CountLap(f)
              /\ written' = Append(written, f)
              /\ IF Len(rows) >= ChunkRows
                 THEN FlushRowGroup(rows, "write")
                 ELSE buffer' = rows /\ UNCHANGED <<stream, skip, pc, caller>>
    BY <1>1 DEF WriteFrame
  <2> DEFINE f == [tick |-> FirstTick + Len(written), lap |-> lap]
             rows == Append(buffer, f)
  <2>2. /\ f \in Frame /\ rows \in Seq(Frame) /\ Append(written, f) \in Seq(Frame)
        /\ Len(rows) > 0
    BY FrameTypes
  <2>3. CountLap(f) /\ written' = Append(written, f)
    BY <2>1
  <2>4. \/ FlushRowGroup(rows, "write")
        \/ buffer' = rows /\ UNCHANGED <<stream, skip, pc, caller>>
    BY <2>1
  <2> HIDE DEF f, rows
  <2>5. TypeOK_Laps'
    BY <2>2, <2>3, CountLapTypes
  <2>6. CASE FlushRowGroup(rows, "write")
    <3>1. /\ TypeOK_Units' /\ buffer' \in Seq(Frame)
          /\ pc' = "rowgroup" /\ caller' \in {"write", "flush", "finish"}
          /\ Len(stream') = Len(stream) + 1
      BY <2>2, <2>6, FlushTypes
    <3> QED
      BY <1>0, <1>1, <2>2, <2>3, <2>5, <3>1 DEF WriteFrame, TypeOK_Rest
  <2>7. CASE buffer' = rows /\ UNCHANGED <<stream, skip, pc, caller>>
    BY <1>1, <2>2, <2>3, <2>5, <2>7 DEF WriteFrame, TypeOK_Rest, TypeOK_Units
  <2> QED
    BY <2>4, <2>6, <2>7
<1>2. CASE Flush
  <2>1. FlushRowGroup(buffer, "flush") /\ Len(buffer) > 0
    BY <1>0, <1>2 DEF Flush
  <2>2. /\ TypeOK_Units' /\ buffer' \in Seq(Frame)
        /\ pc' = "rowgroup" /\ caller' \in {"write", "flush", "finish"}
        /\ Len(stream') = Len(stream) + 1
    BY <2>1, FlushTypes DEF TypeOK_Rest
  <2> QED
    BY <1>0, <1>2, <2>2 DEF Flush, TypeOK_Rest, TypeOK_Laps
<1>3. CASE Finish
  <2>1. CASE FlushRowGroup(buffer, "finish") /\ buffer # << >>
             /\ UNCHANGED <<footer_at, laps, current, written, ondisk, cut, footer_offset>>
    <3>1. /\ TypeOK_Units' /\ buffer' \in Seq(Frame)
          /\ pc' = "rowgroup" /\ caller' \in {"write", "flush", "finish"}
          /\ Len(stream') = Len(stream) + 1
      BY <1>0, <2>1, FlushTypes DEF TypeOK_Rest
    <3> QED
      BY <1>0, <1>3, <2>1, <3>1 DEF Finish, TypeOK_Rest, TypeOK_Laps
  <2>2. CASE WriteFooter /\ UNCHANGED buffer
    BY <1>0, <1>3, <2>2, FooterTypes DEF Finish, WriteFooter, TypeOK_Rest
  <2> QED
    BY <1>3, <2>1, <2>2 DEF Finish
<1>4. CASE WriteOut
  BY <1>0, <1>4 DEF WriteOut, Cuts, TypeOK_Rest, TypeOK_Units, TypeOK_Laps
<1>5. CASE Created
  BY <1>5 DEF Created, TypeOK_Rest, TypeOK_Units, TypeOK_Laps
<1>6. CASE RowGroupWritten
  <2>1. CASE WriteFooter
    BY <1>0, <1>6, <2>1, FooterTypes DEF RowGroupWritten, WriteFooter, TypeOK_Rest
  <2>2. CASE ~WriteFooter
    BY <1>6, <2>2 DEF RowGroupWritten, TypeOK_Rest, TypeOK_Units, TypeOK_Laps
  <2> QED
    BY <2>1, <2>2
<1>7. CASE FooterWritten
  BY <1>7 DEF FooterWritten, TypeOK_Rest, TypeOK_Units, TypeOK_Laps
<1>8. CASE PatchHeader
  BY <1>8 DEF PatchHeader, TypeOK_Rest, TypeOK_Units, TypeOK_Laps
<1>9. CASE WriteFails
  BY <1>9 DEF WriteFails, TypeOK_Rest, TypeOK_Units, TypeOK_Laps
<1>10. CASE UNCHANGED vars
  BY <1>10 DEF vars, TypeOK_Rest, TypeOK_Units, TypeOK_Laps
<1> QED
  BY <1>1, <1>2, <1>3, <1>4, <1>5, <1>6, <1>7, <1>8, <1>9, <1>10 DEF Next

LEMMA TypeInit == Init => TypeOK_Rest /\ TypeOK_Units /\ TypeOK_Laps
<1> SUFFICES ASSUME Init PROVE TypeOK_Rest /\ TypeOK_Units /\ TypeOK_Laps
  OBVIOUS
<1>1. Preamble \in Unit
  BY PreambleType
<1>2. stream \in Seq(Unit) /\ Len(stream) = 1
  BY <1>1 DEF Init
<1>3. << >> \in Seq(Frame) /\ << >> \in Seq(LapEntry) /\ NoLap \in Current
  BY DEF NoLap, Current
<1> QED
  BY <1>2, <1>3 DEF Init, TypeOK_Rest, TypeOK_Units, TypeOK_Laps, Cuts

LEMMA TypeAlways == Spec => [](TypeOK_Rest /\ TypeOK_Units /\ TypeOK_Laps)
<1>1. Init => TypeOK_Rest /\ TypeOK_Units /\ TypeOK_Laps
  BY TypeInit
<1>2. (TypeOK_Rest /\ TypeOK_Units /\ TypeOK_Laps) /\ [Next]_vars
        => (TypeOK_Rest /\ TypeOK_Units /\ TypeOK_Laps)'
  BY TypeStep
<1> QED
  BY <1>1, <1>2, PTL DEF Spec

(* Every variable keeps its type, for any chunk size, laps and groups. *)
THEOREM TypeCorrect == Spec => []TypeOK
<1>1. TypeOK_Rest /\ TypeOK_Units /\ TypeOK_Laps => TypeOK
  BY DEF TypeOK, TypeOK_Rest, TypeOK_Units, TypeOK_Laps
<1> QED
  BY <1>1, TypeAlways, PTL

-----------------------------------------------------------------------------
(* Row groups and frames.  st, w and b are a stream, the frames written    *)
(* and a buffer: what follows is about all of them, not about a step.      *)

RowsIn(st, i) == st[i].columns[Meta]
RecordedIn(st, i) ==
  IF i < 2 THEN 0 ELSE RowsIn(st, i)[Len(RowsIn(st, i))].tick - FirstTick + 1

HoldsIn(st, w, i) ==
  /\ Len(RowsIn(st, i)) > 0
  /\ \A g \in Groups : st[i].columns[g] = RowsIn(st, i)
  /\ RecordedIn(st, i) = RecordedIn(st, i - 1) + Len(RowsIn(st, i))
  /\ \A k \in 1..Len(RowsIn(st, i)) : RowsIn(st, i)[k] = w[RecordedIn(st, i - 1) + k]

(* Before the footer: row groups follow the preamble, and what they do not *)
(* hold is in the buffer.                                                  *)
Ticked(w) == \A k \in 1..Len(w) : w[k].tick = Tick(k)
HeldIn(st, w, i) ==
  /\ HoldsIn(st, w, i)
  /\ RecordedIn(st, i - 1) \in Nat
  /\ RecordedIn(st, i) \in 0..Len(w)
Held(st, w) == \A i \in 2..Len(st) : st[i].kind = "RGHD" /\ HeldIn(st, w, i)
Rest(st, w, b) ==
  /\ RecordedIn(st, Len(st)) \in Nat
  /\ RecordedIn(st, Len(st)) + Len(b) = Len(w)
  /\ \A k \in 1..Len(b) : b[k] = w[RecordedIn(st, Len(st)) + k]

LEMMA SameUnits ==
  ASSUME NEW st, NEW st2, NEW w, NEW i \in Int, st[i] = st2[i], st[i - 1] = st2[i - 1]
  PROVE  /\ RecordedIn(st, i) = RecordedIn(st2, i)
         /\ RecordedIn(st, i - 1) = RecordedIn(st2, i - 1)
         /\ RowsIn(st, i) = RowsIn(st2, i)
         /\ HoldsIn(st, w, i) <=> HoldsIn(st2, w, i)
<1>1. RowsIn(st, i) = RowsIn(st2, i) /\ RowsIn(st, i - 1) = RowsIn(st2, i - 1)
  BY DEF RowsIn
<1>2. /\ RecordedIn(st, i) = RecordedIn(st2, i)
      /\ RecordedIn(st, i - 1) = RecordedIn(st2, i - 1)
  BY <1>1 DEF RecordedIn
<1> QED
  BY <1>1, <1>2 DEF HoldsIn

(* write_frame's push. *)
LEMMA PushKeeps ==
  ASSUME NEW st \in Seq(Unit), NEW w \in Seq(Frame), NEW b \in Seq(Frame),
         NEW f \in Frame, f.tick = Tick(Len(w) + 1), Len(st) > 0,
         Ticked(w), Held(st, w), Rest(st, w, b)
  PROVE  /\ Ticked(Append(w, f)) /\ Held(st, Append(w, f))
         /\ Rest(st, Append(w, f), Append(b, f))
<1> DEFINE w2 == Append(w, f)
           b2 == Append(b, f)
<1>1. /\ w2 \in Seq(Frame) /\ Len(w2) = Len(w) + 1 /\ Len(w) \in Nat
      /\ \A k \in 1..Len(w) : w2[k] = w[k]
      /\ w2[Len(w) + 1] = f
  BY AppendShape
<1>2. /\ b2 \in Seq(Frame) /\ Len(b2) = Len(b) + 1 /\ Len(b) \in Nat
      /\ \A k \in 1..Len(b) : b2[k] = b[k]
      /\ b2[Len(b) + 1] = f
  BY AppendShape
<1> HIDE DEF w2, b2
<1>3. Ticked(w2)
  BY <1>1 DEF Ticked
<1>4. Held(st, w2)
  <2> SUFFICES ASSUME NEW i \in 2..Len(st)
               PROVE  /\ st[i].kind = "RGHD" /\ HoldsIn(st, w2, i)
                      /\ RecordedIn(st, i - 1) \in Nat
                      /\ RecordedIn(st, i) \in 0..Len(w2)
    BY DEF Held, HeldIn
  <2>1. /\ st[i].kind = "RGHD" /\ HoldsIn(st, w, i)
        /\ RecordedIn(st, i - 1) \in Nat /\ RecordedIn(st, i) \in 0..Len(w)
    BY DEF Held, HeldIn
  <2>2. \A k \in 1..Len(RowsIn(st, i)) :
          RecordedIn(st, i - 1) + k \in 1..Len(w)
    <3>1. RecordedIn(st, i) = RecordedIn(st, i - 1) + Len(RowsIn(st, i))
      BY <2>1 DEF HoldsIn
    <3>2. Len(RowsIn(st, i)) \in Int
      <4>1. i \in 1..Len(st)
        OBVIOUS
      <4>2. st[i] \in Unit
        BY <4>1
      <4>3. RowsIn(st, i) \in Seq(Frame)
        BY <4>2, FileAssumption DEF Unit, RowsIn, FileAssumption
      <4> QED
        BY <4>3
    <3> QED
      BY <2>1, <3>1, <3>2, <1>1
  <2>3. \A k \in 1..Len(RowsIn(st, i)) :
          RowsIn(st, i)[k] = w2[RecordedIn(st, i - 1) + k]
    BY <1>1, <2>1, <2>2 DEF HoldsIn
  <2>4. HoldsIn(st, w2, i)
    BY <2>1, <2>3 DEF HoldsIn
  <2> QED
    BY <1>1, <2>1, <2>4
<1>5. Rest(st, w2, b2)
  <2> DEFINE n == RecordedIn(st, Len(st))
  <2>1. n \in Nat /\ n + Len(b) = Len(w)
    BY DEF Rest
  <2>a. \A k \in 1..Len(b) : b[k] = w[n + k]
    BY DEF Rest
  <2> HIDE DEF n
  <2>b. /\ Len(w2) = Len(w) + 1 /\ Len(w) \in Nat
        /\ Len(b2) = Len(b) + 1 /\ Len(b) \in Nat
    BY <1>1, <1>2
  <2>c. n + (Len(b) + 1) = Len(w) + 1
    BY <2>1, <2>b
  <2>2. n + Len(b2) = Len(w2)
    BY <2>b, <2>c
  <2>3. ASSUME NEW k \in 1..Len(b2) PROVE b2[k] = w2[n + k]
    <3>1. CASE k \in 1..Len(b)
      <4>1. n + k \in 1..Len(w)
        BY <2>1, <2>b, <3>1
      <4>2. b2[k] = b[k] /\ w2[n + k] = w[n + k]
        BY <1>1, <1>2, <3>1, <4>1
      <4> QED
        BY <2>a, <3>1, <4>2
    <3>2. CASE k = Len(b) + 1
      <4>1. n + k = Len(w) + 1
        BY <2>c, <3>2
      <4>2. b2[k] = f
        BY <1>2, <3>2
      <4>3. w2[n + k] = f
        BY <1>1, <4>1
      <4> QED
        BY <4>2, <4>3
    <3> QED
      BY <2>b, <3>1, <3>2
  <2> QED
    BY <2>1, <2>2, <2>3 DEF Rest, n
<1> QED
  BY <1>3, <1>4, <1>5 DEF w2, b2

(* The units before the last one are those of the stream before. *)
LEMMA AppendUnit ==
  ASSUME NEW st \in Seq(Unit), NEW u \in Unit, Len(st) > 0, NEW w
  PROVE  LET st2 == Append(st, u)
         IN  /\ st2 \in Seq(Unit) /\ Len(st2) = Len(st) + 1 /\ Len(st) \in Nat
             /\ st2[Len(st) + 1] = u
             /\ \A i \in 1..Len(st) : st2[i] = st[i]
             /\ \A i \in 2..Len(st) :
                  /\ RecordedIn(st2, i) = RecordedIn(st, i)
                  /\ RecordedIn(st2, i - 1) = RecordedIn(st, i - 1)
                  /\ HoldsIn(st2, w, i) <=> HoldsIn(st, w, i)
             /\ RecordedIn(st2, Len(st)) = RecordedIn(st, Len(st))
<1> DEFINE st2 == Append(st, u)
<1>1. /\ st2 \in Seq(Unit) /\ Len(st2) = Len(st) + 1 /\ Len(st) \in Nat
      /\ \A i \in 1..Len(st) : st2[i] = st[i]
      /\ st2[Len(st) + 1] = u
  BY AppendShape
<1> HIDE DEF st2
<1>2. ASSUME NEW i \in 2..Len(st)
      PROVE  /\ RecordedIn(st2, i) = RecordedIn(st, i)
             /\ RecordedIn(st2, i - 1) = RecordedIn(st, i - 1)
             /\ HoldsIn(st2, w, i) <=> HoldsIn(st, w, i)
  <2>1. i \in Int /\ i \in 1..Len(st) /\ i - 1 \in 1..Len(st)
    BY <1>1
  <2>2. st2[i] = st[i] /\ st2[i - 1] = st[i - 1]
    BY <1>1, <2>1
  <2> QED
    BY <2>1, <2>2, SameUnits
<1>3. RecordedIn(st2, Len(st)) = RecordedIn(st, Len(st))
  <2>1. st2[Len(st)] = st[Len(st)]
    BY <1>1
  <2>2. RowsIn(st2, Len(st)) = RowsIn(st, Len(st))
    BY <2>1 DEF RowsIn
  <2> QED
    BY <2>2 DEF RecordedIn
<1> QED
  BY <1>1, <1>2, <1>3 DEF st2

(* flush_row_group: the buffer becomes the last row group. *)
LEMMA FlushKeeps ==
  ASSUME NEW st \in Seq(Unit), NEW w \in Seq(Frame), NEW b \in Seq(Frame),
         Len(st) > 0, Len(b) > 0,
         Ticked(w), Held(st, w), Rest(st, w, b)
  PROVE  Held(Append(st, RowGroup(b)), w) /\ Rest(Append(st, RowGroup(b)), w, << >>)
<1> DEFINE u == RowGroup(b)
           st2 == Append(st, u)
           n == RecordedIn(st, Len(st))
           i2 == Len(st) + 1
<1>1. u \in Unit /\ u.kind = "RGHD" /\ \A g \in Groups : u.columns[g] = b
  BY RowGroupType
<1> HIDE DEF u
<1>2. /\ st2 \in Seq(Unit) /\ Len(st2) = i2 /\ Len(st) \in Nat
      /\ st2[i2] = u
      /\ \A i \in 2..Len(st) :
           /\ st2[i] = st[i]
           /\ RecordedIn(st2, i) = RecordedIn(st, i)
           /\ RecordedIn(st2, i - 1) = RecordedIn(st, i - 1)
           /\ HoldsIn(st2, w, i) <=> HoldsIn(st, w, i)
      /\ RecordedIn(st2, Len(st)) = n
  BY <1>1, AppendUnit
<1>3. n \in Nat /\ n + Len(b) = Len(w) /\ Len(b) \in Nat /\ Len(w) \in Nat
  BY DEF Rest
<1>4. \A k \in 1..Len(b) : b[k] = w[n + k]
  BY DEF Rest
<1> HIDE DEF n, st2
<1>5. RowsIn(st2, i2) = b /\ \A g \in Groups : st2[i2].columns[g] = b
  BY <1>1, <1>2, FileAssumption DEF RowsIn, FileAssumption
<1>6. RecordedIn(st2, i2) = Len(w)
  <2>1. b[Len(b)] = w[n + Len(b)] /\ w[Len(w)].tick = Tick(Len(w)) /\ Len(w) >= 1
    BY <1>3, <1>4 DEF Ticked
  <2>2. b[Len(b)].tick = FirstTick + Len(w) - 1
    BY <1>3, <2>1 DEF Tick
  <2>3. i2 \in Int /\ ~(i2 < 2)
    BY <1>2
  <2>4. RecordedIn(st2, i2) = b[Len(b)].tick - FirstTick + 1
    BY <1>5, <2>3 DEF RecordedIn
  <2> QED
    BY <1>3, <2>2, <2>4, FileAssumption DEF FileAssumption
<1>7. RecordedIn(st2, i2 - 1) = n
  <2>1. i2 - 1 = Len(st)
    BY <1>2
  <2> QED
    BY <1>2, <2>1
<1>8. HoldsIn(st2, w, i2)
  BY <1>3, <1>4, <1>5, <1>6, <1>7 DEF HoldsIn
<1>9. Held(st2, w)
  <2> SUFFICES ASSUME NEW i \in 2..Len(st2)
               PROVE  /\ st2[i].kind = "RGHD" /\ HoldsIn(st2, w, i)
                      /\ RecordedIn(st2, i - 1) \in Nat
                      /\ RecordedIn(st2, i) \in 0..Len(w)
    BY DEF Held, HeldIn
  <2>1. CASE i \in 2..Len(st)
    BY <1>2, <2>1 DEF Held, HeldIn
  <2>2. CASE i = i2
    BY <1>1, <1>2, <1>3, <1>6, <1>7, <1>8, <2>2
  <2> QED
    BY <1>2, <2>1, <2>2
<1>10. Rest(st2, w, << >>)
  <2>1. RecordedIn(st2, Len(st2)) = Len(w)
    BY <1>2, <1>6
  <2> QED
    BY <1>3, <2>1, EmptyShape DEF Rest
<1> QED
  BY <1>9, <1>10 DEF st2, u

(* As long as there is no footer the stream and the buffer hold what was   *)
(* written; after it the row groups still do.                              *)
Writing == pc \in {"create", "open", "rowgroup"}

FrameInv ==
  /\ Len(stream) > 0
  /\ Writing => Ticked(written) /\ Held(stream, written) /\ Rest(stream, written, buffer)
  /\ \A i \in 2..Len(stream) : stream[i].kind = "RGHD" => HeldIn(stream, written, i)

TypesOK == TypeOK_Rest /\ TypeOK_Units /\ TypeOK_Laps

LEMMA HeldRowGroups ==
  ASSUME NEW st, NEW w, Held(st, w)
  PROVE  \A i \in 2..Len(st) : st[i].kind = "RGHD" => HeldIn(st, w, i)
  BY DEF Held

LEMMA FlushFrames ==
  ASSUME TypesOK, NEW rows \in Seq(Frame), NEW w \in Seq(Frame), NEW by,
         Len(rows) > 0, Len(stream) > 0,
         Ticked(w), Held(stream, w), Rest(stream, w, rows),
         FlushRowGroup(rows, by), written' = w
  PROVE  FrameInv'
<1>1. stream \in Seq(Unit)
  BY DEF TypesOK, TypeOK_Units
<1>2. stream' = Append(stream, RowGroup(rows)) /\ buffer' = << >>
  BY DEF FlushRowGroup
<1>3. Held(stream', w) /\ Rest(stream', w, << >>)
  BY <1>1, <1>2, FlushKeeps
<1>4. Len(stream') > 0
  BY <1>1, <1>2, RowGroupType, AppendShape
<1>5. \A i \in 2..Len(stream') : stream'[i].kind = "RGHD" => HeldIn(stream', w, i)
  BY <1>3, HeldRowGroups
<1> QED
  BY <1>2, <1>3, <1>4, <1>5 DEF FrameInv

LEMMA FooterFrames ==
  ASSUME TypesOK, FrameInv, WriteFooter
  PROVE  FrameInv'
<1> DEFINE u == Footer(skip, laps')
<1>1. stream \in Seq(Unit) /\ skip \in SUBSET SkipEntry /\ laps' \in Seq(LapEntry)
  BY FooterTypes DEF TypesOK, TypeOK_Units, TypeOK_Laps
<1>2. u \in Unit /\ u.kind = "FTR2"
  BY <1>1, FooterType
<1>3. stream' = Append(stream, u) /\ pc' = "footer" /\ written' = written
  BY DEF WriteFooter
<1> HIDE DEF u
<1>4. /\ Len(stream') = Len(stream) + 1 /\ Len(stream) \in Nat
      /\ stream'[Len(stream) + 1] = u
      /\ \A i \in 2..Len(stream) :
           stream'[i] = stream[i] /\ (HeldIn(stream', written, i) <=> HeldIn(stream, written, i))
  BY <1>1, <1>2, <1>3, AppendUnit DEF FrameInv, HeldIn
<1>5. ASSUME NEW i \in 2..Len(stream'), stream'[i].kind = "RGHD"
      PROVE  HeldIn(stream', written, i)
  <2>1. i # Len(stream) + 1
    BY <1>2, <1>4, <1>5
  <2>2. i \in 2..Len(stream)
    BY <1>4, <2>1
  <2> QED
    BY <1>4, <1>5, <2>2 DEF FrameInv
<1> QED
  BY <1>3, <1>4, <1>5 DEF FrameInv, Writing

LEMMA FrameStep == TypesOK /\ FrameInv /\ [Next]_vars => FrameInv'
<1> SUFFICES ASSUME TypesOK, FrameInv, [Next]_vars PROVE FrameInv'
  OBVIOUS
<1> USE DEF fileVars, lapVars
<1>0. /\ stream \in Seq(Unit) /\ buffer \in Seq(Frame) /\ written \in Seq(Frame)
      /\ Len(stream) > 0
      /\ Writing => Ticked(written) /\ Held(stream, written) /\ Rest(stream, written, buffer)
  BY DEF TypesOK, TypeOK_Units, TypeOK_Rest, FrameInv
<1>1. CASE WriteFrame
  <2>1. PICK lap \in Laps :
          LET f == [tick |-> FirstTick + Len(written), lap |-> lap]
              rows == Append(buffer, f)
          IN  /\ CountLap(f)
              /\ written' = Append(written, f)
              /\ IF Len(rows) >= ChunkRows
                 THEN FlushRowGroup(rows, "write")
                 ELSE buffer' = rows /\ UNCHANGED <<stream, skip, pc, caller>>
    BY <1>1 DEF WriteFrame
  <2> DEFINE f == [tick |-> FirstTick + Len(written), lap |-> lap]
             rows == Append(buffer, f)
             w == Append(written, f)
  <2>2. /\ f \in Frame /\ rows \in Seq(Frame) /\ w \in Seq(Frame)
        /\ Len(rows) > 0
    BY FrameTypes DEF TypesOK
  <2>3. f.tick = Tick(Len(written) + 1)
    BY <1>0, FileAssumption DEF Tick, FileAssumption
  <2>4. /\ written' = w
        /\ \/ FlushRowGroup(rows, "write")
           \/ buffer' = rows /\ UNCHANGED <<stream, skip, pc, caller>>
    BY <2>1
  <2>5. pc = "open"
    BY <1>1 DEF WriteFrame
  <2> HIDE DEF f
  <2>6. Ticked(w) /\ Held(stream, w) /\ Rest(stream, w, rows)
    BY <1>0, <2>2, <2>3, <2>5, PushKeeps DEF Writing
  <2> HIDE DEF rows, w
  <2>7. CASE FlushRowGroup(rows, "write")
    BY <1>0, <2>2, <2>4, <2>6, <2>7, FlushFrames
  <2>8. CASE buffer' = rows /\ UNCHANGED <<stream, skip, pc, caller>>
    BY <1>0, <2>4, <2>6, <2>8, HeldRowGroups DEF FrameInv, Writing
  <2> QED
    BY <2>4, <2>7, <2>8
<1>2. CASE Flush
  <2>1. /\ FlushRowGroup(buffer, "flush") /\ Len(buffer) > 0 /\ Writing
        /\ written' = written
    BY <1>0, <1>2, NotEmpty DEF Flush, Writing
  <2> QED
    BY <1>0, <2>1, FlushFrames
<1>3. CASE Finish
  <2>1. CASE FlushRowGroup(buffer, "finish") /\ buffer # << >> /\ written' = written
    <3>1. Len(buffer) > 0 /\ Writing
      BY <1>0, <1>3, <2>1, NotEmpty DEF Finish, Writing
    <3> QED
      BY <1>0, <2>1, <3>1, FlushFrames
  <2>2. CASE WriteFooter
    BY <2>2, FooterFrames
  <2> QED
    BY <1>3, <2>1, <2>2 DEF Finish
<1>4. CASE RowGroupWritten
  <2>1. CASE WriteFooter
    BY <2>1, FooterFrames
  <2>2. CASE ~WriteFooter
    <3>1. /\ UNCHANGED <<stream, written, buffer>> /\ pc = "rowgroup" /\ pc' = "open"
      BY <1>4, <2>2 DEF RowGroupWritten
    <3> QED
      BY <3>1 DEF FrameInv, Writing
  <2> QED
    BY <2>1, <2>2
<1>5. CASE WriteOut \/ Created \/ FooterWritten \/ PatchHeader \/ WriteFails \/ UNCHANGED vars
  <2>1. UNCHANGED <<stream, written, buffer>> /\ (Writing' => Writing)
    BY <1>5 DEF WriteOut, Created, FooterWritten, PatchHeader, WriteFails, vars, Writing
  <2> QED
    BY <2>1 DEF FrameInv
<1> QED
  BY <1>1, <1>2, <1>3, <1>4, <1>5 DEF Next

LEMMA FrameInit == Init => FrameInv
<1> SUFFICES ASSUME Init PROVE FrameInv
  OBVIOUS
<1>1. Len(stream) = 1 /\ written = << >> /\ buffer = << >>
  BY DEF Init
<1>2. RecordedIn(stream, Len(stream)) = 0
  BY <1>1 DEF RecordedIn
<1> QED
  BY <1>1, <1>2, EmptyShape DEF FrameInv, Ticked, Held, Rest

LEMMA FrameAlways == Spec => [](TypesOK /\ FrameInv)
<1>1. Init => TypesOK /\ FrameInv
  BY TypeInit, FrameInit DEF TypesOK
<1>2. TypesOK /\ FrameInv /\ [Next]_vars => (TypesOK /\ FrameInv)'
  BY TypeStep, FrameStep DEF TypesOK
<1> QED
  BY <1>1, <1>2, PTL DEF Spec

(* The row groups hold the frames that were written, each once and in      *)
(* order, with every column of a row from the same frame, however many     *)
(* frames a row group takes and whichever calls flushed it.                *)
THEOREM FramesAreHeld == Spec => []RowGroupsHoldFrames
<1>1. FrameInv => RowGroupsHoldFrames
  BY DEF FrameInv, HeldIn, RowGroupsHoldFrames, HoldsFrames, HoldsIn, Rows, RowsIn, Recorded,
     RecordedIn
<1> QED
  BY <1>1, FrameAlways, PTL

-----------------------------------------------------------------------------
(* The lap index: ls, cur and w are lap entries, the open lap and the      *)
(* frames written.                                                         *)

StartOf(ls, n) == IF n = 1 THEN FirstTick ELSE ls[n - 1].last + 1
Follow(ls) ==
  \A n \in 1..Len(ls) :
    /\ ls[n].first = StartOf(ls, n)
    /\ ls[n].count > 0
    /\ ls[n].last = ls[n].first + ls[n].count - 1
    /\ n > 1 => ls[n].lap # ls[n - 1].lap
Match(ls, w) ==
  \A n \in 1..Len(ls) : \A k \in 1..Len(w) :
    Tick(k) \in ls[n].first..ls[n].last => w[k].lap = ls[n].lap

(* The open lap begins where the entries end and reaches the last frame.   *)
OpenLap(ls, cur, w) ==
  /\ cur.count = 0 => Len(ls) = 0 /\ Len(w) = 0
  /\ cur.count > 0 =>
       /\ Len(w) > 0
       /\ cur.first = StartOf(ls, Len(ls) + 1)
       /\ cur.first + cur.count - 1 = Tick(Len(w))
       /\ \A n \in 1..Len(ls) : ls[n].last < cur.first
       /\ Len(ls) > 0 => ls[Len(ls)].lap # cur.lap
       /\ \A k \in 1..Len(w) : Tick(k) >= cur.first => w[k].lap = cur.lap

Reach(ls, w) ==
  /\ Len(w) = 0 => Len(ls) = 0
  /\ Len(w) > 0 => Len(ls) > 0 /\ ls[Len(ls)].last = Tick(Len(w))

LEMMA EntryTypes ==
  ASSUME NEW e \in LapEntry
  PROVE  e.first \in Int /\ e.last \in Int /\ e.count \in Nat
  BY DEF LapEntry

(* The open lap becomes the last entry. *)
LEMMA CloseKeeps ==
  ASSUME NEW ls \in Seq(LapEntry), NEW cur \in Current, NEW w \in Seq(Frame),
         Follow(ls), Match(ls, w), OpenLap(ls, cur, w), cur.count > 0,
         NEW e \in LapEntry, e.lap = cur.lap, e.first = cur.first, e.count = cur.count,
         e.last = Tick(Len(w))
  PROVE  LET ls2 == Append(ls, e)
         IN  /\ Follow(ls2) /\ Match(ls2, w)
             /\ ls2 \in Seq(LapEntry) /\ Len(ls2) = Len(ls) + 1 /\ Len(ls) \in Nat
             /\ ls2[Len(ls2)] = e
             /\ \A n \in 1..Len(ls2) : ls2[n].last <= Tick(Len(w))
<1> DEFINE ls2 == Append(ls, e)
<1>1. /\ ls2 \in Seq(LapEntry) /\ Len(ls2) = Len(ls) + 1 /\ Len(ls) \in Nat
      /\ \A n \in 1..Len(ls) : ls2[n] = ls[n]
      /\ ls2[Len(ls) + 1] = e
  BY AppendShape
<1> HIDE DEF ls2
<1>2. /\ cur.first = StartOf(ls, Len(ls) + 1)
      /\ cur.first + cur.count - 1 = Tick(Len(w))
      /\ Len(ls) > 0 => ls[Len(ls)].lap # cur.lap
  BY DEF OpenLap
<1>3. \A n \in 1..Len(ls) : ls[n].last < cur.first
  BY DEF OpenLap
<1>4. \A k \in 1..Len(w) : Tick(k) >= cur.first => w[k].lap = cur.lap
  BY DEF OpenLap
<1>5. ASSUME NEW n \in 1..Len(ls2)
      PROVE  StartOf(ls2, n) = StartOf(ls, n)
  <2>1. CASE n = 1
    BY <2>1 DEF StartOf
  <2>2. CASE n # 1
    <3>1. n - 1 \in 1..Len(ls)
      BY <1>1, <2>2
    <3> QED
      BY <1>1, <2>2, <3>1 DEF StartOf
  <2> QED
    BY <2>1, <2>2
<1>6. ASSUME NEW n \in 1..Len(ls2)
      PROVE  /\ ls2[n].first = StartOf(ls2, n)
             /\ ls2[n].count > 0
             /\ ls2[n].last = ls2[n].first + ls2[n].count - 1
             /\ n > 1 => ls2[n].lap # ls2[n - 1].lap
  <2>1. CASE n \in 1..Len(ls)
    <3>1. ls2[n] = ls[n] /\ (n > 1 => ls2[n - 1] = ls[n - 1])
      BY <1>1, <2>1
    <3> QED
      BY <1>5, <2>1, <3>1 DEF Follow
  <2>2. CASE n = Len(ls) + 1
    <3>1. ls2[n] = e
      BY <1>1, <2>2
    <3>2. n > 1 => n - 1 = Len(ls) /\ ls2[n - 1] = ls[Len(ls)] /\ Len(ls) > 0
      BY <1>1, <2>2
    <3>3. e.first = StartOf(ls2, n)
      BY <1>2, <1>5, <2>2
    <3>4. e.last = e.first + e.count - 1
      BY <1>2
    <3>5. n > 1 => ls2[n].lap # ls2[n - 1].lap
      BY <1>2, <3>1, <3>2
    <3> QED
      BY <3>1, <3>3, <3>4, <3>5
  <2> QED
    BY <1>1, <2>1, <2>2
<1>7. Follow(ls2)
  BY <1>6 DEF Follow
<1>8. ASSUME NEW n \in 1..Len(ls2), NEW k \in 1..Len(w),
             Tick(k) \in ls2[n].first..ls2[n].last
      PROVE  w[k].lap = ls2[n].lap
  <2>1. CASE n \in 1..Len(ls)
    BY <1>1, <1>8, <2>1 DEF Match
  <2>2. CASE n = Len(ls) + 1
    <3>1. ls2[n] = e
      BY <1>1, <2>2
    <3>2. Tick(k) >= cur.first
      BY <1>8, <3>1
    <3> QED
      BY <1>4, <3>1, <3>2
  <2> QED
    BY <1>1, <2>1, <2>2
<1>9. Match(ls2, w)
  BY <1>8 DEF Match
<1>10. ASSUME NEW n \in 1..Len(ls2) PROVE ls2[n].last <= Tick(Len(w))
  <2>1. Tick(Len(w)) \in Int /\ cur.first <= Tick(Len(w))
    BY <1>2, FileAssumption DEF Tick, Current, FileAssumption
  <2>2. CASE n \in 1..Len(ls)
    <3>1. ls2[n] = ls[n] /\ ls[n].last < cur.first
      BY <1>1, <1>3, <2>2
    <3>a. ls[n] \in LapEntry
      BY <2>2
    <3>2. ls[n].last \in Int /\ cur.first \in Int
      BY <3>a DEF LapEntry, Current
    <3> QED
      BY <2>1, <3>1, <3>2
  <2>3. CASE n = Len(ls) + 1
    BY <1>1, <2>1, <2>3
  <2> QED
    BY <1>1, <2>2, <2>3
<1>11. ls2[Len(ls2)] = e
  BY <1>1
<1> QED
  BY <1>1, <1>7, <1>9, <1>10, <1>11 DEF ls2

(* A frame of the open lap. *)
LEMMA SameLapKeeps ==
  ASSUME NEW ls \in Seq(LapEntry), NEW cur \in Current, NEW w \in Seq(Frame),
         Match(ls, w), OpenLap(ls, cur, w), cur.count > 0,
         NEW f \in Frame, f.tick = Tick(Len(w) + 1), f.lap = cur.lap,
         NEW cur2 \in Current, cur2.lap = cur.lap, cur2.first = cur.first,
         cur2.count = cur.count + 1
  PROVE  Match(ls, Append(w, f)) /\ OpenLap(ls, cur2, Append(w, f))
<1> DEFINE w2 == Append(w, f)
<1>1. /\ w2 \in Seq(Frame) /\ Len(w2) = Len(w) + 1 /\ Len(w) \in Nat
      /\ \A k \in 1..Len(w) : w2[k] = w[k]
      /\ w2[Len(w) + 1] = f
  BY AppendShape
<1> HIDE DEF w2
<1>2. /\ cur.first = StartOf(ls, Len(ls) + 1)
      /\ cur.first + cur.count - 1 = Tick(Len(w))
      /\ Len(ls) > 0 => ls[Len(ls)].lap # cur.lap
  BY DEF OpenLap
<1>3. \A n \in 1..Len(ls) : ls[n].last < cur.first
  BY DEF OpenLap
<1>4. \A k \in 1..Len(w) : Tick(k) >= cur.first => w[k].lap = cur.lap
  BY DEF OpenLap
<1>5. /\ cur.first \in Int /\ cur.count \in Nat /\ cur2.count > 0
      /\ Tick(Len(w)) \in Int /\ Tick(Len(w) + 1) = Tick(Len(w)) + 1
  BY <1>1, FileAssumption DEF Current, Tick, FileAssumption
<1>6. cur2.first + cur2.count - 1 = Tick(Len(w2))
  BY <1>1, <1>2, <1>5
<1>7. Tick(Len(w) + 1) >= cur.first
  BY <1>2, <1>5
<1>8. ASSUME NEW k \in 1..Len(w2), Tick(k) >= cur2.first PROVE w2[k].lap = cur2.lap
  <2>1. CASE k \in 1..Len(w)
    BY <1>1, <1>4, <1>8, <2>1
  <2>2. CASE k = Len(w) + 1
    BY <1>1, <2>2
  <2> QED
    BY <1>1, <2>1, <2>2
<1>9. ASSUME NEW n \in 1..Len(ls), NEW k \in 1..Len(w2),
             Tick(k) \in ls[n].first..ls[n].last
      PROVE  w2[k].lap = ls[n].lap
  <2>1. CASE k \in 1..Len(w)
    BY <1>1, <1>9, <2>1 DEF Match
  <2>2. CASE k = Len(w) + 1
    <3>1. ls[n] \in LapEntry
      OBVIOUS
    <3>2. ls[n].last \in Int /\ ls[n].last < cur.first
      BY <1>3, <3>1 DEF LapEntry
    <3>3. ls[n].first \in Int
      BY <3>1 DEF LapEntry
    <3>4. Tick(k) <= ls[n].last
      BY <1>9, <3>2, <3>3
    <3>5. Tick(k) >= cur.first /\ Tick(k) \in Int
      BY <1>5, <1>7, <2>2
    <3> QED
      BY <1>5, <3>2, <3>4, <3>5
  <2> QED
    BY <1>1, <2>1, <2>2
<1>10. Match(ls, w2)
  BY <1>9 DEF Match
<1>11. Len(w2) > 0 /\ cur2.count > 0
  BY <1>1, <1>5
<1>12. OpenLap(ls, cur2, w2)
  BY <1>2, <1>3, <1>6, <1>8, <1>11 DEF OpenLap
<1> QED
  BY <1>10, <1>12 DEF w2

(* The first frame of a lap, after the entries ls have reached the frame   *)
(* before it.                                                              *)
LEMMA NextLapKeeps ==
  ASSUME NEW ls \in Seq(LapEntry), NEW w \in Seq(Frame), Match(ls, w),
         NEW f \in Frame, f.tick = Tick(Len(w) + 1),
         Tick(Len(w) + 1) = StartOf(ls, Len(ls) + 1),
         \A n \in 1..Len(ls) : ls[n].last <= Tick(Len(w)),
         Len(ls) > 0 => ls[Len(ls)].lap # f.lap,
         NEW cur2 \in Current, cur2.lap = f.lap, cur2.first = f.tick, cur2.count = 1
  PROVE  Match(ls, Append(w, f)) /\ OpenLap(ls, cur2, Append(w, f))
<1> DEFINE w2 == Append(w, f)
<1>1. /\ w2 \in Seq(Frame) /\ Len(w2) = Len(w) + 1 /\ Len(w) \in Nat
      /\ \A k \in 1..Len(w) : w2[k] = w[k]
      /\ w2[Len(w) + 1] = f
  BY AppendShape
<1> HIDE DEF w2
<1>2. /\ Tick(Len(w)) \in Int /\ Tick(Len(w) + 1) = Tick(Len(w)) + 1
      /\ \A k \in 1..Len(w) : Tick(k) \in Int /\ Tick(k) <= Tick(Len(w))
  BY <1>1, FileAssumption DEF Tick, FileAssumption
<1>3. \A n \in 1..Len(ls) : ls[n].last \in Int /\ ls[n].last < cur2.first
  <2> SUFFICES ASSUME NEW n \in 1..Len(ls)
               PROVE  ls[n].last \in Int /\ ls[n].last < cur2.first
    OBVIOUS
  <2>1. ls[n] \in LapEntry /\ ls[n].last <= Tick(Len(w))
    OBVIOUS
  <2>2. ls[n].last \in Int
    BY <2>1, EntryTypes
  <2> QED
    BY <1>2, <2>1, <2>2
<1>4. ASSUME NEW k \in 1..Len(w2), Tick(k) >= cur2.first PROVE w2[k].lap = cur2.lap
  <2>1. k \notin 1..Len(w)
    <3>1. cur2.first = Tick(Len(w)) + 1
      BY <1>2
    <3> QED
      BY <1>2, <1>4, <3>1
  <2>2. k = Len(w) + 1
    BY <1>1, <2>1
  <2> QED
    BY <1>1, <2>2
<1>5. ASSUME NEW n \in 1..Len(ls), NEW k \in 1..Len(w2),
             Tick(k) \in ls[n].first..ls[n].last
      PROVE  w2[k].lap = ls[n].lap
  <2>1. CASE k \in 1..Len(w)
    BY <1>1, <1>5, <2>1 DEF Match
  <2>2. CASE k = Len(w) + 1
    <3>1. ls[n] \in LapEntry
      OBVIOUS
    <3>2. ls[n].first \in Int /\ ls[n].last \in Int
      BY <3>1, EntryTypes
    <3>3. Tick(k) <= ls[n].last
      BY <1>5, <3>2
    <3>4. Tick(k) = cur2.first
      BY <2>2
    <3> QED
      BY <1>2, <1>3, <2>2, <3>3, <3>4
  <2> QED
    BY <1>1, <2>1, <2>2
<1>6. cur2.first + cur2.count - 1 = Tick(Len(w2))
  BY <1>1, <1>2
<1> QED
  BY <1>3, <1>4, <1>5, <1>6 DEF Match, OpenLap, w2

LapInv ==
  /\ Follow(laps) /\ Match(laps, written)
  /\ Writing => OpenLap(laps, current, written)
  /\ pc \in {"footer", "patch", "finished"} => Reach(laps, written)

LEMMA ClosedEntry ==
  ASSUME TypesOK, NEW last \in Int
  PROVE  LET e == Closed(last)
         IN  /\ e \in LapEntry /\ e.lap = current.lap /\ e.first = current.first
             /\ e.count = current.count /\ e.last = last
  BY LapTypes DEF TypesOK, Closed

(* write_frame's bookkeeping. *)
LEMMA CountLapKeeps ==
  ASSUME TypesOK, LapInv, Writing,
         NEW f \in Frame, f.tick = Tick(Len(written) + 1), CountLap(f)
  PROVE  /\ Follow(laps') /\ Match(laps', Append(written, f))
         /\ OpenLap(laps', current', Append(written, f))
<1>0. /\ laps \in Seq(LapEntry) /\ current \in Current /\ current' \in Current
      /\ written \in Seq(Frame) /\ Len(written) \in Nat /\ Len(laps) \in Nat
  BY CountLapTypes DEF TypesOK, TypeOK_Laps, TypeOK_Rest
<1>1. Follow(laps) /\ Match(laps, written) /\ OpenLap(laps, current, written)
  BY DEF LapInv
<1>2. /\ Tick(Len(written)) \in Int /\ Tick(Len(written) + 1) = Tick(Len(written)) + 1
      /\ f.tick - 1 = Tick(Len(written))
  BY <1>0, FileAssumption DEF Tick, FileAssumption
<1>3. CASE /\ current.count > 0 /\ current.lap = f.lap /\ laps' = laps
           /\ current' = [lap |-> current.lap, first |-> current.first,
                          count |-> current.count + 1]
  <2>1. current'.lap = current.lap /\ current'.first = current.first
        /\ current'.count = current.count + 1
    BY <1>3
  <2> QED
    BY <1>0, <1>1, <1>3, <2>1, SameLapKeeps
<1>4. CASE /\ current.count = 0 /\ laps' = laps
           /\ current' = [lap |-> f.lap, first |-> f.tick, count |-> 1]
  <2>1. current'.lap = f.lap /\ current'.first = f.tick /\ current'.count = 1
    BY <1>4
  <2>2. Len(laps) = 0 /\ Len(written) = 0
    BY <1>1, <1>4 DEF OpenLap
  <2>3. Tick(Len(written) + 1) = StartOf(laps, Len(laps) + 1)
    BY <2>2, FileAssumption DEF Tick, StartOf, FileAssumption
  <2>4. /\ \A n \in 1..Len(laps) : laps[n].last <= Tick(Len(written))
        /\ Len(laps) > 0 => laps[Len(laps)].lap # f.lap
    BY <2>2
  <2>5. Match(laps, Append(written, f)) /\ OpenLap(laps, current', Append(written, f))
    BY <1>0, <1>1, <2>1, <2>3, <2>4, NextLapKeeps
  <2> QED
    BY <1>1, <1>4, <2>5
<1>5. CASE /\ current.count > 0 /\ current.lap # f.lap
           /\ laps' = Append(laps, Closed(f.tick - 1))
           /\ current' = [lap |-> f.lap, first |-> f.tick, count |-> 1]
  <2> DEFINE e == Closed(f.tick - 1)
  <2>1. current'.lap = f.lap /\ current'.first = f.tick /\ current'.count = 1
    BY <1>5
  <2>2. /\ e \in LapEntry /\ e.lap = current.lap /\ e.first = current.first
        /\ e.count = current.count /\ e.last = Tick(Len(written))
    BY <1>2, ClosedEntry
  <2>3. laps' = Append(laps, e)
    BY <1>5
  <2> HIDE DEF e
  <2>4. /\ Follow(laps') /\ Match(laps', written)
        /\ laps' \in Seq(LapEntry) /\ Len(laps') = Len(laps) + 1
        /\ laps'[Len(laps')] = e
        /\ \A n \in 1..Len(laps') : laps'[n].last <= Tick(Len(written))
    <3>1. current.count > 0
      BY <1>5
    <3> QED
      BY <1>0, <1>1, <2>2, <2>3, <3>1, CloseKeeps
  <2>5. Tick(Len(written) + 1) = StartOf(laps', Len(laps') + 1)
    <3>1. Len(laps') + 1 # 1 /\ Len(laps') + 1 - 1 = Len(laps')
      BY <1>0, <2>4
    <3> QED
      BY <1>2, <2>2, <2>4, <3>1 DEF StartOf
  <2>6. Len(laps') > 0 => laps'[Len(laps')].lap # f.lap
    BY <1>5, <2>2, <2>4
  <2> QED
    BY <1>0, <2>1, <2>4, <2>5, <2>6, NextLapKeeps
<1> QED
  BY <1>3, <1>4, <1>5, CountLapCases DEF TypesOK

LEMMA FooterLaps ==
  ASSUME TypesOK, LapInv, Writing, WriteFooter
  PROVE  LapInv'
<1>0. /\ laps \in Seq(LapEntry) /\ current \in Current
      /\ written \in Seq(Frame) /\ Len(written) \in Nat /\ Len(laps) \in Nat
      /\ current.count \in Nat
  BY DEF TypesOK, TypeOK_Laps, TypeOK_Rest, Current
<1>1. Follow(laps) /\ Match(laps, written) /\ OpenLap(laps, current, written)
  BY DEF LapInv
<1>2. pc' = "footer" /\ written' = written
  BY DEF WriteFooter
<1>3. CASE current.count = 0
  <2>1. laps' = laps /\ Len(laps) = 0 /\ Len(written) = 0
    BY <1>1, <1>3 DEF WriteFooter, OpenLap
  <2> QED
    BY <1>1, <1>2, <2>1 DEF LapInv, Reach, Writing
<1>4. CASE current.count > 0
  <2> DEFINE e == Closed(current.first + current.count - 1)
  <2>1. current.first + current.count - 1 = Tick(Len(written))
    BY <1>1, <1>4 DEF OpenLap
  <2>2. Tick(Len(written)) \in Int
    BY <1>0, FileAssumption DEF Tick, FileAssumption
  <2>3. /\ e \in LapEntry /\ e.lap = current.lap /\ e.first = current.first
        /\ e.count = current.count /\ e.last = Tick(Len(written))
    BY <2>1, <2>2, ClosedEntry
  <2>4. laps' = Append(laps, e)
    BY <1>4 DEF WriteFooter
  <2> HIDE DEF e
  <2>5. /\ Follow(laps') /\ Match(laps', written)
        /\ Len(laps') = Len(laps) + 1 /\ laps'[Len(laps')] = e
    BY <1>0, <1>1, <1>4, <2>3, <2>4, CloseKeeps
  <2>6. Len(written) > 0
    BY <1>1, <1>4 DEF OpenLap
  <2>7. Reach(laps', written)
    BY <1>0, <2>3, <2>5, <2>6 DEF Reach
  <2> QED
    BY <1>2, <2>5, <2>7 DEF LapInv, Writing
<1> QED
  BY <1>0, <1>3, <1>4

LEMMA LapStep == TypesOK /\ LapInv /\ [Next]_vars => LapInv'
<1> SUFFICES ASSUME TypesOK, LapInv, [Next]_vars PROVE LapInv'
  OBVIOUS
<1> USE DEF fileVars, lapVars
<1>1. CASE WriteFrame
  <2>1. PICK lap \in Laps :
          LET f == [tick |-> FirstTick + Len(written), lap |-> lap]
              rows == Append(buffer, f)
          IN  /\ CountLap(f)
              /\ written' = Append(written, f)
              /\ IF Len(rows) >= ChunkRows
                 THEN FlushRowGroup(rows, "write")
                 ELSE buffer' = rows /\ UNCHANGED <<stream, skip, pc, caller>>
    BY <1>1 DEF WriteFrame
  <2> DEFINE f == [tick |-> FirstTick + Len(written), lap |-> lap]
             rows == Append(buffer, f)
             w == Append(written, f)
  <2>2. f \in Frame
    BY FrameTypes DEF TypesOK
  <2>3. f.tick = Tick(Len(written) + 1)
    <3>1. Len(written) \in Nat
      BY DEF TypesOK, TypeOK_Rest
    <3> QED
      BY <3>1, FileAssumption DEF Tick, FileAssumption
  <2>4. CountLap(f) /\ written' = w
    BY <2>1
  <2>5. Writing /\ pc' \in {"open", "rowgroup"}
    BY <1>1, <2>1 DEF WriteFrame, FlushRowGroup, Writing
  <2> HIDE DEF f
  <2>6. Follow(laps') /\ Match(laps', w) /\ OpenLap(laps', current', w)
    BY <2>2, <2>3, <2>4, <2>5, CountLapKeeps
  <2> HIDE DEF w
  <2> QED
    BY <2>4, <2>5, <2>6 DEF LapInv, Writing
<1>2. CASE Flush
  <2>1. UNCHANGED <<laps, current, written>> /\ pc = "open" /\ pc' = "rowgroup"
    BY <1>2 DEF Flush, FlushRowGroup
  <2> QED
    BY <2>1 DEF LapInv, Writing
<1>3. CASE Finish
  <2>1. CASE FlushRowGroup(buffer, "finish") /\ UNCHANGED <<laps, current, written>>
    <3>1. pc = "open" /\ pc' = "rowgroup"
      BY <1>3, <2>1 DEF Finish, FlushRowGroup
    <3> QED
      BY <2>1, <3>1 DEF LapInv, Writing
  <2>2. CASE WriteFooter
    BY <1>3, <2>2, FooterLaps DEF Finish, Writing
  <2> QED
    BY <1>3, <2>1, <2>2 DEF Finish
<1>4. CASE RowGroupWritten
  <2>1. CASE WriteFooter
    BY <1>4, <2>1, FooterLaps DEF RowGroupWritten, Writing
  <2>2. CASE ~WriteFooter
    <3>1. UNCHANGED <<laps, current, written>> /\ pc = "rowgroup" /\ pc' = "open"
      BY <1>4, <2>2 DEF RowGroupWritten
    <3> QED
      BY <3>1 DEF LapInv, Writing
  <2> QED
    BY <2>1, <2>2
<1>5. CASE WriteOut \/ Created \/ FooterWritten \/ PatchHeader \/ WriteFails \/ UNCHANGED vars
  <2>1. /\ UNCHANGED <<laps, current, written>> /\ (Writing' => Writing)
        /\ pc' \in {"footer", "patch", "finished"} => pc \in {"footer", "patch", "finished"}
    BY <1>5 DEF WriteOut, Created, FooterWritten, PatchHeader, WriteFails, vars, Writing
  <2> QED
    BY <2>1 DEF LapInv
<1> QED
  BY <1>1, <1>2, <1>3, <1>4, <1>5 DEF Next

LEMMA LapInit == Init => LapInv
<1> SUFFICES ASSUME Init PROVE LapInv
  OBVIOUS
<1>1. /\ Len(laps) = 0 /\ Len(written) = 0 /\ current.count = 0
      /\ pc = "create"
  BY EmptyShape DEF Init, NoLap
<1> QED
  BY <1>1 DEF LapInv, Follow, Match, OpenLap

(* The lap index of a finished file partitions the recording into stints   *)
(* of one lap each, for any chunk size and order of laps.                  *)
THEOREM LapsAreExact == Spec => []LapIndexExact
<1>1. Init => TypesOK /\ LapInv
  BY TypeInit, LapInit DEF TypesOK
<1>2. TypesOK /\ LapInv /\ [Next]_vars => (TypesOK /\ LapInv)'
  BY TypeStep, LapStep DEF TypesOK
<1>3. TypesOK /\ LapInv => LapIndexExact
  <2> SUFFICES ASSUME TypesOK, LapInv PROVE LapIndexExact
    OBVIOUS
  <2>1. LapsFollow /\ LapsMatch
    BY DEF LapInv, LapsFollow, LapsMatch, Follow, Match, StartOf
  <2>2. LapsReach
    <3>1. laps \in Seq(LapEntry) /\ written \in Seq(Frame)
      BY DEF TypesOK, TypeOK_Laps, TypeOK_Rest
    <3>2. /\ written = << >> <=> Len(written) = 0
          /\ laps = << >> <=> Len(laps) = 0
          /\ Len(written) \in Nat
      BY <3>1, EmptyShape
    <3> QED
      BY <3>2 DEF LapInv, Reach, LapsReach
  <2> QED
    BY <2>1, <2>2 DEF LapIndexExact
<1> QED
  BY <1>1, <1>2, <1>3, PTL DEF Spec

-----------------------------------------------------------------------------
(* The file is a log.                                                      *)

(* What is in the file at each point of a call. *)
IsFooter(i) == stream[i].kind = "FTR2"
Closing == pc \in {"footer", "patch", "finished"}

ShapeInv ==
  /\ \A i \in 2..Len(stream) : stream[i].kind = "RGHD" \/ (IsFooter(i) /\ i = Len(stream))
  /\ Closing => /\ Len(stream) > 1 /\ IsFooter(Len(stream)) /\ footer_at = Len(stream)
                /\ RecordedIn(stream, Len(stream) - 1) = Len(written)
  /\ pc \in {"open", "patch", "finished"} => ondisk = Len(stream)
  /\ ondisk = Len(stream) => cut = "none"
  /\ pc \notin {"finished", "failed"} => footer_offset = 0
  /\ pc = "rowgroup" => buffer = << >>

LEMMA FlushShape ==
  ASSUME TypesOK, FrameInv, FrameInv', NEW rows \in Seq(Frame), NEW by,
         ondisk = Len(stream), cut = "none", footer_offset = 0,
         FlushRowGroup(rows, by), UNCHANGED <<ondisk, cut, footer_offset>>
  PROVE  ShapeInv'
<1>1. /\ stream \in Seq(Unit) /\ RowGroup(rows) \in Unit /\ Len(stream) \in Nat
  BY RowGroupType DEF TypesOK, TypeOK_Units
<1>2. pc' = "rowgroup" /\ buffer' = << >> /\ stream' = Append(stream, RowGroup(rows))
  BY DEF FlushRowGroup
<1>3. Len(stream') = Len(stream) + 1
  BY <1>1, <1>2, AppendShape
<1>4. \A i \in 2..Len(stream') : stream'[i].kind = "RGHD"
  BY <1>2 DEF FrameInv, Writing, Held
<1>5. ondisk' # Len(stream')
  BY <1>1, <1>3
<1> QED
  BY <1>2, <1>4, <1>5 DEF ShapeInv, Closing

LEMMA FooterShape ==
  ASSUME TypesOK, FrameInv, Writing, buffer = << >>, ondisk = Len(stream),
         footer_offset = 0, WriteFooter
  PROVE  ShapeInv'
<1> DEFINE u == Footer(skip, laps')
<1>1. stream \in Seq(Unit) /\ skip \in SUBSET SkipEntry /\ laps' \in Seq(LapEntry)
  BY FooterTypes DEF TypesOK, TypeOK_Units, TypeOK_Laps
<1>2. u \in Unit /\ u.kind = "FTR2"
  BY <1>1, FooterType
<1>3. /\ stream' = Append(stream, u) /\ pc' = "footer" /\ written' = written
      /\ footer_at' = ondisk + 1 /\ ondisk' = ondisk /\ cut' = cut
      /\ footer_offset' = footer_offset
  BY DEF WriteFooter, fileVars
<1> HIDE DEF u
<1>4. /\ Len(stream') = Len(stream) + 1 /\ Len(stream) \in Nat /\ Len(stream) > 0
      /\ stream'[Len(stream) + 1] = u
      /\ \A i \in 2..Len(stream) : stream'[i] = stream[i]
      /\ RecordedIn(stream', Len(stream)) = RecordedIn(stream, Len(stream))
  <2>1. Len(stream) > 0
    BY DEF FrameInv
  <2> DEFINE longer == Append(stream, u)
  <2>2. /\ Len(longer) = Len(stream) + 1 /\ Len(stream) \in Nat
        /\ longer[Len(stream) + 1] = u
        /\ \A i \in 1..Len(stream) : longer[i] = stream[i]
        /\ RecordedIn(longer, Len(stream)) = RecordedIn(stream, Len(stream))
    BY <1>1, <1>2, <2>1, AppendUnit
  <2>3. stream' = longer
    BY <1>3
  <2> HIDE DEF longer
  <2> QED
    BY <2>1, <2>2, <2>3
<1>5. RecordedIn(stream, Len(stream)) = Len(written)
  <2>1. RecordedIn(stream, Len(stream)) \in Nat
        /\ RecordedIn(stream, Len(stream)) + Len(buffer) = Len(written)
    BY DEF FrameInv, Rest
  <2> QED
    BY <2>1, EmptyShape
<1>6. RecordedIn(stream', Len(stream') - 1) = Len(written')
  <2>1. Len(stream') - 1 = Len(stream)
    BY <1>4
  <2> QED
    BY <1>3, <1>4, <1>5, <2>1
<1>7. ASSUME NEW i \in 2..Len(stream')
      PROVE  stream'[i].kind = "RGHD" \/ (stream'[i].kind = "FTR2" /\ i = Len(stream'))
  <2>1. CASE i \in 2..Len(stream)
    BY <1>4, <2>1 DEF FrameInv, Held
  <2>2. CASE i = Len(stream) + 1
    BY <1>2, <1>4, <2>2
  <2> QED
    BY <1>4, <2>1, <2>2
<1>8. ondisk' # Len(stream') /\ footer_at' = Len(stream') /\ Len(stream') > 1
  BY <1>3, <1>4
<1>9. stream'[Len(stream')].kind = "FTR2"
  BY <1>2, <1>4
<1> QED
  BY <1>3, <1>6, <1>7, <1>8, <1>9 DEF ShapeInv, Closing, IsFooter

LEMMA ShapeStep ==
  TypesOK /\ FrameInv /\ FrameInv' /\ ShapeInv /\ [Next]_vars => ShapeInv'
<1> SUFFICES ASSUME TypesOK, FrameInv, FrameInv', ShapeInv, [Next]_vars PROVE ShapeInv'
  OBVIOUS
<1> USE DEF fileVars, lapVars
<1>0. /\ stream \in Seq(Unit) /\ buffer \in Seq(Frame) /\ written \in Seq(Frame)
      /\ Len(stream) \in Nat /\ ondisk \in 0..Len(stream)
  BY DEF TypesOK, TypeOK_Units, TypeOK_Rest
<1>1. CASE WriteFrame
  <2>1. PICK lap \in Laps :
          LET f == [tick |-> FirstTick + Len(written), lap |-> lap]
              rows == Append(buffer, f)
          IN  /\ CountLap(f)
              /\ written' = Append(written, f)
              /\ IF Len(rows) >= ChunkRows
                 THEN FlushRowGroup(rows, "write")
                 ELSE buffer' = rows /\ UNCHANGED <<stream, skip, pc, caller>>
    BY <1>1 DEF WriteFrame
  <2> DEFINE f == [tick |-> FirstTick + Len(written), lap |-> lap]
             rows == Append(buffer, f)
  <2>2. rows \in Seq(Frame)
    BY FrameTypes DEF TypesOK
  <2>3. \/ FlushRowGroup(rows, "write")
        \/ buffer' = rows /\ UNCHANGED <<stream, skip, pc, caller>>
    BY <2>1
  <2> HIDE DEF f, rows
  <2>4. /\ pc = "open" /\ UNCHANGED <<ondisk, cut, footer_offset>>
        /\ ondisk = Len(stream) /\ cut = "none" /\ footer_offset = 0
    BY <1>1 DEF WriteFrame, ShapeInv
  <2>5. CASE FlushRowGroup(rows, "write")
    BY <2>2, <2>4, <2>5, FlushShape
  <2>6. CASE UNCHANGED <<stream, skip, pc, caller>>
    BY <2>4, <2>6 DEF ShapeInv, Closing, IsFooter
  <2> QED
    BY <2>3, <2>5, <2>6
<1>2. CASE Flush
  <2>1. /\ FlushRowGroup(buffer, "flush") /\ UNCHANGED <<ondisk, cut, footer_offset>>
        /\ ondisk = Len(stream) /\ cut = "none" /\ footer_offset = 0
    BY <1>2 DEF Flush, ShapeInv
  <2> QED
    BY <1>0, <2>1, FlushShape
<1>3. CASE Finish
  <2>1. pc = "open" /\ ondisk = Len(stream) /\ cut = "none" /\ footer_offset = 0
    BY <1>3 DEF Finish, ShapeInv
  <2>2. CASE FlushRowGroup(buffer, "finish") /\ UNCHANGED <<ondisk, cut, footer_offset>>
    BY <1>0, <2>1, <2>2, FlushShape
  <2>3. CASE buffer = << >> /\ WriteFooter
    BY <2>1, <2>3, FooterShape DEF Writing
  <2> QED
    BY <1>3, <2>2, <2>3 DEF Finish
<1>4. CASE RowGroupWritten
  <2>1. /\ pc = "rowgroup" /\ ondisk = Len(stream) /\ buffer = << >>
        /\ cut = "none" /\ footer_offset = 0
    BY <1>4 DEF RowGroupWritten, Emptied, ShapeInv
  <2>2. CASE WriteFooter
    BY <2>1, <2>2, FooterShape DEF Writing
  <2>3. CASE ~WriteFooter
    <3>1. pc' = "open" /\ UNCHANGED <<stream, written, ondisk, cut, footer_offset, buffer>>
      BY <1>4, <2>3 DEF RowGroupWritten
    <3> QED
      BY <2>1, <3>1 DEF ShapeInv, Closing, IsFooter
  <2> QED
    BY <2>2, <2>3
<1>5. CASE WriteOut
  <2>1. /\ pc \in {"create", "rowgroup", "footer", "failed"} /\ ondisk < Len(stream)
        /\ UNCHANGED <<pc, stream, written, buffer, footer_at, footer_offset>>
        /\ ondisk' = ondisk \/ cut' = "none"
    BY <1>5 DEF WriteOut
  <2> QED
    BY <1>0, <2>1 DEF ShapeInv, Closing, IsFooter
<1>6. CASE Created \/ FooterWritten
  <2>1. /\ UNCHANGED <<stream, written, buffer, ondisk, cut, footer_at, footer_offset>>
        /\ ondisk = Len(stream)
        /\ \/ pc = "create" /\ pc' = "open"
           \/ pc = "footer" /\ pc' = "patch"
    BY <1>6 DEF Created, FooterWritten, Emptied
  <2> QED
    BY <2>1 DEF ShapeInv, Closing, IsFooter
<1>7. CASE PatchHeader
  <2>1. /\ UNCHANGED <<stream, written, buffer, ondisk, cut, footer_at>>
        /\ pc = "patch" /\ pc' = "finished"
    BY <1>7 DEF PatchHeader
  <2> QED
    BY <2>1 DEF ShapeInv, Closing, IsFooter
<1>8. CASE WriteFails
  <2>1. /\ UNCHANGED <<stream, written, buffer, ondisk, cut, footer_at>>
        /\ pc' = "failed"
    BY <1>8 DEF WriteFails
  <2> QED
    BY <2>1 DEF ShapeInv, Closing, IsFooter
<1>9. CASE UNCHANGED vars
  BY <1>9 DEF vars, ShapeInv, Closing, IsFooter
<1> QED
  BY <1>1, <1>2, <1>3, <1>4, <1>5, <1>6, <1>7, <1>8, <1>9 DEF Next

LEMMA ShapeInit == Init => ShapeInv
<1> SUFFICES ASSUME Init PROVE ShapeInv
  OBVIOUS
<1>1. Len(stream) = 1 /\ pc = "create" /\ cut = "none" /\ footer_offset = 0
  BY DEF Init
<1> QED
  BY <1>1 DEF ShapeInv, Closing

FileInv == TypesOK /\ FrameInv /\ ShapeInv

LEMMA FileAlways == Spec => []FileInv
<1>1. Init => FileInv
  BY TypeInit, FrameInit, ShapeInit DEF FileInv, TypesOK
<1>2. FileInv /\ [Next]_vars => FileInv'
  BY TypeStep, FrameStep, ShapeStep DEF FileInv, TypesOK
<1> QED
  BY <1>1, <1>2, PTL DEF Spec

(* The number of frames in the first n units. *)
DurableIn(st, n) == RecordedIn(st, IF n > 0 /\ st[n].kind = "FTR2" THEN n - 1 ELSE n)

LEMMA DurableIs == Durable = DurableIn(stream, ondisk)
  BY DEF Durable, DurableIn, Recorded, RecordedIn, Rows, RowsIn

LEMMA DurableWas == Durable' = DurableIn(stream', ondisk')
  BY DEF Durable, DurableIn, Recorded, RecordedIn, Rows, RowsIn

LogFrame == [tick : Tick(1)..Tick(MaxFrames), lap : Laps]
seenNow == IF Opens THEN Durable ELSE -1
sealedNow == IF pc = "finished" THEN "yes" ELSE "no"

(* Between two calls the file opens. *)
LEMMA OpensBetween ==
  ASSUME FileInv, pc \in {"open", "patch", "finished"} \/ ondisk = Len(stream),
         footer_offset \in {0, Len(stream)}, footer_offset # 0 => IsFooter(Len(stream))
  PROVE  Opens
<1>1. ondisk = Len(stream) /\ cut = "none" /\ Len(stream) \in Nat /\ Len(stream) > 0
  BY DEF FileInv, ShapeInv, FrameInv, TypesOK, TypeOK_Units
<1>2. ~ScanFails
  BY <1>1 DEF ScanFails
<1>3. ~FooterFails
  BY <1>1 DEF FooterFails, HasFooter, IsFooter
<1> QED
  BY <1>1, <1>2, <1>3 DEF Opens

(* A unit that is appended leaves the count of what is in the file. *)
LEMMA AppendDurable ==
  ASSUME FileInv, NEW u \in Unit, stream' = Append(stream, u), ondisk' = ondisk
  PROVE  Durable' = Durable
<1>1. stream \in Seq(Unit) /\ Len(stream) > 0 /\ ondisk \in 0..Len(stream) /\ Len(stream) \in Nat
  BY DEF FileInv, TypesOK, TypeOK_Units, TypeOK_Rest, FrameInv
<1>2. /\ \A i \in 1..Len(stream) : stream'[i] = stream[i]
  BY <1>1, AppendUnit
<1>3. \A i \in 0..Len(stream) : RecordedIn(stream', i) = RecordedIn(stream, i)
  <2> SUFFICES ASSUME NEW i \in 0..Len(stream)
               PROVE  RecordedIn(stream', i) = RecordedIn(stream, i)
    OBVIOUS
  <2>1. CASE i < 2
    BY <2>1 DEF RecordedIn
  <2>2. CASE ~(i < 2)
    <3>1. RowsIn(stream', i) = RowsIn(stream, i)
      BY <1>1, <1>2, <2>2 DEF RowsIn
    <3> QED
      BY <3>1 DEF RecordedIn
  <2> QED
    BY <2>1, <2>2
<1>4. DurableIn(stream', ondisk) = DurableIn(stream, ondisk)
  BY <1>1, <1>2, <1>3 DEF DurableIn
<1> QED
  BY <1>4, DurableIs, DurableWas

(* What has reached the file is no more than was written, and one unit     *)
(* more adds to it.                                                        *)
LEMMA UnitPersists ==
  ASSUME FileInv, ondisk < Len(stream)
  PROVE  /\ DurableIn(stream, ondisk) \in Nat
         /\ DurableIn(stream, ondisk + 1) \in DurableIn(stream, ondisk)..Len(written)
<1>1. stream \in Seq(Unit) /\ ondisk \in Nat /\ Len(stream) \in Nat /\ Len(written) \in Nat
  BY DEF FileInv, TypesOK, TypeOK_Units, TypeOK_Rest
<1>2. CASE ondisk = 0
  <2>1. \A n \in {0, 1} : DurableIn(stream, n) = 0
    BY DEF DurableIn, RecordedIn
  <2> QED
    BY <1>1, <1>2, <2>1
<1>3. CASE ondisk >= 1
  <2> DEFINE n == ondisk
  <2>1. n + 1 \in 2..Len(stream) /\ n \in Nat /\ n + 1 - 1 = n
    BY <1>1, <1>3
  <2>2. DurableIn(stream, n) = RecordedIn(stream, n)
    <3>1. CASE n = 1
      BY <3>1 DEF DurableIn, RecordedIn
    <3>2. CASE n # 1
      <4>1. n \in 2..Len(stream) /\ n # Len(stream)
        BY <1>1, <1>3, <3>2
      <4>2. stream[n].kind = "RGHD"
        BY <4>1 DEF FileInv, ShapeInv
      <4> QED
        BY <4>2 DEF DurableIn
    <3> QED
      BY <3>1, <3>2
  <2>3. CASE stream[n + 1].kind = "RGHD"
    <3>1. HeldIn(stream, written, n + 1)
      BY <2>1, <2>3 DEF FileInv, FrameInv
    <3>2. /\ RecordedIn(stream, n) \in Nat
          /\ RecordedIn(stream, n + 1) \in 0..Len(written)
          /\ RecordedIn(stream, n + 1) = RecordedIn(stream, n) + Len(RowsIn(stream, n + 1))
          /\ Len(RowsIn(stream, n + 1)) > 0
      BY <2>1, <3>1 DEF HeldIn, HoldsIn
    <3>3. DurableIn(stream, n + 1) = RecordedIn(stream, n + 1)
      BY <2>3 DEF DurableIn
    <3>4. Len(RowsIn(stream, n + 1)) \in Int
      <4>1. stream[n + 1] \in Unit
        BY <1>1, <2>1
      <4>2. RowsIn(stream, n + 1) \in Seq(Frame)
        BY <4>1, FileAssumption DEF Unit, RowsIn, FileAssumption
      <4> QED
        BY <4>2
    <3> QED
      BY <1>1, <2>2, <3>2, <3>3, <3>4
  <2>4. CASE stream[n + 1].kind # "RGHD"
    <3>1. stream[n + 1].kind = "FTR2" /\ n + 1 = Len(stream)
      BY <2>1, <2>4 DEF FileInv, ShapeInv, IsFooter
    <3>2. DurableIn(stream, n + 1) = RecordedIn(stream, n)
      BY <2>1, <3>1 DEF DurableIn
    <3>3. RecordedIn(stream, n) \in 0..Len(written)
      <4>1. CASE n = 1
        BY <1>1, <4>1 DEF RecordedIn
      <4>2. CASE n # 1
        <5>1. n \in 2..Len(stream) /\ n # Len(stream)
          BY <1>1, <1>3, <4>2
        <5>2. stream[n].kind = "RGHD"
          BY <5>1 DEF FileInv, ShapeInv
        <5> QED
          BY <5>1, <5>2 DEF FileInv, FrameInv, HeldIn
      <4> QED
        BY <4>1, <4>2
    <3> QED
      BY <1>1, <2>2, <3>2, <3>3
  <2> QED
    BY <2>3, <2>4
<1> QED
  BY <1>1, <1>2, <1>3

(* A step that leaves the frames, the prefix and what a reader sees.       *)
LEMMA Stutters ==
  ASSUME written' = written, Durable' = Durable, Opens' <=> Opens,
         pc # "finished", pc' # "finished"
  PROVE  UNCHANGED Log!logVars
<1>1. seenNow' = seenNow /\ sealedNow' = sealedNow
  BY DEF seenNow, sealedNow
<1> QED
  BY <1>1 DEF Log!logVars, seenNow, sealedNow

LEMMA SameFile ==
  ASSUME UNCHANGED <<stream, ondisk>>
  PROVE  Durable' = Durable
<1>1. DurableIn(stream', ondisk') = DurableIn(stream, ondisk)
  OBVIOUS
<1> QED
  BY <1>1, DurableIs, DurableWas

(* The file opens before and after a unit was handed over. *)
LEMMA OpensStill ==
  ASSUME FileInv, FileInv', ondisk = Len(stream), ondisk' = ondisk,
         cut' = cut, footer_offset = 0, footer_offset' = 0
  PROVE  Opens /\ Opens'
<1>1. /\ cut = "none" /\ cut' = "none" /\ ondisk \in Nat /\ ondisk > 0
  BY DEF FileInv, ShapeInv, TypesOK, TypeOK_Rest, FrameInv
<1>2. Opens
  BY <1>1 DEF Opens, FooterFails, HasFooter, ScanFails
<1>3. Opens'
  BY <1>1 DEF Opens, FooterFails, HasFooter, ScanFails
<1> QED
  BY <1>2, <1>3

LEMMA FlushIsStutter ==
  ASSUME FileInv, FileInv', NEW rows \in Seq(Frame), NEW by, FlushRowGroup(rows, by),
         pc = "open", UNCHANGED fileVars
  PROVE  Durable' = Durable /\ Opens /\ Opens' /\ pc' # "finished"
<1>1. ondisk = Len(stream) /\ footer_offset = 0
  BY DEF FileInv, ShapeInv
<1>2. /\ stream' = Append(stream, RowGroup(rows)) /\ pc' = "rowgroup"
      /\ ondisk' = ondisk /\ cut' = cut /\ footer_offset' = footer_offset
  BY DEF FlushRowGroup, fileVars
<1> QED
  BY <1>1, <1>2, RowGroupType, AppendDurable, OpensStill

LEMMA FooterIsStutter ==
  ASSUME FileInv, FileInv', WriteFooter, ondisk = Len(stream), footer_offset = 0,
         pc # "finished"
  PROVE  UNCHANGED Log!logVars
<1>1. skip \in SUBSET SkipEntry /\ laps' \in Seq(LapEntry)
  BY FooterTypes DEF FileInv, TypesOK, TypeOK_Units, TypeOK_Laps
<1>2. /\ stream' = Append(stream, Footer(skip, laps')) /\ pc' = "footer"
      /\ ondisk' = ondisk /\ cut' = cut /\ footer_offset' = footer_offset
      /\ written' = written
  BY DEF WriteFooter, fileVars
<1>3. Durable' = Durable
  BY <1>1, <1>2, FooterType, AppendDurable
<1>4. Opens /\ Opens'
  BY <1>2, OpensStill
<1> QED
  BY <1>2, <1>3, <1>4, Stutters

LEMMA LogStep ==
  ASSUME FileInv, FileInv', [Next]_vars
  PROVE  [Log!LogNext]_(Log!logVars)
<1> USE DEF fileVars, lapVars
<1>0. /\ written \in Seq(Frame) /\ buffer \in Seq(Frame) /\ Len(written) \in Nat
      /\ Len(stream) \in Nat /\ ondisk \in 0..Len(stream)
  BY DEF FileInv, TypesOK, TypeOK_Rest, TypeOK_Units
<1>1. CASE WriteFrame
  <2>1. PICK lap \in Laps :
          LET f == [tick |-> FirstTick + Len(written), lap |-> lap]
              rows == Append(buffer, f)
          IN  /\ CountLap(f)
              /\ written' = Append(written, f)
              /\ IF Len(rows) >= ChunkRows
                 THEN FlushRowGroup(rows, "write")
                 ELSE buffer' = rows /\ UNCHANGED <<stream, skip, pc, caller>>
    BY <1>1 DEF WriteFrame
  <2> DEFINE f == [tick |-> FirstTick + Len(written), lap |-> lap]
             rows == Append(buffer, f)
  <2>2. rows \in Seq(Frame)
    BY FrameTypes DEF FileInv, TypesOK
  <2>3. f \in LogFrame
    <3>1. FirstTick + Len(written) \in Tick(1)..Tick(MaxFrames)
      BY <1>0, <1>1, FileAssumption DEF WriteFrame, Tick, FileAssumption
    <3> QED
      BY <3>1 DEF LogFrame
  <2>4. /\ written' = Append(written, f)
        /\ \/ FlushRowGroup(rows, "write")
           \/ buffer' = rows /\ UNCHANGED <<stream, skip, pc, caller>>
    BY <2>1
  <2> HIDE DEF f, rows
  <2>5. /\ pc = "open" /\ UNCHANGED <<ondisk, cut, footer_offset>>
        /\ ondisk = Len(stream) /\ footer_offset = 0
    BY <1>1 DEF WriteFrame, FileInv, ShapeInv
  <2>6. Durable' = Durable /\ Opens /\ Opens' /\ pc' # "finished"
    <3>1. CASE FlushRowGroup(rows, "write")
      BY <2>2, <2>5, <3>1, FlushIsStutter
    <3>2. CASE UNCHANGED <<stream, skip, pc, caller>>
      <4>1. Durable' = Durable
        BY <2>5, <3>2, SameFile
      <4> QED
        BY <2>5, <3>2, <4>1, OpensStill
    <3> QED
      BY <2>4, <3>1, <3>2
  <2>7. seenNow' = seenNow /\ sealedNow' = sealedNow /\ sealedNow = "no"
    BY <2>5, <2>6 DEF seenNow, sealedNow
  <2>8. Log!Accept
    BY <2>3, <2>4, <2>6, <2>7 DEF Log!Accept, seenNow, sealedNow, LogFrame
  <2> QED
    BY <2>8 DEF Log!LogNext
<1>2. CASE Flush
  <2>1. FlushRowGroup(buffer, "flush") /\ pc = "open" /\ UNCHANGED fileVars /\ written' = written
    BY <1>2 DEF Flush
  <2>2. Durable' = Durable /\ Opens /\ Opens' /\ pc' # "finished"
    BY <1>0, <2>1, FlushIsStutter
  <2> QED
    BY <2>1, <2>2, Stutters
<1>3. CASE Finish
  <2>1. CASE FlushRowGroup(buffer, "finish") /\ UNCHANGED <<written, ondisk, cut, footer_offset>>
    <3>1. pc = "open" /\ UNCHANGED fileVars /\ written' = written
      BY <1>3, <2>1 DEF Finish
    <3>2. Durable' = Durable /\ Opens /\ Opens' /\ pc' # "finished"
      BY <1>0, <2>1, <3>1, FlushIsStutter
    <3> QED
      BY <3>1, <3>2, Stutters
  <2>2. CASE WriteFooter
    BY <1>3, <2>2, FooterIsStutter DEF Finish, FileInv, ShapeInv
  <2> QED
    BY <1>3, <2>1, <2>2 DEF Finish
<1>4. CASE RowGroupWritten
  <2>1. pc = "rowgroup" /\ ondisk = Len(stream) /\ footer_offset = 0
    BY <1>4 DEF RowGroupWritten, Emptied, FileInv, ShapeInv
  <2>2. CASE WriteFooter
    BY <2>1, <2>2, FooterIsStutter
  <2>3. CASE ~WriteFooter
    <3>1. pc' = "open" /\ UNCHANGED <<stream, written, ondisk, cut, footer_offset>>
      BY <1>4, <2>3 DEF RowGroupWritten
    <3>2. Durable' = Durable
      BY <3>1, SameFile
    <3>3. Opens /\ Opens'
      BY <2>1, <3>1, OpensStill
    <3> QED
      BY <2>1, <3>1, <3>2, <3>3, Stutters
  <2> QED
    BY <2>2, <2>3
<1>5. CASE WriteOut
  <2>1. /\ pc \in {"create", "rowgroup", "footer", "failed"} /\ ondisk < Len(stream)
        /\ UNCHANGED <<pc, stream, written>>
        /\ ondisk' = ondisk \/ ondisk' = ondisk + 1
    BY <1>5 DEF WriteOut
  <2>2. /\ DurableIn(stream, ondisk) \in Nat
        /\ DurableIn(stream, ondisk + 1) \in DurableIn(stream, ondisk)..Len(written)
    BY <2>1, UnitPersists
  <2>3. Durable' = DurableIn(stream, ondisk) \/ Durable' = DurableIn(stream, ondisk + 1)
    BY <2>1, DurableWas
  <2>4. Durable' \in Durable..Len(written)
    BY <1>0, <2>2, <2>3, DurableIs
  <2>5. seenNow' \in {-1, Durable'} /\ sealedNow = "no" /\ sealedNow' = "no"
    BY <2>1 DEF seenNow, sealedNow
  <2>6. Log!Persist
    BY <2>1, <2>4, <2>5 DEF Log!Persist, Log!Refused, seenNow, sealedNow
  <2> QED
    BY <2>6 DEF Log!LogNext
<1>6. CASE Created \/ FooterWritten
  <2>1. /\ UNCHANGED <<stream, written, ondisk, cut, footer_offset>>
        /\ ondisk = Len(stream) /\ pc \notin {"finished", "failed"} /\ pc' # "finished"
    BY <1>6 DEF Created, FooterWritten, Emptied
  <2>2. footer_offset = 0
    BY <2>1 DEF FileInv, ShapeInv
  <2>3. Durable' = Durable
    BY <2>1, SameFile
  <2>4. Opens /\ Opens'
    BY <2>1, <2>2, OpensStill
  <2> QED
    BY <2>1, <2>3, <2>4, Stutters
<1>7. CASE PatchHeader
  <2>1. /\ UNCHANGED <<stream, written, ondisk, cut, footer_at>>
        /\ pc = "patch" /\ pc' = "finished" /\ footer_offset' = footer_at
    BY <1>7 DEF PatchHeader
  <2>2. /\ ondisk = Len(stream) /\ Len(stream) > 1 /\ IsFooter(Len(stream))
        /\ footer_at = Len(stream) /\ footer_offset = 0
        /\ RecordedIn(stream, Len(stream) - 1) = Len(written)
    BY <2>1 DEF FileInv, ShapeInv, Closing
  <2>3. Durable = Len(written) /\ Durable' = Durable
    <3>1. DurableIn(stream, ondisk) = Len(written)
      BY <2>2 DEF DurableIn, IsFooter
    <3> QED
      BY <2>1, <3>1, SameFile, DurableIs
  <2>4. Opens
    BY <2>1, <2>2, OpensBetween
  <2>5. Opens'
    <3>1. /\ ondisk' = Len(stream) /\ cut' = "none" /\ footer_offset' = Len(stream)
          /\ stream' = stream /\ stream[Len(stream)].kind = "FTR2"
      BY <2>1, <2>2 DEF FileInv, ShapeInv, IsFooter
    <3>2. ~FooterFails' /\ ~ScanFails' /\ ondisk' >= 1
      BY <1>0, <2>2, <3>1 DEF FooterFails, HasFooter, ScanFails
    <3> QED
      BY <3>2 DEF Opens
  <2>6. /\ seenNow = Durable /\ seenNow' = seenNow
        /\ sealedNow = "no" /\ sealedNow' = "yes"
    BY <2>1, <2>3, <2>4, <2>5 DEF seenNow, sealedNow
  <2>7. Log!Seal
    BY <2>1, <2>3, <2>6 DEF Log!Seal, seenNow, sealedNow
  <2> QED
    BY <2>7 DEF Log!LogNext
<1>8. CASE WriteFails
  <2>1. /\ UNCHANGED <<stream, written, ondisk, cut, footer_at>>
        /\ pc \in {"create", "rowgroup", "footer", "patch"} /\ pc' = "failed"
        /\ footer_offset' = footer_offset \/ (pc = "patch" /\ footer_offset' = footer_at)
    BY <1>8 DEF WriteFails
  <2>2. Durable' = Durable
    BY <2>1, SameFile
  <2>3. CASE footer_offset' = footer_offset
    <3>1. Opens' <=> Opens
      BY <2>1, <2>3 DEF Opens, FooterFails, HasFooter, ScanFails
    <3> QED
      BY <2>1, <2>2, <3>1, Stutters
  <2>4. CASE pc = "patch" /\ footer_offset' = footer_at
    <3>1. /\ ondisk = Len(stream) /\ Len(stream) > 1 /\ IsFooter(Len(stream))
          /\ footer_at = Len(stream) /\ footer_offset = 0 /\ cut = "none"
      BY <2>4 DEF FileInv, ShapeInv, Closing
    <3>2. Opens
      BY <2>4, <3>1, OpensBetween
    <3>3. ~FooterFails' /\ ~ScanFails' /\ ondisk' >= 1
      BY <1>0, <2>1, <2>4, <3>1 DEF FooterFails, HasFooter, ScanFails, IsFooter
    <3>4. Opens'
      BY <3>3 DEF Opens
    <3> QED
      BY <2>1, <2>2, <3>2, <3>4, Stutters
  <2> QED
    BY <2>1, <2>3, <2>4
<1>9. CASE UNCHANGED vars
  <2>1. UNCHANGED <<pc, stream, written, ondisk, cut, footer_offset>>
    BY <1>9 DEF vars
  <2>2. Durable' = Durable
    BY <2>1, SameFile
  <2>3. Opens' <=> Opens
    BY <2>1 DEF Opens, FooterFails, HasFooter, ScanFails
  <2>4. seenNow' = seenNow /\ sealedNow' = sealedNow
    BY <2>1, <2>2, <2>3 DEF seenNow, sealedNow
  <2> QED
    BY <2>1, <2>2, <2>4 DEF Log!logVars, seenNow, sealedNow
<1> QED
  BY <1>1, <1>2, <1>3, <1>4, <1>5, <1>6, <1>7, <1>8, <1>9 DEF Next

LEMMA LogInits == Init => Log!LogInit
<1> SUFFICES ASSUME Init PROVE Log!LogInit
  OBVIOUS
<1>1. written = << >> /\ ondisk = 0 /\ pc = "create"
  BY DEF Init
<1>2. Durable = 0
  BY <1>1, DurableIs DEF DurableIn, RecordedIn
<1>3. ~Opens
  BY <1>1 DEF Opens
<1> QED
  BY <1>1, <1>2, <1>3 DEF Log!LogInit, Log!Refused

(* The file is a log of the frames: at every moment whole row groups hold  *)
(* a prefix of them that only grows, a reader is given exactly that prefix *)
(* or refused, and a finished file opens with all of them.                 *)
THEOREM FileIsLog == Spec => ImplementsLog
<1>1. FileInv /\ FileInv' /\ [Next]_vars => [Log!LogNext]_(Log!logVars)
  BY LogStep
<1> QED
  BY <1>1, LogInits, FileAlways, PTL DEF Spec, ImplementsLog, Log!LogSpec
-----------------------------------------------------------------------------
(* Reads.                                                                  *)

(* The skip index has an entry for each group of each row group; a footer  *)
(* holds it and the lap index, and the header that points to one is that   *)
(* of a file that is whole.                                                *)
EntryIn(st, i, g) ==
  [group |-> g, first |-> RowsIn(st, i)[1].tick, last |-> RowsIn(st, i)[Len(RowsIn(st, i))].tick,
   index |-> i - 2]

Counted ==
  /\ pc \in {"create", "open"} => groups_written + 1 = Len(stream)
  /\ pc = "rowgroup" => groups_written + 2 = Len(stream)

Indexed(st, entries) ==
  /\ \A x \in entries : \E i \in 2..Len(st), g \in Groups :
       st[i].kind = "RGHD" /\ x = EntryIn(st, i, g)
  /\ \A i \in 2..Len(st) : st[i].kind = "RGHD" => \A g \in Groups : EntryIn(st, i, g) \in entries

Footed ==
  /\ \A i \in 2..Len(stream) : IsFooter(i) => stream[i].skip = skip /\ stream[i].laps = laps
  /\ footer_offset # 0 =>
       footer_offset = Len(stream) /\ ondisk = Len(stream) /\ Len(stream) > 1 /\ IsFooter(Len(stream))
  /\ pc = "finished" => footer_offset # 0

WrittenInv == Ticked(written) /\ Len(written) <= MaxFrames

ReadInv == Counted /\ Indexed(stream, skip) /\ Footed /\ WrittenInv

Appended(st2, st, u) == st2 = Append(st, u)

LEMMA AppendEntries ==
  ASSUME NEW st \in Seq(Unit), NEW u \in Unit, NEW st2, Appended(st2, st, u)
  PROVE  /\ Len(st2) = Len(st) + 1 /\ Len(st) \in Nat /\ st2[Len(st) + 1] = u
         /\ \A i \in 2..Len(st) : st2[i] = st[i]
         /\ \A i \in 2..Len(st) : \A g \in Groups : EntryIn(st2, i, g) = EntryIn(st, i, g)
<1>1. /\ Len(st2) = Len(st) + 1 /\ Len(st) \in Nat /\ st2[Len(st) + 1] = u
      /\ \A i \in 1..Len(st) : st2[i] = st[i]
  BY AppendShape DEF Appended
<1>2. \A i \in 2..Len(st) : st2[i] = st[i]
  BY <1>1
<1>3. \A i \in 2..Len(st) : \A g \in Groups : EntryIn(st2, i, g) = EntryIn(st, i, g)
  BY <1>2 DEF EntryIn, RowsIn
<1>4. QED
  BY <1>1, <1>2, <1>3

LEMMA FlushIndexed ==
  ASSUME TypesOK, ReadInv, FrameInv, pc = "open", NEW rows \in Seq(Frame), NEW by,
         FlushRowGroup(rows, by), groups_written' = groups_written
  PROVE  Indexed(stream', skip') /\ Counted'
         /\ \A i \in 2..Len(stream') : stream'[i].kind = "RGHD"
<1> DEFINE u == RowGroup(rows)
           new == [g \in Groups |-> [group |-> g, first |-> rows[1].tick,
                                     last |-> rows[Len(rows)].tick, index |-> groups_written]]
<1>1. /\ u \in Unit /\ u.kind = "RGHD" /\ u.columns[Meta] = rows /\ stream \in Seq(Unit)
  BY RowGroupType, FileAssumption DEF FileAssumption, TypesOK, TypeOK_Units
<1>2. /\ stream' = Append(stream, u) /\ pc' = "rowgroup"
      /\ skip' = skip \cup {new[g] : g \in Groups}
  BY DEF FlushRowGroup
<1> HIDE DEF u
<1>3. /\ Len(stream') = Len(stream) + 1 /\ Len(stream) \in Nat /\ stream'[Len(stream) + 1] = u
      /\ \A i \in 2..Len(stream) : stream'[i] = stream[i]
      /\ \A i \in 2..Len(stream) : \A g \in Groups : EntryIn(stream', i, g) = EntryIn(stream, i, g)
  <2>1. Appended(stream', stream, u)
    BY <1>2 DEF Appended
  <2>2. QED
    BY <1>1, <2>1, AppendEntries
<1>4. groups_written + 1 = Len(stream) /\ groups_written \in Nat /\ Len(stream) > 0
  BY DEF ReadInv, Counted, TypesOK, TypeOK_Rest, FrameInv
<1> DEFINE i2 == Len(stream) + 1
<1>5. i2 - 2 = groups_written /\ i2 \in 2..Len(stream') /\ stream'[i2] = u
  BY <1>3, <1>4
<1>6. RowsIn(stream', i2) = rows
  BY <1>1, <1>5 DEF RowsIn
<1>7. \A g \in Groups : EntryIn(stream', i2, g) = new[g]
  BY <1>5, <1>6 DEF EntryIn
<1> HIDE DEF new
<1>8. ASSUME NEW x \in skip'
      PROVE  \E i \in 2..Len(stream'), g \in Groups : stream'[i].kind = "RGHD" /\ x = EntryIn(stream', i, g)
  <2>1. CASE x \in skip
    <3>1. PICK i \in 2..Len(stream), g \in Groups : stream[i].kind = "RGHD" /\ x = EntryIn(stream, i, g)
      BY <2>1 DEF ReadInv, Indexed
    <3>2. i \in 2..Len(stream') /\ stream'[i].kind = "RGHD" /\ x = EntryIn(stream', i, g)
      BY <1>3, <3>1
    <3>3. QED
      BY <3>2
  <2>2. ASSUME NEW g \in Groups, x = new[g] PROVE stream'[i2].kind = "RGHD" /\ x = EntryIn(stream', i2, g)
    BY <1>1, <1>5, <1>7, <2>2
  <2>3. QED
    BY <1>2, <1>5, <2>1, <2>2
<1>9. ASSUME NEW i \in 2..Len(stream'), stream'[i].kind = "RGHD", NEW g \in Groups
      PROVE  EntryIn(stream', i, g) \in skip'
  <2>1. CASE i = i2
    BY <1>2, <1>7, <2>1
  <2>2. CASE i # i2
    <3>1. i \in 2..Len(stream)
      BY <1>3, <2>2
    <3>2. EntryIn(stream, i, g) \in skip
      BY <1>3, <1>9, <3>1 DEF ReadInv, Indexed
    <3>3. QED
      BY <1>2, <1>3, <3>1, <3>2
  <2>3. QED
    BY <2>1, <2>2
<1>10. Counted'
  <2>1. groups_written' + 2 = Len(stream')
    BY <1>3, <1>4
  <2>2. QED
    BY <1>2, <2>1 DEF Counted
<1>11. ASSUME NEW i \in 2..Len(stream') PROVE stream'[i].kind = "RGHD"
  <2>1. CASE i = i2
    BY <1>1, <1>5, <2>1
  <2>2. CASE i # i2
    <3>1. i \in 2..Len(stream)
      BY <1>3, <2>2
    <3>2. stream[i].kind = "RGHD"
      BY <3>1 DEF FrameInv, Writing, Held
    <3>3. QED
      BY <1>3, <3>1, <3>2
  <2>3. QED
    BY <2>1, <2>2
<1>12. QED
  BY <1>8, <1>9, <1>10, <1>11 DEF Indexed

LEMMA FooterIndexed ==
  ASSUME TypesOK, ReadInv, FrameInv, Writing, WriteFooter
  PROVE  Indexed(stream', skip') /\ Counted'
         /\ \A i \in 2..Len(stream') : IsFooter(i)' => stream'[i].skip = skip' /\ stream'[i].laps = laps'
<1> DEFINE u == Footer(skip, laps')
<1>1. stream \in Seq(Unit) /\ skip \in SUBSET SkipEntry /\ laps' \in Seq(LapEntry)
  BY FooterTypes DEF TypesOK, TypeOK_Units, TypeOK_Laps
<1>2. u \in Unit /\ u.kind = "FTR2"
  BY <1>1, FooterType
<1>3. u.skip = skip /\ u.laps = laps'
  BY DEF Footer
<1>4. stream' = Append(stream, u) /\ pc' = "footer" /\ skip' = skip
  BY DEF WriteFooter
<1> HIDE DEF u
<1>5. /\ Len(stream') = Len(stream) + 1 /\ Len(stream) \in Nat /\ stream'[Len(stream) + 1] = u
      /\ \A i \in 2..Len(stream) : stream'[i] = stream[i]
      /\ \A i \in 2..Len(stream) : \A g \in Groups : EntryIn(stream', i, g) = EntryIn(stream, i, g)
  <2>1. Appended(stream', stream, u)
    BY <1>4 DEF Appended
  <2>2. QED
    BY <1>1, <1>2, <2>1, AppendEntries
<1>6. \A i \in 2..Len(stream') : i = Len(stream) + 1 \/ i \in 2..Len(stream)
  BY <1>5
<1>7. ASSUME NEW x \in skip'
      PROVE  \E i \in 2..Len(stream'), g \in Groups : stream'[i].kind = "RGHD" /\ x = EntryIn(stream', i, g)
  <2>1. PICK i \in 2..Len(stream), g \in Groups : stream[i].kind = "RGHD" /\ x = EntryIn(stream, i, g)
    BY <1>4, <1>7 DEF ReadInv, Indexed
  <2>2. i \in 2..Len(stream') /\ stream'[i].kind = "RGHD" /\ x = EntryIn(stream', i, g)
    BY <1>5, <2>1
  <2>3. QED
    BY <2>2
<1>8. ASSUME NEW i \in 2..Len(stream'), stream'[i].kind = "RGHD", NEW g \in Groups
      PROVE  EntryIn(stream', i, g) \in skip'
  <2>1. i \in 2..Len(stream)
    BY <1>2, <1>5, <1>6, <1>8
  <2>2. EntryIn(stream, i, g) \in skip
    BY <1>5, <1>8, <2>1 DEF ReadInv, Indexed
  <2>3. QED
    BY <1>4, <1>5, <2>1, <2>2
<1>9. ASSUME NEW i \in 2..Len(stream'), stream'[i].kind = "FTR2"
      PROVE  stream'[i].skip = skip' /\ stream'[i].laps = laps'
  <2>1. CASE i \in 2..Len(stream)
    <3>1. stream[i].kind = "RGHD"
      BY <2>1 DEF FrameInv, Held
    <3>2. QED
      BY <1>5, <1>9, <2>1, <3>1
  <2>2. CASE i = Len(stream) + 1
    BY <1>3, <1>4, <1>5, <2>2
  <2>3. QED
    BY <1>6, <2>1, <2>2
<1>10. QED
  BY <1>4, <1>7, <1>8, <1>9 DEF Indexed, Counted, IsFooter

LEMMA ReadSame ==
  ASSUME ReadInv, UNCHANGED <<stream, skip, laps, footer_offset, written, groups_written>>,
         pc' \in {"create", "open"} => groups_written + 1 = Len(stream), pc' # "rowgroup" \/ pc = "rowgroup",
         pc' = "finished" => pc = "finished",
         footer_offset # 0 => ondisk' = ondisk
  PROVE  ReadInv'
<1>1. Counted'
  BY DEF ReadInv, Counted
<1>2. Indexed(stream, skip)'
  BY DEF ReadInv, Indexed
<1>3. Footed'
  BY DEF ReadInv, Footed, IsFooter
<1>4. WrittenInv'
  BY DEF ReadInv, WrittenInv, Ticked
<1>5. QED
  BY <1>1, <1>2, <1>3, <1>4 DEF ReadInv

LEMMA FlushRead ==
  ASSUME TypesOK, ReadInv, FrameInv, pc = "open", NEW rows \in Seq(Frame), NEW by,
         FlushRowGroup(rows, by), groups_written' = groups_written,
         footer_offset' = 0, WrittenInv'
  PROVE  ReadInv'
<1>1. /\ Indexed(stream', skip') /\ Counted'
      /\ \A i \in 2..Len(stream') : stream'[i].kind = "RGHD"
  BY FlushIndexed
<1>2. pc' = "rowgroup"
  BY DEF FlushRowGroup
<1>3. Footed'
  BY <1>1, <1>2 DEF Footed, IsFooter
<1>4. QED
  BY <1>1, <1>3 DEF ReadInv

LEMMA FooterRead ==
  ASSUME TypesOK, ReadInv, FrameInv, Writing, WriteFooter, footer_offset = 0
  PROVE  ReadInv'
<1>1. /\ Indexed(stream', skip') /\ Counted'
      /\ \A i \in 2..Len(stream') : IsFooter(i)' => stream'[i].skip = skip' /\ stream'[i].laps = laps'
  BY FooterIndexed
<1>2. pc' = "footer" /\ footer_offset' = 0 /\ written' = written
  BY DEF WriteFooter, fileVars
<1>3. Footed'
  BY <1>1, <1>2 DEF Footed, IsFooter
<1>4. WrittenInv'
  BY <1>2 DEF ReadInv, WrittenInv, Ticked
<1>5. QED
  BY <1>1, <1>3, <1>4 DEF ReadInv

LEMMA ReadStep ==
  ASSUME FileInv, FileInv', ReadInv, [Next]_vars
  PROVE  ReadInv'
<1> USE DEF fileVars, lapVars
<1>0. /\ TypesOK /\ FrameInv /\ FrameInv' /\ ShapeInv
      /\ written \in Seq(Frame) /\ buffer \in Seq(Frame) /\ Len(written) \in Nat
      /\ Len(stream) \in Nat /\ ondisk \in 0..Len(stream)
  BY DEF FileInv, TypesOK, TypeOK_Rest, TypeOK_Units
<1>1. CASE WriteFrame
  <2>1. PICK lap \in Laps :
          LET f == [tick |-> FirstTick + Len(written), lap |-> lap]
              rows == Append(buffer, f)
          IN  /\ CountLap(f)
              /\ written' = Append(written, f)
              /\ IF Len(rows) >= ChunkRows
                 THEN FlushRowGroup(rows, "write")
                 ELSE buffer' = rows /\ UNCHANGED <<stream, skip, pc, caller>>
    BY <1>1 DEF WriteFrame
  <2> DEFINE f == [tick |-> FirstTick + Len(written), lap |-> lap]
             rows == Append(buffer, f)
  <2>2. rows \in Seq(Frame) /\ f \in Frame
    BY <1>0, FrameTypes DEF TypesOK
  <2>3. /\ written' = Append(written, f)
        /\ \/ FlushRowGroup(rows, "write")
           \/ UNCHANGED <<stream, skip, pc, caller>>
    BY <2>1
  <2> HIDE DEF f, rows
  <2>4. /\ pc = "open" /\ Len(written) < MaxFrames /\ footer_offset = 0 /\ footer_offset' = 0
        /\ ondisk' = ondisk /\ groups_written' = groups_written
    BY <1>0, <1>1 DEF WriteFrame, ShapeInv
  <2>5. pc' \in {"open", "rowgroup"}
    BY <2>3, <2>4 DEF FlushRowGroup
  <2>6. WrittenInv'
    <3>1. Ticked(written')
      BY <1>0, <2>5 DEF FrameInv, Writing
    <3>2. Len(written') = Len(written) + 1
      BY <1>0, <2>2, <2>3, AppendShape
    <3>3. QED
      BY <1>0, <2>4, <3>1, <3>2, FileAssumption DEF WrittenInv, FileAssumption
  <2>7. CASE FlushRowGroup(rows, "write")
    BY <1>0, <2>2, <2>4, <2>6, <2>7, FlushRead
  <2>8. CASE UNCHANGED <<stream, skip, pc, caller>>
    <3>1. Counted'
      BY <2>4, <2>8 DEF ReadInv, Counted
    <3>2. Indexed(stream, skip)'
      BY <2>8 DEF ReadInv, Indexed
    <3>3. Footed'
      <4>1. \A i \in 2..Len(stream) : stream[i].kind = "RGHD"
        BY <1>0, <2>4 DEF FrameInv, Writing, Held
      <4>2. QED
        BY <2>4, <2>8, <4>1 DEF Footed, IsFooter
    <3>4. QED
      BY <2>6, <3>1, <3>2, <3>3 DEF ReadInv
  <2>9. QED
    BY <2>3, <2>7, <2>8
<1>2. CASE Flush
  <2>1. /\ FlushRowGroup(buffer, "flush") /\ pc = "open" /\ groups_written' = groups_written
        /\ footer_offset' = 0 /\ written' = written
    BY <1>0, <1>2 DEF Flush, ShapeInv
  <2>2. WrittenInv'
    BY <2>1 DEF ReadInv, WrittenInv, Ticked
  <2>3. QED
    BY <1>0, <2>1, <2>2, FlushRead
<1>3. CASE Finish
  <2>1. pc = "open" /\ footer_offset = 0 /\ groups_written' = groups_written
    BY <1>0, <1>3 DEF Finish, ShapeInv
  <2>2. CASE FlushRowGroup(buffer, "finish") /\ UNCHANGED <<written, ondisk, cut, footer_offset>>
    <3>1. WrittenInv'
      BY <2>2 DEF ReadInv, WrittenInv, Ticked
    <3>2. QED
      BY <1>0, <2>1, <2>2, <3>1, FlushRead
  <2>3. CASE buffer = << >> /\ WriteFooter
    BY <1>0, <2>1, <2>3, FooterRead DEF Writing
  <2>4. QED
    BY <1>3, <2>2, <2>3 DEF Finish
<1>4. CASE RowGroupWritten
  <2>1. /\ pc = "rowgroup" /\ footer_offset = 0 /\ groups_written' = groups_written + 1
        /\ groups_written \in Nat
    BY <1>0, <1>4 DEF RowGroupWritten, ShapeInv, TypesOK, TypeOK_Rest
  <2>2. CASE WriteFooter
    BY <1>0, <2>1, <2>2, FooterRead DEF Writing
  <2>3. CASE ~WriteFooter
    <3>1. pc' = "open" /\ UNCHANGED <<stream, written, skip, laps, ondisk, footer_offset>>
      BY <1>4, <2>3 DEF RowGroupWritten
    <3>2. Counted'
      BY <2>1, <3>1 DEF ReadInv, Counted
    <3>3. Indexed(stream, skip)'
      BY <3>1 DEF ReadInv, Indexed
    <3>4. Footed'
      BY <2>1, <3>1 DEF ReadInv, Footed, IsFooter
    <3>5. WrittenInv'
      BY <3>1 DEF ReadInv, WrittenInv, Ticked
    <3>6. QED
      BY <3>2, <3>3, <3>4, <3>5 DEF ReadInv
  <2>4. QED
    BY <2>2, <2>3
<1>5. CASE WriteOut
  <2>1. /\ UNCHANGED <<pc, stream, skip, laps, footer_offset, written, groups_written>>
        /\ ondisk # Len(stream)
    BY <1>0, <1>5 DEF WriteOut
  <2>2. footer_offset = 0
    BY <2>1 DEF ReadInv, Footed
  <2>3. pc \in {"create", "open"} => groups_written + 1 = Len(stream)
    BY DEF ReadInv, Counted
  <2>4. QED
    BY <2>1, <2>2, <2>3, ReadSame
<1>6. CASE Created \/ FooterWritten
  <2>1. /\ UNCHANGED <<stream, skip, laps, footer_offset, written, groups_written, ondisk>>
        /\ \/ pc = "create" /\ pc' = "open"
           \/ pc = "footer" /\ pc' = "patch"
    BY <1>6 DEF Created, FooterWritten
  <2>2. pc' \in {"create", "open"} => groups_written + 1 = Len(stream)
    BY <2>1 DEF ReadInv, Counted
  <2>3. QED
    BY <2>1, <2>2, ReadSame
<1>7. CASE PatchHeader \/ WriteFails
  <2>1. /\ UNCHANGED <<stream, skip, laps, written, groups_written, ondisk>>
        /\ pc' \in {"finished", "failed"}
        /\ \/ footer_offset' = footer_offset /\ pc' = "failed"
           \/ pc = "patch" /\ footer_offset' = footer_at
    BY <1>7 DEF PatchHeader, WriteFails
  <2>2. pc = "patch" => /\ footer_at = Len(stream) /\ ondisk = Len(stream) /\ Len(stream) > 1
                        /\ IsFooter(Len(stream))
    BY <1>0 DEF ShapeInv, Closing
  <2>3. Counted' /\ Indexed(stream, skip)' /\ WrittenInv'
    BY <2>1 DEF ReadInv, Counted, Indexed, WrittenInv, Ticked
  <2>4. Footed'
    <3>1. CASE footer_offset' = footer_offset /\ pc' = "failed"
      BY <2>1, <3>1 DEF ReadInv, Footed, IsFooter
    <3>2. CASE pc = "patch" /\ footer_offset' = footer_at
      <4>1. footer_offset' # 0 /\ footer_offset' = Len(stream)
        BY <1>0, <2>2, <3>2
      <4>2. QED
        BY <2>1, <2>2, <3>2, <4>1 DEF ReadInv, Footed, IsFooter
    <3>3. QED
      BY <2>1, <3>1, <3>2
  <2>5. QED
    BY <2>3, <2>4 DEF ReadInv
<1>8. CASE UNCHANGED vars
  <2>1. pc \in {"create", "open"} => groups_written + 1 = Len(stream)
    BY DEF ReadInv, Counted
  <2>2. UNCHANGED <<pc, ondisk, stream, skip, laps, footer_offset, written, groups_written>>
    BY <1>8 DEF vars
  <2>3. QED
    BY <2>1, <2>2, ReadSame
<1>9. QED
  BY <1>1, <1>2, <1>3, <1>4, <1>5, <1>6, <1>7, <1>8 DEF Next

LEMMA ReadInit == Init => ReadInv
<1> SUFFICES ASSUME Init PROVE ReadInv
  OBVIOUS
<1>1. /\ Len(stream) = 1 /\ pc = "create" /\ footer_offset = 0 /\ skip = {} /\ groups_written = 0
      /\ written = << >>
  BY DEF Init
<1>2. Counted
  BY <1>1 DEF Counted
<1>3. Indexed(stream, skip)
  BY <1>1 DEF Indexed
<1>4. Footed
  BY <1>1 DEF Footed
<1>5. WrittenInv
  BY <1>1, FileAssumption DEF WrittenInv, Ticked, FileAssumption
<1>6. QED
  BY <1>2, <1>3, <1>4, <1>5 DEF ReadInv

LEMMA ReadAlways == Spec => []ReadInv
<1>1. FileInv /\ FileInv' /\ ReadInv /\ [Next]_vars => ReadInv'
  BY ReadStep
<1>2. QED
  BY <1>1, ReadInit, FileAlways, PTL DEF Spec

(* The row groups in the file: positions 2 to LastGroup.                   *)
LastGroup == IF ondisk > 0 /\ stream[ondisk].kind = "FTR2" THEN ondisk - 1 ELSE ondisk

LEMMA GroupsOnDisk ==
  ASSUME FileInv, ReadInv, ondisk >= 1
  PROVE  /\ ondisk \in Nat \ {0} /\ LastGroup \in 0..ondisk
         /\ written \in Seq(Frame) /\ Len(written) \in Nat
         /\ Scanned = 2..LastGroup /\ Durable = Recorded(LastGroup)
         /\ \A i \in 2..LastGroup :
              /\ i \in 2..Len(stream) /\ stream[i].kind = "RGHD"
              /\ Recorded(i - 1) \in 0..Len(written) /\ Recorded(i) \in 0..Len(written)
              /\ Recorded(i - 1) < Recorded(i)
              /\ \A g \in Groups :
                   stream[i].columns[g] = SubSeq(written, Recorded(i - 1) + 1, Recorded(i))
              /\ Rows(i)[1].tick = Tick(Recorded(i - 1) + 1)
              /\ Rows(i)[Len(Rows(i))].tick = Tick(Recorded(i))
<1>1. /\ ondisk \in 0..Len(stream) /\ Len(stream) \in Nat /\ ondisk \in Nat \ {0}
      /\ written \in Seq(Frame) /\ Len(written) \in Nat /\ stream \in Seq(Unit)
  BY DEF FileInv, TypesOK, TypeOK_Rest, TypeOK_Units
<1>2. LastGroup \in 0..ondisk
  BY <1>1 DEF LastGroup
<1>3. \A i \in 2..Len(stream) : stream[i].kind = "RGHD" \/ (stream[i].kind = "FTR2" /\ i = Len(stream))
  BY DEF FileInv, ShapeInv, IsFooter
<1>4. \A i \in 2..LastGroup : i \in 2..Len(stream) /\ stream[i].kind = "RGHD"
  BY <1>1, <1>2, <1>3 DEF LastGroup
<1>5. Scanned = 2..LastGroup
  <2>1. ASSUME NEW i \in 2..LastGroup PROVE i \in Scanned
    <3>1. i \in 2..ondisk /\ \A j \in 2..i : j \in 2..LastGroup
      BY <1>1, <1>2
    <3>2. QED
      BY <1>4, <3>1 DEF Scanned
  <2>2. ASSUME NEW i \in Scanned PROVE i \in 2..LastGroup
    <3>1. i \in 2..ondisk /\ stream[i].kind = "RGHD"
      BY <1>1 DEF Scanned
    <3>2. QED
      BY <1>1, <3>1 DEF LastGroup
  <2>3. QED
    BY <2>1, <2>2
<1>6. Durable = Recorded(LastGroup)
  BY DEF Durable, LastGroup
<1>7. ASSUME NEW i \in 2..LastGroup
      PROVE  /\ Recorded(i - 1) \in 0..Len(written) /\ Recorded(i) \in 0..Len(written)
             /\ Recorded(i - 1) < Recorded(i)
             /\ \A g \in Groups :
                  stream[i].columns[g] = SubSeq(written, Recorded(i - 1) + 1, Recorded(i))
             /\ Rows(i)[1].tick = Tick(Recorded(i - 1) + 1)
             /\ Rows(i)[Len(Rows(i))].tick = Tick(Recorded(i))
  <2> DEFINE a == Recorded(i - 1)
             b == Recorded(i)
  <2>1. HeldIn(stream, written, i)
    BY <1>4 DEF FileInv, FrameInv
  <2>2. /\ Len(Rows(i)) > 0 /\ \A g \in Groups : stream[i].columns[g] = Rows(i)
        /\ b = a + Len(Rows(i)) /\ a \in Nat /\ b \in 0..Len(written)
        /\ \A k \in 1..Len(Rows(i)) : Rows(i)[k] = written[a + k]
    BY <2>1 DEF HeldIn, HoldsIn, Recorded, RecordedIn, Rows, RowsIn
  <2>3. Rows(i) \in Seq(Frame) /\ Len(Rows(i)) \in Nat
    <3>1. stream[i] \in Unit
      BY <1>1, <1>4
    <3>2. stream[i].columns \in [Groups -> Seq(Frame)] /\ Meta \in Groups
      BY <3>1, FileAssumption DEF Unit, FileAssumption
    <3>3. Rows(i) \in Seq(Frame)
      BY <3>2 DEF Rows
    <3>4. QED
      BY <3>3
  <2> HIDE DEF a, b
  <2>4. a \in 0..Len(written) /\ b \in a..Len(written) /\ Len(Rows(i)) = b - a /\ a < b
    BY <1>1, <2>2, <2>3
  <2>5. Rows(i) = SubSeq(written, a + 1, b)
    BY <1>1, <2>2, <2>3, <2>4, SubSeqIs
  <2>6. Rows(i)[1] = written[a + 1] /\ Rows(i)[Len(Rows(i))] = written[b]
    BY <2>2, <2>3, <2>4
  <2>7. a + 1 \in 1..Len(written) /\ b \in 1..Len(written)
    BY <1>1, <2>4
  <2>8. written[a + 1].tick = Tick(a + 1) /\ written[b].tick = Tick(b)
    BY <2>7 DEF ReadInv, WrittenInv, Ticked
  <2>9. QED
    BY <2>2, <2>4, <2>5, <2>6, <2>8 DEF a, b
<1>8. QED
  BY <1>1, <1>2, <1>4, <1>5, <1>6, <1>7

(* How many frames the units up to each position hold.                     *)
Bounds == [i \in 0..ondisk |-> Recorded(IF i <= LastGroup THEN i ELSE LastGroup)]

LEMMA BoundsClimb ==
  ASSUME FileInv, ReadInv, ondisk >= 1
  PROVE  /\ \A i \in 0..ondisk : Bounds[i] \in 0..Len(written)
         /\ \A i \in 1..ondisk : Bounds[i - 1] <= Bounds[i]
         /\ \A i \in 0..ondisk : \A j \in i..ondisk : Bounds[i] <= Bounds[j]
         /\ Bounds[0] = 0 /\ Bounds[1] = 0 /\ Bounds[LastGroup] = Durable
         /\ \A i \in 2..LastGroup : Bounds[i] = Recorded(i) /\ Bounds[i - 1] = Recorded(i - 1)
<1>1. ondisk \in Nat \ {0} /\ LastGroup \in 0..ondisk /\ Len(written) \in Nat /\ Durable = Recorded(LastGroup)
  BY GroupsOnDisk
<1>2. \A i \in 2..LastGroup : /\ Recorded(i - 1) \in 0..Len(written) /\ Recorded(i) \in 0..Len(written)
                              /\ Recorded(i - 1) < Recorded(i)
  BY GroupsOnDisk
<1>3. Recorded(0) = 0 /\ Recorded(1) = 0
  BY DEF Recorded
<1>4. \A i \in 0..LastGroup : Recorded(i) \in 0..Len(written)
  <2> SUFFICES ASSUME NEW i \in 0..LastGroup PROVE Recorded(i) \in 0..Len(written)
    OBVIOUS
  <2>1. i = 0 \/ i = 1 \/ i \in 2..LastGroup
    BY <1>1
  <2>2. QED
    BY <1>1, <1>2, <1>3, <2>1
<1>5. \A i \in 0..ondisk : Bounds[i] = Recorded(IF i <= LastGroup THEN i ELSE LastGroup)
  BY DEF Bounds
<1>6. \A i \in 0..ondisk : Bounds[i] \in 0..Len(written)
  BY <1>1, <1>4, <1>5
<1>7. ASSUME NEW i \in 1..ondisk PROVE Bounds[i - 1] <= Bounds[i]
  <2>1. i \in 0..ondisk /\ i - 1 \in 0..ondisk
    BY <1>1
  <2>2. CASE i <= LastGroup
    <3>1. Bounds[i - 1] = Recorded(i - 1) /\ Bounds[i] = Recorded(i)
      BY <1>1, <1>5, <2>1, <2>2
    <3>2. i = 1 \/ i \in 2..LastGroup
      BY <1>1, <2>2
    <3>3. CASE i = 1
      BY <1>3, <3>1, <3>3
    <3>4. CASE i \in 2..LastGroup
      BY <1>1, <1>2, <3>1, <3>4
    <3>5. QED
      BY <3>2, <3>3, <3>4
  <2>3. CASE ~(i <= LastGroup)
    <3>1. Bounds[i] = Recorded(LastGroup)
      BY <1>5, <2>1, <2>3
    <3>2. Bounds[i - 1] = Recorded(LastGroup)
      <4>1. i - 1 <= LastGroup => i - 1 = LastGroup
        BY <1>1, <2>1, <2>3
      <4>2. QED
        BY <1>5, <2>1, <4>1
    <3>3. Bounds[i] \in Int
      BY <1>1, <1>6, <2>1
    <3>4. QED
      BY <3>1, <3>2, <3>3
  <2>4. QED
    BY <2>2, <2>3
<1>8. \A i \in 0..ondisk : Bounds[i] \in Int
  BY <1>1, <1>6
<1>9. \A i \in 0..ondisk : \A j \in i..ondisk : Bounds[i] <= Bounds[j]
  <2> DEFINE r == Bounds
  <2> HIDE DEF r
  <2>1. (\A i \in 0..ondisk : r[i] \in Int) /\ \A i \in 1..ondisk : r[i - 1] <= r[i]
    BY <1>7, <1>8 DEF r
  <2>2. \A i \in 0..ondisk : \A j \in i..ondisk : r[i] <= r[j]
    BY <1>1, <2>1, Climbs
  <2>3. QED
    BY <2>2 DEF r
<1>10. Bounds[0] = 0 /\ Bounds[LastGroup] = Durable
  BY <1>1, <1>3, <1>5
<1>11. Bounds[1] = 0
  <2>1. 1 \in 0..ondisk /\ (IF 1 <= LastGroup THEN 1 ELSE LastGroup) \in {0, 1}
    BY <1>1
  <2>2. QED
    BY <1>3, <1>5, <2>1
<1>12. \A i \in 2..LastGroup : Bounds[i] = Recorded(i) /\ Bounds[i - 1] = Recorded(i - 1)
  BY <1>1, <1>5
<1>13. QED
  BY <1>6, <1>7, <1>9, <1>10, <1>11, <1>12

(* The row groups that are read for a range are those that overlap it,     *)
(* whether the skip index or the headers are asked.                        *)
LEMMA SameRowGroups ==
  ASSUME FileInv, ReadInv, Opens, NEW g \in Groups, NEW s \in Nat, NEW e \in Nat
  PROVE  RowGroupsFor(g, s, e) = FromHeaders(s, e)
<1>1. ondisk >= 1
  BY DEF Opens
<1>2. /\ Scanned = 2..LastGroup /\ LastGroup \in 0..ondisk /\ ondisk \in Nat
      /\ \A i \in 2..LastGroup : i \in 2..Len(stream) /\ stream[i].kind = "RGHD"
  BY <1>1, GroupsOnDisk
<1> DEFINE entries == {x \in SkipEntries : x.group = g /\ x.first <= e /\ x.last >= s}
<1>3. RowGroupsFor(g, s, e) = IF entries = {} THEN FromHeaders(s, e)
                              ELSE {x.index + 2 : x \in entries} \cap Scanned
  BY DEF RowGroupsFor, EntriesFor
<1>4. CASE ~HasFooter
  <2>1. entries = {}
    BY <1>4 DEF SkipEntries
  <2>2. QED
    BY <1>3, <2>1
<1>5. CASE HasFooter
  <2>1. SkipEntries = skip
    <3>1. footer_offset # 0 /\ footer_offset = Len(stream) /\ Len(stream) > 1 /\ IsFooter(Len(stream))
      BY <1>5 DEF HasFooter, ReadInv, Footed
    <3>2. Len(stream) \in 2..Len(stream)
      BY <3>1 DEF FileInv, TypesOK, TypeOK_Units
    <3>3. stream[footer_offset].skip = skip
      BY <3>1, <3>2 DEF ReadInv, Footed
    <3>4. QED
      BY <1>5, <3>3 DEF SkipEntries
  <2>2. /\ \A x \in skip : \E i \in 2..Len(stream), h \in Groups :
                             stream[i].kind = "RGHD" /\ x = EntryIn(stream, i, h)
        /\ \A i \in 2..Len(stream) : stream[i].kind = "RGHD" => EntryIn(stream, i, g) \in skip
    BY DEF ReadInv, Indexed
  <2>3. \A i, h : /\ EntryIn(stream, i, h).group = h /\ EntryIn(stream, i, h).index = i - 2
                  /\ EntryIn(stream, i, h).first = Rows(i)[1].tick
                  /\ EntryIn(stream, i, h).last = Rows(i)[Len(Rows(i))].tick
    BY DEF EntryIn, Rows, RowsIn
  <2>4. \A i : i \in FromHeaders(s, e) <=>
                 i \in Scanned /\ Rows(i)[1].tick <= e /\ Rows(i)[Len(Rows(i))].tick >= s
    BY DEF FromHeaders
  <2>5. ASSUME NEW i \in FromHeaders(s, e) PROVE i \in {x.index + 2 : x \in entries} \cap Scanned
    <3>1. EntryIn(stream, i, g) \in entries
      BY <1>2, <2>1, <2>2, <2>3, <2>4, <2>5
    <3>2. EntryIn(stream, i, g).index + 2 = i /\ i \in Scanned
      BY <1>2, <2>3, <2>4, <2>5
    <3>3. QED
      BY <3>1, <3>2
  <2>6. ASSUME NEW i \in {x.index + 2 : x \in entries} \cap Scanned PROVE i \in FromHeaders(s, e)
    <3>1. PICK x \in entries : i = x.index + 2
      BY <2>6
    <3>2. PICK j \in 2..Len(stream), h \in Groups : x = EntryIn(stream, j, h)
      BY <2>1, <2>2, <3>1
    <3>3. x.index = j - 2 /\ x.first = Rows(j)[1].tick /\ x.last = Rows(j)[Len(Rows(j))].tick
      BY <2>3, <3>2
    <3>4. i = j
      BY <3>1, <3>2, <3>3
    <3>5. QED
      BY <2>4, <2>6, <3>1, <3>3, <3>4
  <2>7. FromHeaders(s, e) = {x.index + 2 : x \in entries} \cap Scanned
    BY <2>5, <2>6
  <2>8. CASE entries = {}
    BY <1>3, <2>8
  <2>9. CASE entries # {}
    BY <1>3, <2>7, <2>9
  <2>10. QED
    BY <2>8, <2>9
<1>6. QED
  BY <1>4, <1>5

(* Frames lo to hi of those in the file are the ones with ticks s to e.    *)
Ranged(s, e, lo, hi) ==
  /\ lo \in 1..(Durable + 1) /\ hi \in (lo - 1)..Durable
  /\ \A n \in 1..Durable : (s <= Tick(n) <=> lo <= n) /\ (Tick(n) <= e <=> n <= hi)

LEMMA Overlapping ==
  ASSUME FileInv, ReadInv, Opens, NEW s \in Nat, NEW e \in Nat, NEW lo, NEW hi, Ranged(s, e, lo, hi),
         NEW i \in 2..LastGroup
  PROVE  i \in FromHeaders(s, e) <=> Bounds[i - 1] < hi /\ lo <= Bounds[i]
<1>1. ondisk >= 1
  BY DEF Opens
<1>2. /\ Scanned = 2..LastGroup /\ LastGroup \in 0..ondisk /\ ondisk \in Nat /\ Len(written) \in Nat
      /\ Durable = Recorded(LastGroup)
      /\ Recorded(i - 1) \in 0..Len(written) /\ Recorded(i) \in 0..Len(written)
      /\ Recorded(i - 1) < Recorded(i)
      /\ Rows(i)[1].tick = Tick(Recorded(i - 1) + 1)
      /\ Rows(i)[Len(Rows(i))].tick = Tick(Recorded(i))
  BY <1>1, GroupsOnDisk
<1>3. /\ Bounds[i] <= Bounds[LastGroup] /\ Bounds[LastGroup] = Durable
      /\ Bounds[i] = Recorded(i) /\ Bounds[i - 1] = Recorded(i - 1)
      /\ Bounds[LastGroup] \in 0..Len(written)
  BY <1>1, <1>2, BoundsClimb
<1>4. Recorded(i - 1) + 1 \in 1..Durable /\ Recorded(i) \in 1..Durable
  BY <1>2, <1>3
<1>5. /\ Tick(Recorded(i - 1) + 1) <= e <=> Recorded(i - 1) + 1 <= hi
      /\ s <= Tick(Recorded(i)) <=> lo <= Recorded(i)
  BY <1>4 DEF Ranged
<1>6. lo \in Int /\ hi \in Int
  BY <1>2, <1>3 DEF Ranged
<1>7. Tick(Recorded(i)) \in Int
  BY <1>2, FileAssumption DEF Tick, FileAssumption
<1>8. i \in FromHeaders(s, e) <=> Tick(Recorded(i - 1) + 1) <= e /\ Tick(Recorded(i)) >= s
  BY <1>2 DEF FromHeaders
<1>9. QED
  BY <1>2, <1>3, <1>5, <1>6, <1>7, <1>8

(* The row groups that overlap a range follow one another, from one that   *)
(* starts at or before the range to one that ends at or behind it.         *)
Overlap(r, m, G, D, lo, hi, C) ==
  /\ m \in Nat \ {0} /\ G \in 0..m /\ D \in Nat
  /\ \A i \in 0..m : r[i] \in Nat
  /\ \A i \in 0..m : \A j \in i..m : r[i] <= r[j]
  /\ r[0] = 0 /\ r[1] = 0 /\ r[G] = D
  /\ lo \in 1..(D + 1) /\ hi \in (lo - 1)..D
  /\ C \subseteq 2..G
  /\ \A i \in 2..G : i \in C <=> r[i - 1] < hi /\ lo <= r[i]

LEMMA OverlapWindow ==
  ASSUME NEW r, NEW m, NEW G, NEW D, NEW lo, NEW hi, NEW C, Overlap(r, m, G, D, lo, hi, C)
  PROVE  /\ C = {} => hi < lo
         /\ C # {} => \E f \in 2..G : \E l \in f..G :
              /\ r[f - 1] < lo /\ hi <= r[l]
              /\ \A i \in 1..m : i \in C <=> i \in f..l
<1>1. /\ m \in Nat \ {0} /\ G \in 0..m /\ D \in Nat /\ lo \in Nat /\ hi \in Nat
      /\ lo \in 1..(D + 1) /\ hi \in (lo - 1)..D /\ C \subseteq 2..G
      /\ r[0] = 0 /\ r[1] = 0 /\ r[G] = D
  BY DEF Overlap
<1>2. \A i \in 0..m : r[i] \in Nat
  BY DEF Overlap
<1>3. \A i \in 0..m : \A j \in i..m : r[i] <= r[j]
  BY DEF Overlap
<1>4. \A i \in 2..G : i \in C <=> r[i - 1] < hi /\ lo <= r[i]
  BY DEF Overlap
<1>5. C = {} => hi < lo
  <2> SUFFICES ASSUME C = {}, lo <= hi PROVE FALSE
    BY <1>1
  <2> DEFINE T == {i \in 0..m : lo <= r[i]}
  <2>1. G \in T /\ T \subseteq Nat
    BY <1>1
  <2>2. PICK i \in T : \A j \in T : i <= j
    BY <2>1, LeastNat
  <2>3. i \in 0..G /\ lo <= r[i] /\ i # 0 /\ i # 1
    BY <1>1, <2>1, <2>2
  <2>4. i \in 2..G /\ i - 1 \in 0..m /\ i - 1 \notin T
    BY <1>1, <2>2, <2>3
  <2>5. ~(lo <= r[i - 1]) /\ r[i - 1] \in Nat
    BY <1>2, <2>4
  <2>6. r[i - 1] < hi
    BY <1>1, <2>5
  <2>7. QED
    BY <1>4, <2>3, <2>4, <2>6
<1>6. ASSUME C # {}
      PROVE  \E f \in 2..G : \E l \in f..G : /\ r[f - 1] < lo /\ hi <= r[l]
                                             /\ \A i \in 1..m : i \in C <=> i \in f..l
  <2>1. C \subseteq Nat /\ C \subseteq 0..m
    BY <1>1
  <2>2. PICK f \in C : \A i \in C : f <= i
    BY <1>6, <2>1, LeastNat
  <2>3. PICK l \in C : \A i \in C : i <= l
    BY <1>1, <1>6, <2>1, GreatestNat
  <2>4. f \in 2..G /\ l \in f..G /\ f \in Nat /\ l \in Nat
    BY <1>1, <2>2, <2>3
  <2>5. r[f - 1] < hi /\ lo <= r[f] /\ r[l - 1] < hi /\ lo <= r[l]
    <3>1. l \in 2..G
      BY <1>1, <2>4
    <3>2. QED
      BY <1>4, <2>2, <2>3, <2>4, <3>1
  <2>6. \A i \in 1..m : i \in C <=> i \in f..l
    <3>1. ASSUME NEW i \in C PROVE i \in f..l
      BY <1>1, <2>2, <2>3, <2>4
    <3>2. ASSUME NEW i \in f..l PROVE i \in C
      <4>1. i \in 2..G /\ i \in 0..m /\ i - 1 \in 0..m /\ l - 1 \in (i - 1)..m /\ f \in 0..m /\ i \in f..m
        BY <1>1, <2>4
      <4>2. r[i - 1] <= r[l - 1]
        BY <1>3, <4>1
      <4>3. r[f] <= r[i]
        BY <1>3, <4>1
      <4>4. r[i - 1] \in Nat /\ r[f] \in Nat /\ r[i] \in Nat
        BY <1>2, <4>1
      <4>5. l - 1 \in 0..m
        BY <1>1, <2>4
      <4>6. r[l - 1] \in Nat
        BY <1>2, <4>5
      <4>7. r[i - 1] < hi /\ lo <= r[i]
        BY <1>1, <2>5, <4>2, <4>3, <4>4, <4>6
      <4>8. QED
        BY <1>4, <4>1, <4>7
    <3>3. QED
      BY <3>1, <3>2
  <2>7. r[f - 1] < lo
    <3>1. CASE f = 2
      <4>1. f - 1 = 1
        BY <3>1
      <4>2. QED
        BY <1>1, <4>1
    <3>2. CASE f # 2
      <4>1. f - 1 \in 2..G /\ f - 1 \in 0..m /\ f - 2 \in 0..m /\ f - 1 \in (f - 2)..m
        BY <1>1, <2>4, <3>2
      <4>2. f - 1 \notin C
        BY <2>2, <2>4
      <4>3. r[f - 2] <= r[f - 1] /\ r[f - 2] \in Nat /\ r[f - 1] \in Nat
        BY <1>2, <1>3, <4>1
      <4>4. ~(r[(f - 1) - 1] < hi /\ lo <= r[f - 1])
        BY <1>4, <4>1, <4>2
      <4>5. (f - 1) - 1 = f - 2
        BY <2>4
      <4>6. r[f - 2] < hi
        BY <1>1, <2>5, <4>3
      <4>7. QED
        BY <1>1, <4>3, <4>4, <4>5, <4>6
    <3>3. QED
      BY <3>1, <3>2
  <2>8. hi <= r[l]
    <3>1. CASE l = G
      BY <1>1, <3>1
    <3>2. CASE l # G
      <4>1. l + 1 \in 2..G /\ l + 1 \in 0..m /\ l \in 0..m /\ l + 1 \in l..m
        BY <1>1, <2>4, <3>2
      <4>2. l + 1 \notin C
        BY <2>3, <2>4
      <4>3. r[l] <= r[l + 1] /\ r[l] \in Nat /\ r[l + 1] \in Nat
        BY <1>2, <1>3, <4>1
      <4>4. ~(r[(l + 1) - 1] < hi /\ lo <= r[l + 1])
        BY <1>4, <4>1, <4>2
      <4>5. (l + 1) - 1 = l
        BY <2>4
      <4>6. lo <= r[l + 1]
        BY <1>1, <2>5, <4>3
      <4>7. QED
        BY <1>1, <4>3, <4>4, <4>5, <4>6
    <3>3. QED
      BY <3>1, <3>2
  <2>9. QED
    BY <2>4, <2>6, <2>7, <2>8
<1>7. QED
  BY <1>5, <1>6

(* The columns of a range, all alike, hold the frames of the range and     *)
(* some around them.                                                       *)
LEMMA ColumnsAre ==
  ASSUME FileInv, ReadInv, Opens, NEW s \in Nat, NEW e \in Nat, NEW lo, NEW hi, Ranged(s, e, lo, hi)
  PROVE  \E a \in 0..Durable : \E b \in a..Durable :
           /\ a < lo /\ hi <= b
           /\ \A g \in Groups : Column(g, s, e) = SubSeq(written, a + 1, b)
<1>1. ondisk >= 1
  BY DEF Opens
<1>2. /\ Scanned = 2..LastGroup /\ LastGroup \in 0..ondisk /\ ondisk \in Nat \ {0}
      /\ written \in Seq(Frame) /\ Len(written) \in Nat
  BY <1>1, GroupsOnDisk
<1>3. \A i \in 2..LastGroup : \A g \in Groups :
        stream[i].columns[g] = SubSeq(written, Recorded(i - 1) + 1, Recorded(i))
  BY <1>1, GroupsOnDisk
<1> DEFINE r == Bounds
           C == FromHeaders(s, e)
<1>4. /\ \A i \in 0..ondisk : r[i] \in 0..Len(written)
      /\ \A i \in 1..ondisk : r[i - 1] <= r[i]
      /\ \A i \in 0..ondisk : \A j \in i..ondisk : r[i] <= r[j]
  BY <1>1, BoundsClimb
<1>5. r[0] = 0 /\ r[1] = 0 /\ r[LastGroup] = Durable
  BY <1>1, BoundsClimb
<1>6. \A i \in 2..LastGroup : r[i] = Recorded(i) /\ r[i - 1] = Recorded(i - 1)
  BY <1>1, BoundsClimb
<1>7. C \subseteq 2..LastGroup /\ \A i \in 2..LastGroup : i \in C <=> r[i - 1] < hi /\ lo <= r[i]
  BY <1>2, Overlapping DEF FromHeaders
<1> HIDE DEF r
<1> DEFINE piece(g) == [i \in 1..ondisk |-> IF i \in C THEN stream[i].columns[g] ELSE << >>]
<1>8. \A g \in Groups : Column(g, s, e) = FlattenSeq(piece(g))
  BY SameRowGroups DEF Column
<1> HIDE DEF C
<1>9. lo \in 1..(Durable + 1) /\ hi \in (lo - 1)..Durable /\ Durable \in 0..Len(written)
  BY <1>2, <1>4, <1>5 DEF Ranged
<1>10. Overlap(r, ondisk, LastGroup, Durable, lo, hi, C)
  <2>1. \A i \in 0..ondisk : r[i] \in Nat
    BY <1>2, <1>4
  <2>2. Durable \in Nat
    BY <1>2, <1>9
  <2>3. QED
    BY <1>2, <1>4, <1>5, <1>7, <1>9, <2>1, <2>2 DEF Overlap
<1>11. CASE C = {}
  <2>1. hi < lo
    BY <1>10, <1>11, OverlapWindow
  <2>2. lo - 1 \in 0..Durable /\ lo - 1 \in (lo - 1)..Durable /\ lo - 1 < lo /\ hi <= lo - 1
    BY <1>2, <1>9, <2>1
  <2>3. ASSUME NEW g \in Groups PROVE Column(g, s, e) = SubSeq(written, (lo - 1) + 1, lo - 1)
    <3>1. Empties(piece(g), ondisk)
      BY <1>11 DEF Empties
    <3>2. FlattenSeq(piece(g)) = << >>
      BY <1>2, <3>1, FlattenNone
    <3>3. SubSeq(written, (lo - 1) + 1, lo - 1) = << >>
      BY <1>2, <1>9
    <3>4. QED
      BY <1>8, <3>2, <3>3
  <2>4. QED
    BY <2>2, <2>3
<1>12. CASE C # {}
  <2>1. PICK f \in 2..LastGroup : \E l \in f..LastGroup :
          /\ r[f - 1] < lo /\ hi <= r[l]
          /\ \A i \in 1..ondisk : i \in C <=> i \in f..l
    BY <1>10, <1>12, OverlapWindow
  <2>2. PICK l \in f..LastGroup : /\ r[f - 1] < lo /\ hi <= r[l]
                                 /\ \A i \in 1..ondisk : i \in C <=> i \in f..l
    BY <2>1
  <2>3. /\ f \in 1..ondisk /\ l \in f..ondisk /\ l \in 0..ondisk /\ f - 1 \in 0..ondisk
        /\ LastGroup \in l..ondisk /\ l \in (f - 1)..ondisk
    BY <1>2
  <2>4. r[f - 1] <= r[l] /\ r[l] <= Durable /\ r[f - 1] \in Nat /\ r[l] \in Nat
    <3>1. r[f - 1] <= r[l] /\ r[l] <= r[LastGroup]
      BY <1>4, <2>3
    <3>2. r[f - 1] \in 0..Len(written) /\ r[l] \in 0..Len(written)
      BY <1>4, <2>3
    <3>3. QED
      BY <1>2, <1>5, <3>1, <3>2
  <2>5. r[f - 1] \in 0..Durable /\ r[l] \in r[f - 1]..Durable
    BY <1>9, <2>4
  <2>6. ASSUME NEW g \in Groups PROVE Column(g, s, e) = SubSeq(written, r[f - 1] + 1, r[l])
    <3> DEFINE p == piece(g)
    <3>1. Blocks(p, ondisk, written, r, f, l)
      <4>1. p = [i \in 1..ondisk |-> p[i]]
        OBVIOUS
      <4>2. ASSUME NEW i \in 1..ondisk
            PROVE  p[i] = IF i \in f..l THEN SubSeq(written, r[i - 1] + 1, r[i]) ELSE << >>
        <5>1. p[i] = IF i \in C THEN stream[i].columns[g] ELSE << >>
          OBVIOUS
        <5> HIDE DEF p
        <5>2. CASE i \in f..l
          <6>1. i \in 2..LastGroup /\ i \in C
            BY <1>2, <2>2, <5>2
          <6>2. stream[i].columns[g] = SubSeq(written, Recorded(i - 1) + 1, Recorded(i))
            BY <1>3, <6>1
          <6>3. r[i] = Recorded(i) /\ r[i - 1] = Recorded(i - 1)
            BY <1>6, <6>1
          <6>4. QED
            BY <5>1, <5>2, <6>1, <6>2, <6>3
        <5>3. CASE i \notin f..l
          BY <2>2, <5>1, <5>3
        <5>4. QED
          BY <5>2, <5>3
      <4> HIDE DEF p
      <4>3. QED
        BY <1>4, <4>1, <4>2 DEF Blocks
    <3> HIDE DEF p
    <3>2. FlattenSeq(p) = SubSeq(written, r[f - 1] + 1, r[l]) /\ r[f - 1] <= r[l]
      BY <1>2, <2>3, <3>1, FlattenBlocks
    <3>3. QED
      BY <1>8, <3>2 DEF p
  <2>7. QED
    BY <2>2, <2>5, <2>6
<1>13. QED
  BY <1>11, <1>12

(* The rows that are kept of the columns are those of the range.           *)
LEMMA RangeIsRead ==
  ASSUME FileInv, ReadInv, Opens, NEW s \in Nat, NEW e \in Nat, NEW lo, NEW hi, Ranged(s, e, lo, hi),
         NEW gs \in SUBSET Groups
  PROVE  /\ Rebuilt(gs, s, e) = Expected(gs, lo, hi)
         /\ lo <= hi => Column(Meta, s, e) # << >>
<1>1. ondisk >= 1
  BY DEF Opens
<1>2. written \in Seq(Frame) /\ Len(written) \in Nat /\ LastGroup \in 0..ondisk /\ ondisk \in Nat
  BY <1>1, GroupsOnDisk
<1>3. Durable \in 0..Len(written)
  <2>1. Bounds[LastGroup] \in 0..Len(written) /\ Bounds[LastGroup] = Durable
    BY <1>1, <1>2, BoundsClimb
  <2>2. QED
    BY <2>1
<1>4. lo \in 1..(Durable + 1) /\ hi \in (lo - 1)..Durable
  BY DEF Ranged
<1>5. \A n \in 1..Durable : (s <= Tick(n) <=> lo <= n) /\ (Tick(n) <= e <=> n <= hi)
  BY DEF Ranged
<1>6. \A n \in 1..Durable : written[n].tick = Tick(n)
  BY <1>2, <1>3 DEF ReadInv, WrittenInv, Ticked
<1>7. PICK a \in 0..Durable : \E b \in a..Durable :
        /\ a < lo /\ hi <= b
        /\ \A g \in Groups : Column(g, s, e) = SubSeq(written, a + 1, b)
  BY ColumnsAre
<1>8. PICK b \in a..Durable :
        /\ a < lo /\ hi <= b
        /\ \A g \in Groups : Column(g, s, e) = SubSeq(written, a + 1, b)
  BY <1>7
<1>9. /\ Durable \in Nat /\ a \in Nat /\ b \in Nat /\ lo \in Nat /\ hi \in Nat
      /\ a \in 0..Len(written) /\ b \in a..Len(written)
  BY <1>2, <1>3, <1>4
<1> DEFINE D == Durable
           col == SubSeq(written, a + 1, b)
           kept == KeptRows(s, e)
<1>10. /\ Len(col) = b - a
       /\ \A k \in 1..(b - a) : col[k] = written[a + k]
  <2>1. /\ SubSeq(written, a + 1, b) \in Seq(Frame) /\ Len(SubSeq(written, a + 1, b)) = b - a
        /\ \A k \in 1..(b - a) : SubSeq(written, a + 1, b)[k] = written[a + k]
    BY <1>2, <1>9, SubSeqShape
  <2>2. QED
    BY <2>1
<1> HIDE DEF D, col, kept
<1>11. \A g \in Groups : Column(g, s, e) = col
  BY <1>8 DEF col
<1> DEFINE ticks == Column(Meta, s, e)
           sieve == [k \in 1..Len(ticks) |->
                       IF s <= ticks[k].tick /\ ticks[k].tick <= e THEN <<k>> ELSE << >>]
<1>12. ticks = col
  BY <1>11, FileAssumption DEF FileAssumption
<1>13. kept = FlattenSeq(sieve)
  BY DEF KeptRows, kept
<1>14. ASSUME NEW k \in 1..(b - a)
       PROVE  s <= ticks[k].tick /\ ticks[k].tick <= e <=> lo - a <= k /\ k <= hi - a
  <2>1. a + k \in 1..Durable
    BY <1>3, <1>9
  <2>2. ticks[k].tick = Tick(a + k)
    BY <1>6, <1>10, <1>12, <2>1
  <2>3. s <= Tick(a + k) /\ Tick(a + k) <= e <=> lo <= a + k /\ a + k <= hi
    BY <1>5, <2>1
  <2>4. lo <= a + k /\ a + k <= hi <=> lo - a <= k /\ k <= hi - a
    BY <1>9
  <2>5. QED
    BY <2>2, <2>3, <2>4
<1>15. Sieve(sieve, b - a, lo - a, hi - a)
  BY <1>10, <1>12, <1>14 DEF Sieve
<1> HIDE DEF sieve, ticks
<1>16. b - a \in Nat /\ lo - a \in 1..((b - a) + 1) /\ hi - a \in ((lo - a) - 1)..(b - a)
  BY <1>4, <1>8, <1>9
<1>17. /\ FlattenSeq(sieve) \in Seq(Nat) /\ Len(FlattenSeq(sieve)) = (hi - a) - (lo - a) + 1
       /\ \A k \in 1..((hi - a) - (lo - a) + 1) : FlattenSeq(sieve)[k] = (lo - a) - 1 + k
  BY <1>15, <1>16, FilterRange
<1>18. (hi - a) - (lo - a) + 1 = hi - lo + 1
  BY <1>9
<1>19. Len(kept) = hi - lo + 1 /\ \A n \in 1..(hi - lo + 1) : kept[n] = (lo - a) - 1 + n
  BY <1>13, <1>17, <1>18
<1>20. ASSUME NEW n \in 1..(hi - lo + 1), NEW g \in gs
       PROVE  Value(g, kept[n], s, e) = written[lo + n - 1]
  <2>1. kept[n] = (lo - a) - 1 + n /\ (lo - a) - 1 + n \in 1..(b - a)
    BY <1>8, <1>9, <1>19
  <2>2. Column(g, s, e) = col
    BY <1>11
  <2>3. a + ((lo - a) - 1 + n) = lo + n - 1
    BY <1>9
  <2>4. col[(lo - a) - 1 + n] = written[lo + n - 1]
    BY <1>10, <2>1, <2>3
  <2>5. Value(g, kept[n], s, e) = IF kept[n] <= Len(Column(g, s, e)) THEN Column(g, s, e)[kept[n]] ELSE NoValue
    BY DEF Value
  <2>6. kept[n] <= Len(col)
    BY <1>9, <1>10, <2>1
  <2>7. QED
    BY <2>1, <2>2, <2>4, <2>5, <2>6
<1>21. Rebuilt(gs, s, e) = [n \in 1..Len(kept) |-> [g \in gs |-> Value(g, kept[n], s, e)]]
  BY DEF Rebuilt, kept
<1>22. [n \in 1..(hi - lo + 1) |-> [g \in gs |-> Value(g, kept[n], s, e)]]
         = [n \in 1..(hi - lo + 1) |-> [g \in gs |-> written[lo + n - 1]]]
  <2>1. \A n \in 1..(hi - lo + 1) : [g \in gs |-> Value(g, kept[n], s, e)] = [g \in gs |-> written[lo + n - 1]]
    BY <1>20
  <2>2. QED
    BY <2>1
<1>23. Rebuilt(gs, s, e) = Expected(gs, lo, hi)
  BY <1>19, <1>21, <1>22 DEF Expected
<1>24. ASSUME lo <= hi PROVE Column(Meta, s, e) # << >>
  <2>1. Column(Meta, s, e) = col
    BY <1>11, FileAssumption DEF FileAssumption
  <2>2. Len(col) # 0
    BY <1>8, <1>9, <1>10, <1>24
  <2>3. Len(<< >>) = 0
    OBVIOUS
  <2>4. QED
    BY <2>1, <2>2, <2>3
<1>25. QED
  BY <1>23, <1>24

(* What is on disk was written, and only so much is written.               *)
LEMMA DurableBound ==
  ASSUME FileInv, ReadInv, Opens
  PROVE  Durable \in 0..Len(written) /\ Len(written) \in 0..MaxFrames /\ MaxFrames \in Nat
         /\ FirstTick \in Nat /\ written \in Seq(Frame)
<1>1. ondisk >= 1
  BY DEF Opens
<1>2. written \in Seq(Frame) /\ Len(written) \in Nat /\ LastGroup \in 0..ondisk
  BY <1>1, GroupsOnDisk
<1>3. Bounds[LastGroup] \in 0..Len(written) /\ Bounds[LastGroup] = Durable
  BY <1>1, <1>2, BoundsClimb
<1>4. Len(written) <= MaxFrames
  BY DEF ReadInv, WrittenInv
<1>5. QED
  BY <1>2, <1>3, <1>4, FileAssumption DEF FileAssumption

(* FrameMeta is missing only where there is no whole row group.            *)
LEMMA NothingMissing ==
  ASSUME FileInv, ReadInv, Opens, NEW s \in Nat, NEW e \in Nat
  PROVE  MetaMissing(s, e) <=> Durable = 0
<1>1. ondisk >= 1
  BY DEF Opens
<1>2. /\ Scanned = 2..LastGroup /\ LastGroup \in Nat /\ Durable = Recorded(LastGroup)
      /\ \A i \in 2..LastGroup : /\ Recorded(i - 1) \in 0..Len(written)
                                /\ Recorded(i) \in 0..Len(written)
                                /\ Recorded(i - 1) < Recorded(i)
  BY <1>1, GroupsOnDisk
<1>3. CASE LastGroup < 2
  <2>1. Scanned = {} /\ Durable = 0
    BY <1>2, <1>3 DEF Recorded, RecordedIn
  <2>2. ASSUME NEW x \in EntriesFor(Meta, s, e) PROVE FALSE
    <3>1. x \in SkipEntries /\ HasFooter
      BY <2>2 DEF EntriesFor, SkipEntries
    <3>2. footer_offset = Len(stream) /\ ondisk = Len(stream) /\ Len(stream) > 1 /\ IsFooter(Len(stream))
      BY <3>1 DEF HasFooter, ReadInv, Footed
    <3>3. Len(stream) \in 2..Len(stream)
      BY <3>2 DEF FileInv, TypesOK, TypeOK_Units
    <3>4. x \in skip
      BY <3>1, <3>2, <3>3 DEF SkipEntries, ReadInv, Footed
    <3>5. PICK i \in 2..Len(stream) : stream[i].kind = "RGHD"
      BY <3>4 DEF ReadInv, Indexed
    <3>6. i # Len(stream) /\ LastGroup = Len(stream) - 1
      BY <3>2, <3>5 DEF IsFooter, LastGroup
    <3>7. QED
      BY <1>3, <3>3, <3>5, <3>6
  <2>3. QED
    BY <2>1, <2>2 DEF MetaMissing
<1>4. CASE LastGroup >= 2
  <2>1. LastGroup \in 2..LastGroup
    BY <1>2, <1>4
  <2>2. Durable > 0 /\ Scanned # {}
    BY <1>2, <2>1
  <2>3. Durable # 0
    BY <1>2, <2>1, <2>2
  <2>4. QED
    BY <2>2, <2>3 DEF MetaMissing
<1>5. QED
  BY <1>2, <1>3, <1>4

LEMMA PrefixIsRead ==
  ASSUME FileInv, ReadInv
  PROVE  ReadsThePrefix
<1> SUFFICES ASSUME Opens
             PROVE  ReadAll = IF Durable = 0 THEN Err ELSE Ok(Expected(Groups, 1, Durable))
  BY DEF ReadsThePrefix
<1>1. /\ Durable \in 0..Len(written) /\ Len(written) \in 0..MaxFrames
      /\ MaxFrames \in Nat /\ FirstTick \in Nat
  BY DurableBound
<1>2. 0 \in Nat /\ AllTicks \in Nat
  BY <1>1 DEF AllTicks
<1>3. Ranged(0, AllTicks, 1, Durable)
  <2>1. ASSUME NEW n \in 1..Durable
        PROVE  (0 <= Tick(n) <=> 1 <= n) /\ (Tick(n) <= AllTicks <=> n <= Durable)
    BY <1>1 DEF Tick, AllTicks
  <2>2. 1 \in 1..(Durable + 1) /\ Durable \in (1 - 1)..Durable
    BY <1>1
  <2>3. QED
    BY <2>1, <2>2 DEF Ranged
<1>4. Rebuilt(Groups, 0, AllTicks) = Expected(Groups, 1, Durable)
  BY <1>2, <1>3, RangeIsRead
<1>5. MetaMissing(0, AllTicks) <=> Durable = 0
  BY <1>2, NothingMissing
<1>6. QED
  BY <1>4, <1>5 DEF ReadAll

(* Whenever the file opens, read_all_frames returns the frames of its      *)
(* whole row groups, with all groups of a row from one frame; it is an     *)
(* error if and only if there is none.                                     *)
THEOREM PrefixAlwaysRead == Spec => []ReadsThePrefix
<1>1. FileInv /\ ReadInv => ReadsThePrefix
  BY PrefixIsRead
<1>2. Spec => []FileInv /\ []ReadInv
  BY FileAlways, ReadAlways
<1>3. QED
  BY <1>1, <1>2, PTL

(* A range that starts behind the file overlaps no row group: there is no  *)
(* column of it.                                                           *)
LEMMA BehindTheFile ==
  ASSUME FileInv, ReadInv, Opens, NEW s \in Nat, NEW e \in Nat,
         Ranged(s, e, Durable + 1, Durable)
  PROVE  Column(Meta, s, e) = << >>
<1>1. ondisk >= 1
  BY DEF Opens
<1>2. /\ Scanned = 2..LastGroup /\ LastGroup \in 0..ondisk /\ ondisk \in Nat \ {0}
      /\ Len(written) \in Nat
  BY <1>1, GroupsOnDisk
<1>3. /\ \A i \in 0..ondisk : Bounds[i] \in 0..Len(written)
      /\ \A i \in 0..ondisk : \A j \in i..ondisk : Bounds[i] <= Bounds[j]
      /\ Bounds[LastGroup] = Durable
  BY <1>1, BoundsClimb
<1>4. ASSUME NEW i \in FromHeaders(s, e) PROVE FALSE
  <2>1. i \in 2..LastGroup
    BY <1>2 DEF FromHeaders
  <2>2. Durable + 1 <= Bounds[i]
    BY <1>4, <2>1, Overlapping
  <2>3. i \in 0..ondisk /\ LastGroup \in 0..ondisk /\ LastGroup \in i..ondisk
    BY <1>2, <2>1
  <2>4. Bounds[i] <= Durable /\ Bounds[i] \in 0..Len(written) /\ Durable \in 0..Len(written)
    BY <1>3, <2>3
  <2>5. QED
    BY <1>2, <2>2, <2>4
<1>5. RowGroupsFor(Meta, s, e) = {}
  BY <1>4, SameRowGroups, FileAssumption DEF FileAssumption
<1> DEFINE piece == [i \in 1..ondisk |->
                       IF i \in RowGroupsFor(Meta, s, e) THEN stream[i].columns[Meta] ELSE << >>]
<1>6. Column(Meta, s, e) = FlattenSeq(piece)
  BY DEF Column
<1>7. Empties(piece, ondisk)
  BY <1>5 DEF Empties
<1> HIDE DEF piece
<1>8. FlattenSeq(piece) = << >>
  BY <1>2, <1>7, FlattenNone
<1>9. QED
  BY <1>6, <1>8

(* A range is refused if and only if it starts behind the file.            *)
LEMMA RangesRead ==
  ASSUME FileInv, ReadInv
  PROVE  RangesAgree
<1> SUFFICES ASSUME Opens, NEW h \in Groups, NEW from \in 1..MaxFrames, NEW to \in from..MaxFrames
             PROVE  ReadRange({Meta, h}, Tick(from), Tick(to)) =
                      IF from > Durable THEN Err ELSE Ok(Expected({Meta, h}, from, Cap(to)))
  BY DEF RangesAgree
<1> DEFINE D == Durable
<1>1. /\ D \in 0..Len(written) /\ Len(written) \in 0..MaxFrames
      /\ MaxFrames \in Nat /\ FirstTick \in Nat
  BY DurableBound
<1>2. Tick(from) \in Nat /\ Tick(to) \in Nat /\ {Meta, h} \in SUBSET Groups
  BY <1>1, FileAssumption DEF Tick, FileAssumption
<1>3. ASSUME NEW n \in 1..D
      PROVE  (Tick(from) <= Tick(n) <=> from <= n) /\ (Tick(n) <= Tick(to) <=> n <= to)
  BY <1>1 DEF Tick
<1>4. Cap(to) = IF to < D THEN to ELSE D
  BY DEF Cap
<1>5. CASE from <= D
  <2>1. from \in 1..(D + 1) /\ Cap(to) \in (from - 1)..D /\ from <= Cap(to) /\ ~(from > D)
    BY <1>1, <1>4, <1>5
  <2>2. \A n \in 1..D : n <= to <=> n <= Cap(to)
    BY <1>1, <1>4
  <2>3. Ranged(Tick(from), Tick(to), from, Cap(to))
    BY <1>3, <2>1, <2>2 DEF Ranged
  <2>4. /\ Rebuilt({Meta, h}, Tick(from), Tick(to)) = Expected({Meta, h}, from, Cap(to))
        /\ Column(Meta, Tick(from), Tick(to)) # << >>
    BY <1>2, <2>1, <2>3, RangeIsRead
  <2>5. QED
    BY <2>1, <2>4 DEF ReadRange
<1>6. CASE D < from
  <2>1. D + 1 \in 1..(D + 1) /\ D \in ((D + 1) - 1)..D /\ from > D
    BY <1>1, <1>6
  <2>2. \A n \in 1..D : (from <= n <=> D + 1 <= n) /\ (n <= to <=> n <= D)
    BY <1>1, <1>6
  <2>3. Ranged(Tick(from), Tick(to), D + 1, D)
    BY <1>3, <2>1, <2>2 DEF Ranged
  <2>4. Column(Meta, Tick(from), Tick(to)) = << >>
    BY <1>2, <2>3, BehindTheFile
  <2>5. QED
    BY <2>1, <2>4 DEF ReadRange
<1>7. from \in Int /\ D \in Int
  BY <1>1
<1>8. QED
  BY <1>5, <1>6, <1>7

(* The lap index cuts the recording into stints: stint i is the frames     *)
(* behind r[i - 1], up to r[i].                                            *)
Stints(r, n, w, label, lapOf) ==
  /\ n \in Nat /\ w \in Nat
  /\ \A i \in 0..n : r[i] \in Int
  /\ r[0] = 0 /\ r[n] = w
  /\ \A i \in 1..n : r[i - 1] < r[i]
  /\ \A i \in 1..n : \A k \in 1..w : r[i - 1] < k /\ k <= r[i] => lapOf[k] = label[i]
  /\ \A i \in 2..n : label[i] # label[i - 1]

(* Every frame is in a stint.                                              *)
LEMMA InAStint ==
  ASSUME NEW r, NEW n, NEW w, NEW label, NEW lapOf, Stints(r, n, w, label, lapOf),
         NEW k \in 1..w
  PROVE  \E i \in 1..n : r[i - 1] < k /\ k <= r[i] /\ lapOf[k] = label[i]
<1>1. n \in Nat /\ w \in Nat /\ r[0] = 0 /\ r[n] = w /\ \A i \in 0..n : r[i] \in Int
  BY DEF Stints
<1> DEFINE T == {i \in 0..n : k <= r[i]}
<1>2. T \subseteq Nat /\ n \in T
  BY <1>1
<1>3. PICK i \in T : \A j \in T : i <= j
  BY <1>2, LeastNat
<1>4. i \in 1..n /\ i - 1 \in 0..n /\ i - 1 \notin T /\ k <= r[i]
  BY <1>1, <1>2, <1>3
<1>5. r[i - 1] < k
  BY <1>1, <1>4
<1>6. lapOf[k] = label[i]
  BY <1>4, <1>5 DEF Stints
<1>7. QED
  BY <1>4, <1>5, <1>6

LEMMA StintsClimb ==
  ASSUME NEW r, NEW n, NEW w, NEW label, NEW lapOf, Stints(r, n, w, label, lapOf)
  PROVE  /\ n \in Nat /\ w \in Nat
         /\ \A i \in 0..n : r[i] \in 0..w
         /\ \A i \in 0..n : \A j \in i..n : r[i] <= r[j]
<1>1. n \in Nat /\ w \in Nat /\ r[0] = 0 /\ r[n] = w /\ \A i \in 0..n : r[i] \in Int
  BY DEF Stints
<1>2. \A i \in 1..n : r[i - 1] <= r[i]
  <2> SUFFICES ASSUME NEW i \in 1..n PROVE r[i - 1] <= r[i]
    OBVIOUS
  <2>1. r[i - 1] < r[i]
    BY DEF Stints
  <2>2. r[i - 1] \in Int /\ r[i] \in Int
    BY <1>1
  <2>3. QED
    BY <2>1, <2>2
<1>3. \A i \in 0..n : \A j \in i..n : r[i] <= r[j]
  BY <1>1, <1>2, Climbs
<1>4. \A i \in 0..n : r[i] \in 0..w
  <2> SUFFICES ASSUME NEW i \in 0..n PROVE r[i] \in 0..w
    OBVIOUS
  <2>1. 0 \in 0..n /\ i \in 0..n /\ n \in i..n
    BY <1>1
  <2>2. r[0] <= r[i] /\ r[i] <= r[n]
    BY <1>3, <2>1
  <2>3. QED
    BY <1>1, <2>2
<1>5. QED
  BY <1>1, <1>3, <1>4

(* The first entry of a lap is its first stint, from its first frame to    *)
(* the last before another lap.                                            *)
LEMMA FirstStint ==
  ASSUME NEW r, NEW n, NEW w, NEW label, NEW lapOf, Stints(r, n, w, label, lapOf),
         NEW lap, NEW e \in 1..n, label[e] = lap, \A m \in 1..n : label[m] = lap => e <= m
  PROVE  /\ r[e - 1] + 1 \in 1..w /\ r[e] \in (r[e - 1] + 1)..w
         /\ \A k \in 1..w : lapOf[k] = lap => r[e - 1] + 1 <= k
         /\ \A k \in (r[e - 1] + 1)..r[e] : k \in 1..w /\ lapOf[k] = lap
         /\ ~(r[e] + 1 \in 1..w /\ lapOf[r[e] + 1] = lap)
<1>1. /\ n \in Nat /\ w \in Nat
      /\ \A i \in 0..n : r[i] \in 0..w
      /\ \A i \in 0..n : \A j \in i..n : r[i] <= r[j]
  BY StintsClimb
<1>2. e \in Nat /\ e \in 0..n /\ e - 1 \in 0..n /\ r[e - 1] \in 0..w /\ r[e] \in 0..w
  BY <1>1
<1>3. r[e - 1] < r[e]
  BY DEF Stints
<1>4. r[e - 1] + 1 \in 1..w /\ r[e] \in (r[e - 1] + 1)..w
  BY <1>1, <1>2, <1>3
<1>5. ASSUME NEW k \in 1..w, lapOf[k] = lap PROVE r[e - 1] + 1 <= k
  <2>1. PICK i \in 1..n : r[i - 1] < k /\ k <= r[i] /\ lapOf[k] = label[i]
    BY InAStint
  <2>2. e <= i
    BY <1>5, <2>1
  <2>3. i - 1 \in (e - 1)..n /\ i - 1 \in 0..n
    BY <1>1, <1>2, <2>2
  <2>4. r[e - 1] <= r[i - 1] /\ r[i - 1] \in Int
    BY <1>1, <1>2, <2>3
  <2>5. QED
    BY <1>1, <1>2, <2>1, <2>4
<1>6. ASSUME NEW k \in (r[e - 1] + 1)..r[e] PROVE k \in 1..w /\ lapOf[k] = lap
  <2>1. k \in 1..w /\ r[e - 1] < k /\ k <= r[e]
    BY <1>1, <1>2
  <2>2. lapOf[k] = label[e]
    BY <2>1 DEF Stints
  <2>3. QED
    BY <2>1, <2>2
<1>7. ASSUME r[e] + 1 \in 1..w, lapOf[r[e] + 1] = lap PROVE FALSE
  <2>1. r[n] = w
    BY DEF Stints
  <2>2. e + 1 \in 2..n
    BY <1>1, <1>2, <1>7, <2>1
  <2>3. (e + 1) - 1 = e /\ e + 1 \in 1..n /\ e + 1 \in 0..n
    BY <1>2, <2>2
  <2>4. r[(e + 1) - 1] < r[e + 1]
    BY <2>3 DEF Stints
  <2>5. label[e + 1] # label[(e + 1) - 1]
    BY <2>2 DEF Stints
  <2>6. r[e + 1] \in 0..w
    BY <1>1, <2>3
  <2>7. r[(e + 1) - 1] < r[e] + 1 /\ r[e] + 1 <= r[e + 1]
    BY <1>1, <1>2, <2>3, <2>4, <2>6
  <2>8. lapOf[r[e] + 1] = label[e + 1]
    BY <1>7, <2>3, <2>7 DEF Stints
  <2>9. QED
    BY <1>7, <2>3, <2>5, <2>8
<1>8. QED
  BY <1>4, <1>5, <1>6, <1>7

(* A finished file opens with all its frames and the lap index in memory.  *)
LEMMA FinishedFile ==
  ASSUME FileInv, ReadInv, pc = "finished"
  PROVE  Opens /\ LapEntries = laps /\ Durable = Len(written)
<1>1. /\ footer_offset = Len(stream) /\ ondisk = Len(stream) /\ Len(stream) > 1
      /\ IsFooter(Len(stream)) /\ footer_offset # 0
  BY DEF ReadInv, Footed
<1>2. Len(stream) \in Nat /\ Len(stream) \in 2..Len(stream)
  BY <1>1 DEF FileInv, TypesOK, TypeOK_Units
<1>3. Opens
  BY <1>1, OpensBetween
<1>4. HasFooter
  BY <1>1, <1>2 DEF HasFooter
<1>5. stream[footer_offset].laps = laps
  BY <1>1, <1>2 DEF ReadInv, Footed
<1>6. RecordedIn(stream, Len(stream) - 1) = Len(written)
  BY DEF FileInv, ShapeInv, Closing
<1>7. Durable = RecordedIn(stream, Len(stream) - 1)
  BY <1>1, <1>2, DurableIs DEF DurableIn, IsFooter
<1>8. QED
  BY <1>3, <1>4, <1>5, <1>6, <1>7 DEF LapEntries

(* The end of each entry of the lap index, as a number of frames.          *)
StintEnd == [i \in 0..Len(laps) |-> IF i = 0 THEN 0 ELSE laps[i].last - FirstTick + 1]
StintLap == [i \in 1..Len(laps) |-> laps[i].lap]
FrameLap == [k \in 1..Len(written) |-> written[k].lap]

LEMMA IndexCutsStints ==
  ASSUME FileInv, ReadInv, LapIndexExact, pc = "finished"
  PROVE  /\ Stints(StintEnd, Len(laps), Len(written), StintLap, FrameLap)
         /\ \A i \in 1..Len(laps) : /\ laps[i].first = Tick(StintEnd[i - 1] + 1)
                                    /\ laps[i].last = Tick(StintEnd[i])
<1> DEFINE r == StintEnd
           N == Len(laps)
           W == Len(written)
<1>0. /\ laps \in Seq(LapEntry) /\ N \in Nat /\ W \in Nat /\ FirstTick \in Nat
  BY FileAssumption DEF FileInv, TypesOK, TypeOK_Laps, TypeOK_Rest, FileAssumption
<1>1. N \in Nat /\ W \in Nat /\ FirstTick \in Nat
  BY <1>0
<1>2. \A i \in 1..N : laps[i].first \in Nat /\ laps[i].last \in Int /\ laps[i].count \in Nat
  <2> SUFFICES ASSUME NEW i \in 1..N
               PROVE  laps[i].first \in Nat /\ laps[i].last \in Int /\ laps[i].count \in Nat
    OBVIOUS
  <2>1. laps[i] \in LapEntry
    BY <1>0
  <2>2. QED
    BY <2>1 DEF LapEntry
<1>3. r[0] = 0 /\ \A i \in 1..N : r[i] = laps[i].last - FirstTick + 1
  BY <1>1 DEF StintEnd
<1> HIDE DEF r
<1>4. \A i \in 0..N : r[i] \in Int
  <2> SUFFICES ASSUME NEW i \in 0..N PROVE r[i] \in Int
    OBVIOUS
  <2>1. i = 0 \/ i \in 1..N
    BY <1>1
  <2>2. CASE i \in 1..N
    <3>1. laps[i].last \in Int /\ r[i] = laps[i].last - FirstTick + 1
      BY <1>2, <1>3, <2>2
    <3>2. QED
      BY <1>1, <3>1
  <2>3. QED
    BY <1>3, <2>1, <2>2
<1>5. ASSUME NEW i \in 1..N PROVE laps[i].first = FirstTick + r[i - 1] /\ r[i - 1] < r[i]
  <2>1. /\ laps[i].first = (IF i = 1 THEN FirstTick ELSE laps[i - 1].last + 1)
        /\ laps[i].count > 0
        /\ laps[i].last = laps[i].first + laps[i].count - 1
    BY DEF LapIndexExact, LapsFollow
  <2>2. laps[i].first = FirstTick + r[i - 1]
    <3>1. CASE i = 1
      BY <1>1, <1>3, <2>1, <3>1
    <3>2. CASE i # 1
      <4>1. i - 1 \in 1..N
        BY <1>1, <3>2
      <4>2. r[i - 1] = laps[i - 1].last - FirstTick + 1 /\ laps[i - 1].last \in Int
        BY <1>2, <1>3, <4>1
      <4>3. laps[i].first = laps[i - 1].last + 1
        BY <2>1, <3>2
      <4>4. QED
        BY <1>1, <4>2, <4>3
    <3>3. QED
      BY <3>1, <3>2
  <2>3. i - 1 \in 0..N
    BY <1>1
  <2>4. r[i] = laps[i].last - FirstTick + 1 /\ r[i - 1] \in Int
    BY <1>3, <1>4, <2>3
  <2>5. laps[i].first \in Int /\ laps[i].last \in Int /\ laps[i].count \in Int
    BY <1>2
  <2> DEFINE x == laps[i].first
             y == laps[i].last
             c == laps[i].count
             u == r[i - 1]
             v == r[i]
  <2>6. /\ x \in Int /\ y \in Int /\ c \in Int /\ y = x + c - 1 /\ c > 0
        /\ x = FirstTick + u /\ v = y - FirstTick + 1 /\ u \in Int
    BY <2>1, <2>2, <2>4, <2>5
  <2> HIDE DEF x, y, c, u, v, N, W
  <2>7. u < v
    BY <1>1, <2>6
  <2>8. QED
    BY <2>2, <2>7 DEF u, v
<1>6. \A i \in 2..N : laps[i].lap # laps[i - 1].lap
  BY <1>1 DEF LapIndexExact, LapsFollow
<1>7. ASSUME NEW i \in 1..N, NEW k \in 1..W, r[i - 1] < k, k <= r[i]
      PROVE  written[k].lap = laps[i].lap
  <2>1. i - 1 \in 0..N
    BY <1>1
  <2> DEFINE x == laps[i].first
             y == laps[i].last
  <2>2. r[i - 1] \in Int /\ r[i] \in Int /\ y \in Int /\ x = FirstTick + r[i - 1]
        /\ r[i] = y - FirstTick + 1
    BY <1>2, <1>3, <1>4, <1>5, <2>1
  <2> HIDE DEF x, y
  <2>3. Tick(k) \in x..y
    BY <1>1, <1>7, <2>2 DEF Tick
  <2>4. QED
    BY <2>3 DEF x, y, LapIndexExact, LapsMatch
<1>8. r[N] = W
  <2>1. CASE written = << >>
    <3>1. N = 0 /\ W = 0
      BY <2>1 DEF LapIndexExact, LapsReach
    <3>2. QED
      BY <1>3, <3>1
  <2>2. CASE written # << >>
    <3>1. laps # << >> /\ laps[N].last = Tick(W)
      BY <2>2 DEF LapIndexExact, LapsReach
    <3>2. N \in 1..N
      BY <1>1, <3>1
    <3>3. r[N] = laps[N].last - FirstTick + 1
      BY <1>3, <3>2
    <3>4. QED
      BY <1>1, <3>1, <3>3 DEF Tick
  <2>3. QED
    BY <2>1, <2>2
<1>9. Stints(r, N, W, StintLap, FrameLap)
  <2>1. \A i \in 1..N : StintLap[i] = laps[i].lap
    BY DEF StintLap
  <2>2. \A k \in 1..W : FrameLap[k] = written[k].lap
    BY DEF FrameLap
  <2>3. \A i \in 1..N : r[i - 1] < r[i]
    BY <1>5
  <2>4. \A i \in 1..N : \A k \in 1..W : r[i - 1] < k /\ k <= r[i] => FrameLap[k] = StintLap[i]
    BY <1>7, <2>1, <2>2
  <2>5. \A i \in 2..N : StintLap[i] # StintLap[i - 1]
    <3> SUFFICES ASSUME NEW i \in 2..N PROVE StintLap[i] # StintLap[i - 1]
      OBVIOUS
    <3>1. i \in 1..N /\ i - 1 \in 1..N
      BY <1>1
    <3>2. QED
      BY <1>6, <2>1, <3>1
  <2> HIDE DEF N, W
  <2>6. QED
    BY <1>1, <1>3, <1>4, <1>8, <2>3, <2>4, <2>5 DEF Stints
<1>10. ASSUME NEW i \in 1..N PROVE laps[i].first = Tick(r[i - 1] + 1) /\ laps[i].last = Tick(r[i])
  <2>1. i - 1 \in 0..N
    BY <1>1
  <2>2. r[i - 1] \in Int /\ laps[i].last \in Int /\ r[i] = laps[i].last - FirstTick + 1
    BY <1>2, <1>3, <1>4, <2>1
  <2> DEFINE y == laps[i].last
             u == r[i - 1]
             v == r[i]
  <2>3. u \in Int /\ y \in Int /\ v = y - FirstTick + 1 /\ laps[i].first = FirstTick + u
    BY <1>5, <2>2
  <2> HIDE DEF y, u, v, N, W
  <2>4. FirstTick + u = Tick(u + 1) /\ y = Tick(v)
    BY <1>1, <2>3 DEF Tick
  <2>5. QED
    BY <2>3, <2>4 DEF y, u, v
<1>11. QED
  BY <1>9, <1>10 DEF r

LEMMA LapsRead ==
  ASSUME FileInv, ReadInv, LapIndexExact
  PROVE  LapsAreRead
<1> SUFFICES ASSUME pc = "finished", NEW lap \in Laps PROVE ReadLap(lap) = StintOf(lap)
  BY DEF LapsAreRead
<1> DEFINE N == Len(laps)
           W == Len(written)
           found == {n \in 1..N : laps[n].lap = lap}
           at == {n \in 1..W : written[n].lap = lap}
           first == CHOOSE n \in found : \A m \in found : n <= m
           from == CHOOSE n \in at : \A m \in at : n <= m
           to == CHOOSE n \in at : (\A m \in from..n : m \in at) /\ n + 1 \notin at
           r == StintEnd
<1>1. Opens /\ LapEntries = laps /\ Durable = W
  BY FinishedFile
<1>2. W \in Nat /\ FirstTick \in Nat
  BY <1>1, DurableBound
<1>3. Stints(r, N, W, StintLap, FrameLap)
  BY IndexCutsStints
<1>4. \A i \in 1..N : laps[i].first = Tick(r[i - 1] + 1) /\ laps[i].last = Tick(r[i])
  BY IndexCutsStints
<1>5. (\A i \in 1..N : StintLap[i] = laps[i].lap) /\ \A k \in 1..W : FrameLap[k] = written[k].lap
  BY DEF StintLap, FrameLap
<1>6. ReadLap(lap) = IF found = {} \/ MetaMissing(laps[first].first, laps[first].last) THEN Err
                     ELSE Ok(Rebuilt(Groups, laps[first].first, laps[first].last))
  BY <1>1 DEF ReadLap
<1>7. StintOf(lap) = IF at = {} THEN Err ELSE Ok(Expected(Groups, from, to))
  BY DEF StintOf
<1> HIDE DEF N, W, r
<1>8. CASE found = {}
  <2>1. ASSUME NEW k \in at PROVE FALSE
    <3>1. PICK i \in 1..N : r[i - 1] < k /\ k <= r[i] /\ FrameLap[k] = StintLap[i]
      BY <1>3, InAStint
    <3>2. i \in found
      BY <1>5, <3>1
    <3>3. QED
      BY <1>8, <3>2
  <2>2. at = {}
    BY <2>1
  <2>3. QED
    BY <1>6, <1>7, <1>8, <2>2
<1>9. CASE found # {}
  <2>1. N \in Nat /\ found \subseteq Nat
    BY <1>3 DEF Stints
  <2>2. \E n \in found : \A m \in found : n <= m
    BY <1>9, <2>1, LeastNat
  <2>3. first \in found /\ \A m \in found : first <= m
    BY <2>2
  <2> HIDE DEF first
  <2>4. first \in 1..N /\ StintLap[first] = lap /\ \A m \in 1..N : StintLap[m] = lap => first <= m
    BY <1>5, <2>3
  <2> DEFINE lo == r[first - 1] + 1
             hi == r[first]
  <2>5. /\ lo \in 1..W /\ hi \in lo..W
        /\ \A k \in 1..W : FrameLap[k] = lap => lo <= k
        /\ \A k \in lo..hi : k \in 1..W /\ FrameLap[k] = lap
        /\ ~(hi + 1 \in 1..W /\ FrameLap[hi + 1] = lap)
    <3>1. /\ r[first - 1] + 1 \in 1..W /\ r[first] \in (r[first - 1] + 1)..W
          /\ \A k \in 1..W : FrameLap[k] = lap => r[first - 1] + 1 <= k
          /\ \A k \in (r[first - 1] + 1)..r[first] : k \in 1..W /\ FrameLap[k] = lap
          /\ ~(r[first] + 1 \in 1..W /\ FrameLap[r[first] + 1] = lap)
      BY <1>3, <2>4, FirstStint
    <3>2. QED
      BY <3>1
  <2>6. laps[first].first = Tick(lo) /\ laps[first].last = Tick(hi)
    BY <1>4, <2>4
  <2> HIDE DEF lo, hi, found
  <2>7. lo \in Nat /\ hi \in Nat /\ lo <= hi
    BY <1>2, <2>5
  <2>8. \A k : k \in at <=> k \in 1..W /\ FrameLap[k] = lap
    BY <1>5
  <2>9. at # {} /\ lo \in at /\ \A m \in at : lo <= m
    BY <2>5, <2>7, <2>8
  <2>10. /\ \A k \in lo..hi : k \in at
         /\ hi \in at /\ hi + 1 \notin at
    BY <2>5, <2>7, <2>8
  <2>11. at \subseteq Nat
    BY <1>2
  <2> HIDE DEF at
  <2>12. from \in at /\ \A m \in at : from <= m
    BY <2>9
  <2>13. from = lo
    <3> HIDE DEF from
    <3>1. from <= lo /\ lo <= from /\ from \in Nat
      BY <2>9, <2>11, <2>12
    <3>2. QED
      BY <2>7, <3>1
  <2> HIDE DEF from
  <2>14. \E n \in at : (\A m \in from..n : m \in at) /\ n + 1 \notin at
    BY <2>10, <2>13
  <2>15. to \in at /\ (\A m \in from..to : m \in at) /\ to + 1 \notin at
    BY <2>14
  <2> HIDE DEF to
  <2>16. to = hi
    <3>1. to \in Nat /\ lo <= to
      BY <2>9, <2>11, <2>15
    <3>2. ASSUME to < hi PROVE FALSE
      <4>1. to + 1 \in lo..hi
        BY <2>7, <3>1, <3>2
      <4>2. QED
        BY <2>10, <2>15, <4>1
    <3>3. ASSUME hi < to PROVE FALSE
      <4>1. hi + 1 \in from..to
        BY <2>7, <2>13, <3>1, <3>3
      <4>2. QED
        BY <2>10, <2>15, <4>1
    <3>4. QED
      BY <2>7, <3>1, <3>2, <3>3
  <2>17. StintOf(lap) = Ok(Expected(Groups, lo, hi))
    BY <1>7, <2>9, <2>13, <2>16
  <2>18. Tick(lo) \in Nat /\ Tick(hi) \in Nat
    BY <1>2, <2>5, <2>7 DEF Tick
  <2>19. Ranged(Tick(lo), Tick(hi), lo, hi)
    <3>1. ASSUME NEW n \in 1..Durable
          PROVE  (Tick(lo) <= Tick(n) <=> lo <= n) /\ (Tick(n) <= Tick(hi) <=> n <= hi)
      BY <1>1, <1>2, <2>7 DEF Tick
    <3>2. lo \in 1..(Durable + 1) /\ hi \in (lo - 1)..Durable
      BY <1>1, <1>2, <2>5, <2>7
    <3>3. QED
      BY <3>1, <3>2 DEF Ranged
  <2>20. Groups \in SUBSET Groups
    OBVIOUS
  <2>21. Rebuilt(Groups, Tick(lo), Tick(hi)) = Expected(Groups, lo, hi)
    BY <1>1, <2>18, <2>19, <2>20, RangeIsRead
  <2>22. ~MetaMissing(Tick(lo), Tick(hi))
    <3>1. Durable # 0
      BY <1>1, <1>2, <2>5
    <3>2. QED
      BY <1>1, <2>18, <3>1, NothingMissing
  <2>23. QED
    BY <1>6, <1>9, <2>6, <2>17, <2>21, <2>22
<1>10. QED
  BY <1>8, <1>9

(* Reads of a range of ticks give the frames of the range that are on      *)
(* disk, through the skip index or the headers, and refuse a range of      *)
(* which none is; in a finished file read_lap_frames gives the first       *)
(* stint of the lap, and refuses a lap that was not driven.                *)
THEOREM PartsAlwaysRead == Spec => []PartsAreRead
<1>1. FileInv /\ ReadInv /\ LapIndexExact => PartsAreRead
  BY RangesRead, LapsRead DEF PartsAreRead
<1>2. Spec => []FileInv /\ []ReadInv /\ []LapIndexExact
  BY FileAlways, ReadAlways, LapsAreExact
<1>3. QED
  BY <1>1, <1>2, PTL
=============================================================================
