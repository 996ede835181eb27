--------------------- MODULE LatestValueChannel_proofs ---------------------
(***************************************************************************)
(* Theorems about LatestValueChannel, for any number of handles, items,    *)
(* generations and frames.                                                 *)
(*                                                                         *)
(* Only five kinds of step touch the frames; the others move control       *)
(* points and notifications (Quiet).  DataSteps says so once, and the      *)
(* invariants about the frames are proved over those five kinds.           *)
(***************************************************************************)
EXTENDS LatestValueChannel, TLAPS

Control ==
  /\ sender \in [Senders -> {"unborn", "idle", "checked", "notify", "signal", "wake", "gone"}]
  /\ receiver \in [Receivers -> {"unborn", "idle", "woken", "checking", "waiting",
                                 "notified", "expired", "closed", "gone"}]
  /\ token \in 0..1

Counters ==
  /\ published \in Nat /\ overwritten \in Nat /\ received \in Nat
  /\ cleared \in Nat /\ stale \in Nat

Data ==
  /\ slot \in Frame \cup {None}
  /\ floor \in Nat
  /\ accepted \in Values
  /\ view \in Frame
  /\ advanced \in Nat

(* What is pending is of the newest generation, and nothing newer than it  *)
(* was seen or announced.                                                  *)
Current ==
  /\ slot # None => slot.gen = floor
  /\ view.gen <= floor
  /\ advanced <= floor

(* The values are the numbers of the calls that sent them. *)
Stamped == \A i \in Items : accepted[i] <= published /\ view.vals[i] <= published

Quiet == UNCHANGED <<slot, floor, counters, history>>

(* The frame a call of send_latest carries. *)
NewFrame(gen, items) ==
  [gen |-> gen, vals |-> [i \in Items |-> IF i \in items THEN published + 1 ELSE 0]]

PublishSome ==
  \E s \in Senders, gen \in 0..MaxGen, items \in SUBSET Items \ {{}} : Publish(s, gen, items)

AdvanceSome == \E gen \in 1..MaxGen : Advance(gen)

-----------------------------------------------------------------------------
LEMMA ChannelFacts == Nothing \in Values /\ None \notin Frame
  BY ChannelAssumption DEF ChannelAssumption, Nothing, Values

(* extend() of a patch is a patch. *)
LEMMA OverlayTyped ==
  ASSUME NEW old \in Values, NEW new \in Values
  PROVE  Overlay(old, new) \in Values
  BY DEF Overlay, Values

(* Extending twice is extending by the extension. *)
LEMMA OverlayAssociates ==
  ASSUME NEW a \in Values, NEW b \in Values, NEW c \in Values
  PROVE  Overlay(Overlay(a, b), c) = Overlay(a, Overlay(b, c))
  BY DEF Overlay, Values

LEMMA OverlayNothing ==
  ASSUME NEW a \in Values
  PROVE  Overlay(Nothing, a) = a
<1>1. \A i \in Items : Overlay(Nothing, a)[i] = a[i]
  BY DEF Overlay, Nothing, Values
<1>2. Overlay(Nothing, a) = [i \in Items |-> Overlay(Nothing, a)[i]]
  BY DEF Overlay
<1> QED
  BY <1>1, <1>2 DEF Values

LEMMA ShownTyped ==
  ASSUME Data
  PROVE  Shown \in Values
  BY ChannelFacts DEF Data, Shown, Frame

LEMMA NewFrameTyped ==
  ASSUME Counters, NEW gen \in 0..MaxGen, NEW items \in SUBSET Items
  PROVE  NewFrame(gen, items) \in Frame /\ NewFrame(gen, items).vals \in Values
<1>1. [i \in Items |-> IF i \in items THEN published + 1 ELSE 0] \in Values
  BY DEF Counters, Values
<1>2. gen \in Nat
  BY ChannelAssumption DEF ChannelAssumption
<1> QED
  BY <1>1, <1>2 DEF NewFrame, Frame

LEMMA MergedTyped ==
  ASSUME NEW a \in Frame, NEW b \in Frame
  PROVE  Merged(a, b) \in Frame
<1>1. Overlay(a.vals, b.vals) \in Values
  BY OverlayTyped DEF Frame
<1> QED
  BY <1>1 DEF Merged, Frame

(* Every step is Quiet or one of five that move frames. *)
LEMMA DataSteps ==
  ASSUME [Next]_vars
  PROVE  Quiet \/ PublishSome \/ Take \/ ClearPending \/ AdvanceSome
<1>1. CASE UNCHANGED vars
  BY <1>1 DEF vars, Quiet
<1>2. CASE SenderNext
  <2> USE DEF Quiet, counters, history
  <2>1. PICK s \in Senders :
          \/ CloneSender(s) \/ SendCheck(s) \/ NotifyOne(s)
          \/ \E gen \in 0..MaxGen, items \in SUBSET Items \ {{}} : Publish(s, gen, items)
          \/ DropSender(s) \/ SignalDisconnect(s) \/ NotifyAll(s)
    BY <1>2 DEF SenderNext
  <2>2. CASE CloneSender(s) \/ SendCheck(s) \/ NotifyOne(s)
    BY <2>2 DEF CloneSender, SendCheck, NotifyOne
  <2>3. CASE DropSender(s) \/ SignalDisconnect(s) \/ NotifyAll(s)
    BY <2>3 DEF DropSender, SignalDisconnect, NotifyAll
  <2>4. CASE \E gen \in 0..MaxGen, items \in SUBSET Items \ {{}} : Publish(s, gen, items)
    BY <2>4 DEF PublishSome
  <2> QED
    BY <2>1, <2>2, <2>3, <2>4
<1>3. CASE ReceiverNext
  <2>1. ASSUME NEW r, CloneReceiver(r) \/ DropReceiver(r) \/ TryRecv(r)
        PROVE  Quiet \/ Take
    BY <2>1 DEF CloneReceiver, DropReceiver, TryRecv, Quiet
  <2>2. ASSUME NEW r, SelectWoken(r)
        PROVE  Quiet
    BY <2>2 DEF SelectWoken, Quiet
  <2>3. ASSUME NEW r, CheckAndWait(r) \/ StartWait(r) \/ WaitEnds(r) \/ Expire(r)
        PROVE  Quiet \/ Take
    BY <2>3 DEF CheckAndWait, StartWait, WaitEnds, Expire, Quiet
  <2> QED
    BY <1>3, <2>1, <2>2, <2>3 DEF ReceiverNext
<1>4. CASE ClearPending
  BY <1>4
<1>5. CASE \E gen \in 1..MaxGen : Advance(gen)
  BY <1>5 DEF AdvanceSome
<1>6. CASE Over
  BY <1>6 DEF Over, vars, Quiet
<1> QED
  BY <1>1, <1>2, <1>3, <1>4, <1>5, <1>6 DEF Next

-----------------------------------------------------------------------------
(* The three ways a published frame can go. *)
LEMMA PublishCases ==
  ASSUME NEW s, NEW gen, NEW items, Publish(s, gen, items)
  PROVE  /\ published' = published + 1
         /\ UNCHANGED <<received, cleared, view, advanced>>
         /\ \/ /\ gen < floor
               /\ stale' = stale + 1
               /\ UNCHANGED <<slot, floor, overwritten, accepted>>
            \/ /\ gen > floor
               /\ floor' = gen
               /\ slot' = NewFrame(gen, items)
               /\ accepted' = NewFrame(gen, items).vals
               /\ overwritten' = IF slot # None THEN overwritten + 1 ELSE overwritten
               /\ stale' = stale
            \/ /\ gen = floor
               /\ slot' = IF slot # None THEN Merged(slot, NewFrame(gen, items))
                                         ELSE NewFrame(gen, items)
               /\ accepted' = Overlay(accepted, NewFrame(gen, items).vals)
               /\ overwritten' = IF slot # None THEN overwritten + 1 ELSE overwritten
               /\ UNCHANGED <<floor, stale>>
  BY DEF Publish, Displace, NewFrame

LEMMA CountersStep ==
  ASSUME Counters, Data,
         Quiet \/ PublishSome \/ Take \/ ClearPending \/ AdvanceSome
  PROVE  Counters'
<1>1. CASE Quiet
  BY <1>1 DEF Quiet, counters, Counters
<1>2. CASE PublishSome
  <2>1. PICK s \in Senders, gen \in 0..MaxGen, items \in SUBSET Items \ {{}} :
          Publish(s, gen, items)
    BY <1>2 DEF PublishSome
  <2> QED
    BY <2>1, PublishCases DEF Counters
<1>3. CASE Take
  BY <1>3 DEF Take, Counters
<1>4. CASE ClearPending
  BY <1>4 DEF ClearPending, Discard, Counters
<1>5. CASE AdvanceSome
  BY <1>5 DEF AdvanceSome, Advance, Discard, Counters
<1> QED
  BY <1>1, <1>2, <1>3, <1>4, <1>5

LEMMA DataStep ==
  ASSUME Counters, Data,
         Quiet \/ PublishSome \/ Take \/ ClearPending \/ AdvanceSome
  PROVE  Data'
<1>1. CASE Quiet
  BY <1>1 DEF Quiet, history, Data
<1>2. CASE PublishSome
  <2>1. PICK s \in Senders, gen \in 0..MaxGen, items \in SUBSET Items \ {{}} :
          Publish(s, gen, items)
    BY <1>2 DEF PublishSome
  <2> DEFINE new == NewFrame(gen, items)
  <2>2. new \in Frame /\ new.vals \in Values
    BY NewFrameTyped
  <2>3. slot # None => Merged(slot, new) \in Frame
    BY <2>2, MergedTyped DEF Data
  <2>4. Overlay(accepted, new.vals) \in Values
    BY <2>2, OverlayTyped DEF Data
  <2>5. gen \in Nat
    BY ChannelAssumption DEF ChannelAssumption
  <2>6. floor' \in Nat /\ slot' \in Frame \cup {None} /\ accepted' \in Values
    <3> HIDE DEF new
    <3> QED
      BY <2>1, <2>2, <2>3, <2>4, <2>5, PublishCases DEF Data, new
  <2> QED
    BY <2>1, <2>6, PublishCases DEF Data
<1>3. CASE Take
  <2>1. slot \in Frame
    BY <1>3 DEF Take, Data
  <2>2. Merged(view, slot) \in Frame
    BY <2>1, MergedTyped DEF Data
  <2> QED
    BY <1>3, <2>1, <2>2 DEF Take, Data
<1>4. CASE ClearPending
  BY <1>4, ShownTyped DEF ClearPending, Discard, Data
<1>5. CASE AdvanceSome
  <2>1. PICK gen \in 1..MaxGen : Advance(gen)
    BY <1>5 DEF AdvanceSome
  <2>2. gen \in Nat
    BY ChannelAssumption DEF ChannelAssumption
  <2> QED
    BY <2>1, <2>2, ShownTyped, ChannelFacts DEF Advance, RaiseFloor, Discard, Data
<1> QED
  BY <1>1, <1>2, <1>3, <1>4, <1>5

LEMMA ControlStep ==
  ASSUME Control, [Next]_vars
  PROVE  Control'
<1> DEFINE SPoints == {"unborn", "idle", "checked", "notify", "signal", "wake", "gone"}
           RPoints == {"unborn", "idle", "woken", "checking", "waiting",
                       "notified", "expired", "closed", "gone"}
<1>1. ASSUME NEW s, NEW from, NEW to \in SPoints, SenderAt(s, from, to)
      PROVE  sender' \in [Senders -> SPoints]
  BY <1>1 DEF SenderAt, Control
<1>2. ASSUME NEW r, NEW to \in RPoints, ReceiverGoes(r, to)
      PROVE  receiver' \in [Receivers -> RPoints]
  BY <1>2 DEF ReceiverGoes, Control
<1>3. CASE UNCHANGED vars
  BY <1>3 DEF vars, Control
<1>4. CASE SenderNext
  <2>1. PICK s \in Senders :
          \/ CloneSender(s) \/ SendCheck(s) \/ NotifyOne(s)
          \/ \E gen \in 0..MaxGen, items \in SUBSET Items \ {{}} : Publish(s, gen, items)
          \/ DropSender(s) \/ SignalDisconnect(s) \/ NotifyAll(s)
    BY <1>4 DEF SenderNext
  <2>2. CASE CloneSender(s) \/ SendCheck(s)
    BY <1>1, <2>2 DEF CloneSender, SendCheck, Control
  <2>3. CASE NotifyOne(s)
    <3>1. sender' \in [Senders -> SPoints] /\ token' = token
      BY <1>1, <2>3 DEF NotifyOne
    <3>2. receiver' \in [Receivers -> RPoints]
      BY <1>2, <2>3 DEF NotifyOne, Control
    <3> QED
      BY <3>1, <3>2 DEF Control
  <2>4. CASE \E gen \in 0..MaxGen, items \in SUBSET Items \ {{}} : Publish(s, gen, items)
    <3>1. PICK gen \in 0..MaxGen, items \in SUBSET Items \ {{}} : Publish(s, gen, items)
      BY <2>4
    <3>2. sender' \in [Senders -> SPoints]
      BY <1>1, <3>1 DEF Publish
    <3>3. receiver' = receiver /\ (token' = token \/ token' = 1)
      BY <3>1 DEF Publish, Signal
    <3> QED
      BY <3>2, <3>3 DEF Control
  <2>5. CASE DropSender(s)
    BY <1>1, <2>5 DEF DropSender, Control
  <2>6. CASE SignalDisconnect(s)
    BY <1>1, <2>6 DEF SignalDisconnect, Control
  <2>7. CASE NotifyAll(s)
    <3>1. sender' \in [Senders -> SPoints]
      BY <1>1, <2>7 DEF NotifyAll
    <3>2. receiver' \in [Receivers -> RPoints] /\ token' = token
      BY <2>7 DEF NotifyAll, Control
    <3> QED
      BY <3>1, <3>2 DEF Control
  <2> QED
    BY <2>1, <2>2, <2>3, <2>4, <2>5, <2>6, <2>7
<1>5. CASE ReceiverNext
  <2>1. ASSUME NEW r \in Receivers, CloneReceiver(r) \/ DropReceiver(r)
        PROVE  Control'
    BY <1>2, <2>1 DEF CloneReceiver, DropReceiver, Control
  <2>2. ASSUME NEW r \in Receivers, TryRecv(r)
        PROVE  Control'
    <3>1. receiver' \in [Receivers -> RPoints]
      BY <1>2, <2>2 DEF TryRecv, Control
    <3> QED
      BY <2>2, <3>1 DEF TryRecv, Take, Control
  <2>3. ASSUME NEW r \in Selectors, SelectWoken(r)
        PROVE  Control'
    BY <1>2, <2>3 DEF SelectWoken, Control
  <2>4. ASSUME NEW r \in Waiters, CheckAndWait(r)
        PROVE  Control'
    <3>1. receiver' \in [Receivers -> RPoints]
      BY <1>2, <2>4 DEF CheckAndWait
    <3> QED
      BY <2>4, <3>1 DEF CheckAndWait, Take, Control
  <2>5. ASSUME NEW r \in Waiters, StartWait(r) \/ WaitEnds(r)
        PROVE  Control'
    BY <1>2, <2>5 DEF StartWait, WaitEnds, Control
  <2>6. ASSUME NEW r \in Waiters, Expire(r)
        PROVE  Control'
    <3>1. receiver' \in [Receivers -> RPoints]
      BY <1>2, <2>6 DEF Expire
    <3> QED
      BY <2>6, <3>1 DEF Expire, Take, Control
  <2> QED
    BY <1>5, <2>1, <2>2, <2>3, <2>4, <2>5, <2>6 DEF ReceiverNext
<1>6. CASE ClearPending
  BY <1>6 DEF ClearPending, Discard, Control
<1>7. CASE \E gen \in 1..MaxGen : Advance(gen)
  BY <1>7 DEF Advance, Discard, Control
<1>8. CASE Over
  BY <1>8 DEF Over, vars, Control
<1> QED
  BY <1>3, <1>4, <1>5, <1>6, <1>7, <1>8 DEF Next

LEMMA TypeParts == TypeOK <=> Control /\ Counters /\ Data
  BY DEF TypeOK, Control, Counters, Data

LEMMA TypeInit == Init => TypeOK
<1> SUFFICES ASSUME Init PROVE TypeOK
  OBVIOUS
<1>1. Control
  BY DEF Init, Control
<1>2. Counters
  BY DEF Init, Counters
<1>3. [gen |-> 0, vals |-> Nothing] \in Frame
  BY ChannelFacts DEF Frame
<1>4. Data
  BY <1>3, ChannelFacts DEF Init, Data
<1> QED
  BY <1>1, <1>2, <1>4, TypeParts

LEMMA TypeStep == TypeOK /\ [Next]_vars => TypeOK'
<1> SUFFICES ASSUME TypeOK, [Next]_vars PROVE TypeOK'
  OBVIOUS
<1>1. Control /\ Counters /\ Data
  BY TypeParts
<1>2. Control'
  BY <1>1, ControlStep
<1>3. Counters' /\ Data'
  BY <1>1, DataSteps, CountersStep, DataStep
<1> QED
  BY <1>2, <1>3 DEF TypeOK, Control, Counters, Data

(* The control points, the slot and the notification channel keep their    *)
(* types in every state of the channel.                                    *)
THEOREM TypeCorrect == Spec => []TypeOK
  BY TypeInit, TypeStep, PTL DEF Spec

-----------------------------------------------------------------------------
LEMMA ConservedStep ==
  ASSUME Counters, FramesConserved, None \notin Frame, Data,
         Quiet \/ PublishSome \/ Take \/ ClearPending \/ AdvanceSome
  PROVE  FramesConserved'
<1> DEFINE pending == IF slot # None THEN 1 ELSE 0
           sum == received + overwritten + cleared + stale
<1>0. published = sum + pending
  BY DEF FramesConserved
<1>1. CASE Quiet
  BY <1>1 DEF Quiet, counters, FramesConserved
<1>2. CASE PublishSome
  <2>1. PICK s \in Senders, gen \in 0..MaxGen, items \in SUBSET Items \ {{}} :
          Publish(s, gen, items)
    BY <1>2 DEF PublishSome
  <2>2. NewFrame(gen, items) \in Frame
    BY NewFrameTyped
  <2>3. slot # None => Merged(slot, NewFrame(gen, items)) \in Frame
    BY <2>2, MergedTyped DEF Data
  <2>4. /\ published' = published + 1
        /\ received' = received /\ cleared' = cleared
        /\ \/ stale' = stale + 1 /\ slot' = slot /\ overwritten' = overwritten
           \/ /\ stale' = stale
              /\ slot' # None
              /\ overwritten' = overwritten + pending
    BY <2>1, <2>2, <2>3, PublishCases DEF Counters
  <2>5. CASE stale' = stale + 1 /\ slot' = slot /\ overwritten' = overwritten
    <3>1. published + 1 = received + overwritten + cleared + (stale + 1) + pending
      BY <1>0 DEF Counters
    <3> QED
      BY <2>4, <2>5, <3>1 DEF FramesConserved
  <2>6. CASE stale' = stale /\ slot' # None /\ overwritten' = overwritten + pending
    <3>1. published + 1 = received + (overwritten + pending) + cleared + stale + 1
      BY <1>0 DEF Counters
    <3> HIDE DEF pending
    <3> QED
      BY <2>4, <2>6, <3>1 DEF FramesConserved
  <2> QED
    BY <2>4, <2>5, <2>6
<1>3. CASE Take
  BY <1>3 DEF Take, FramesConserved, Counters
<1>4. CASE Discard
  BY <1>4 DEF Discard, FramesConserved, Counters
<1>5. ClearPending => Discard
  BY DEF ClearPending
<1>6. AdvanceSome => Discard
  BY DEF AdvanceSome, Advance
<1> QED
  BY <1>1, <1>2, <1>3, <1>4, <1>5, <1>6

LEMMA CurrentStep ==
  ASSUME Data, Current,
         Quiet \/ PublishSome \/ Take \/ ClearPending \/ AdvanceSome
  PROVE  Current'
<1>1. CASE Quiet
  BY <1>1 DEF Quiet, history, Current
<1>2. CASE PublishSome
  <2>1. PICK s \in Senders, gen \in 0..MaxGen, items \in SUBSET Items \ {{}} :
          Publish(s, gen, items)
    BY <1>2 DEF PublishSome
  <2>2. NewFrame(gen, items).gen = gen
    BY DEF NewFrame
  <2>3. Merged(slot, NewFrame(gen, items)).gen = gen
    BY <2>2 DEF Merged
  <2>4. gen \in Nat
    BY ChannelAssumption DEF ChannelAssumption
  <2>5. floor' >= floor /\ (slot' # None => slot'.gen = floor')
    BY <2>1, <2>2, <2>3, <2>4, PublishCases DEF Current, Data
  <2>6. view' = view /\ advanced' = advanced
    BY <2>1, PublishCases
  <2>7. floor' \in Nat /\ view.gen \in Nat
    BY <2>1, <2>4, PublishCases DEF Data, Frame
  <2> QED
    BY <2>5, <2>6, <2>7 DEF Current, Data
<1>3. CASE Take
  <2>1. slot # None /\ slot' = None /\ UNCHANGED <<floor, advanced>>
    BY <1>3 DEF Take
  <2>2. view'.gen = slot.gen
    BY <1>3 DEF Take, Merged
  <2>3. slot.gen = floor
    BY <2>1 DEF Current
  <2> QED
    BY <2>1, <2>2, <2>3 DEF Current, Data
<1>4. CASE ClearPending
  BY <1>4 DEF ClearPending, Discard, Current
<1>5. CASE AdvanceSome
  <2>1. PICK gen \in 1..MaxGen : Advance(gen)
    BY <1>5 DEF AdvanceSome
  <2>2. gen \in Nat
    BY ChannelAssumption DEF ChannelAssumption
  <2>3. view.gen \in Nat
    BY DEF Data, Frame
  <2> QED
    BY <2>1, <2>2, <2>3 DEF Advance, RaiseFloor, Discard, Current, Data
<1> QED
  BY <1>1, <1>2, <1>3, <1>4, <1>5

(* What the display can be brought to is what was accepted. *)
LEMMA NothingLostStep ==
  ASSUME Counters, Data, Current, NothingLost, None \notin Frame,
         Quiet \/ PublishSome \/ Take \/ ClearPending \/ AdvanceSome
  PROVE  NothingLost'
<1>1. CASE Quiet
  BY <1>1 DEF Quiet, history, NothingLost, Shown
<1>2. CASE PublishSome
  <2>1. PICK s \in Senders, gen \in 0..MaxGen, items \in SUBSET Items \ {{}} :
          Publish(s, gen, items)
    BY <1>2 DEF PublishSome
  <2> DEFINE new == NewFrame(gen, items)
  <2>2. new \in Frame /\ new.vals \in Values
    BY NewFrameTyped
  <2>3. gen \in Nat
    BY ChannelAssumption DEF ChannelAssumption
  <2>4. Shown \in Values
    BY ShownTyped
  <2>5. CASE gen < floor
    <3>1. UNCHANGED <<slot, floor, accepted, view>>
      BY <2>1, <2>3, <2>5, PublishCases DEF Data
    <3> QED
      BY <3>1 DEF NothingLost, Shown
  <2>6. CASE gen > floor
    <3>1. floor' = gen /\ slot' = new /\ accepted' = new.vals /\ view' = view
      BY <2>1, <2>3, <2>6, PublishCases DEF Data
    <3>2. view.gen # gen
      BY <2>3, <2>6 DEF Current, Data, Frame
    <3>3. Shown' = Nothing
      BY <3>1, <3>2 DEF Shown
    <3>4. slot' # None
      BY <2>2, <3>1
    <3> QED
      BY <2>2, <3>1, <3>3, <3>4, OverlayNothing DEF NothingLost
  <2>7. CASE gen = floor
    <3>1. /\ floor' = floor /\ view' = view
          /\ accepted' = Overlay(accepted, new.vals)
          /\ slot' = IF slot # None THEN Merged(slot, new) ELSE new
      BY <2>1, <2>3, <2>7, PublishCases DEF Data
    <3>2. Shown' = Shown
      BY <3>1 DEF Shown
    <3>3. CASE slot = None
      BY <2>2, <3>1, <3>2, <3>3 DEF NothingLost
    <3>4. CASE slot # None
      <4>1. slot.vals \in Values /\ Merged(slot, new) \in Frame
        BY <2>2, <3>4, MergedTyped DEF Data, Frame
      <4>2. slot' = Merged(slot, new) /\ slot' # None
        BY <3>1, <3>4, <4>1
      <4>3. slot'.vals = Overlay(slot.vals, new.vals)
        BY <4>2 DEF Merged
      <4>4. accepted' = Overlay(Overlay(Shown, slot.vals), new.vals)
        BY <3>1, <3>4 DEF NothingLost
      <4>5. accepted' = Overlay(Shown, Overlay(slot.vals, new.vals))
        BY <2>2, <2>4, <4>1, <4>4, OverlayAssociates
      <4> QED
        BY <3>2, <4>2, <4>3, <4>5 DEF NothingLost
    <3> QED
      BY <3>3, <3>4
  <2> QED
    BY <2>3, <2>5, <2>6, <2>7 DEF Data
<1>3. CASE Take
  <2>1. slot \in Frame /\ slot.vals \in Values /\ slot.gen = floor
    BY <1>3 DEF Take, Data, Frame, Current
  <2>2. accepted = Overlay(Shown, slot.vals)
    BY <1>3 DEF Take, NothingLost
  <2>3. slot' = None /\ floor' = floor /\ accepted' = accepted
    BY <1>3 DEF Take
  <2>4. CASE view.gen = slot.gen
    <3>1. view' = Merged(view, slot)
      BY <1>3, <2>4 DEF Take
    <3>2. Shown' = Overlay(view.vals, slot.vals) /\ Shown = view.vals
      BY <2>1, <2>3, <2>4, <3>1 DEF Shown, Merged
    <3> QED
      BY <2>2, <2>3, <3>2 DEF NothingLost
  <2>5. CASE view.gen # slot.gen
    <3>1. view' = slot
      BY <1>3, <2>5 DEF Take
    <3>2. Shown' = slot.vals /\ Shown = Nothing
      BY <2>1, <2>3, <2>5, <3>1 DEF Shown
    <3> QED
      BY <2>1, <2>2, <2>3, <3>2, OverlayNothing DEF NothingLost
  <2> QED
    BY <2>4, <2>5
<1>4. CASE ClearPending
  BY <1>4 DEF ClearPending, Discard, NothingLost, Shown
<1>5. CASE AdvanceSome
  <2>1. PICK gen \in 1..MaxGen : Advance(gen)
    BY <1>5 DEF AdvanceSome
  <2>2. slot' = None /\ view' = view
    BY <2>1 DEF Advance, Discard
  <2>3. CASE gen > floor
    <3>1. floor' = gen /\ accepted' = Nothing
      BY <2>1, <2>3 DEF Advance, RaiseFloor
    <3>2. view.gen # gen
      BY <2>3, ChannelAssumption DEF Current, Data, Frame, ChannelAssumption
    <3> QED
      BY <2>2, <3>1, <3>2 DEF NothingLost, Shown
  <2>4. CASE ~(gen > floor)
    <3>1. floor' = floor /\ accepted' = Shown
      BY <2>1, <2>4 DEF Advance, RaiseFloor
    <3> QED
      BY <2>2, <3>1 DEF NothingLost, Shown
  <2> QED
    BY <2>3, <2>4
<1> QED
  BY <1>1, <1>2, <1>3, <1>4, <1>5

LEMMA FramesInit == Init => FramesConserved /\ Current /\ NothingLost /\ Stamped
<1> SUFFICES ASSUME Init PROVE FramesConserved /\ Current /\ NothingLost /\ Stamped
  OBVIOUS
<1>1. FramesConserved
  BY DEF Init, FramesConserved
<1>2. Current
  BY DEF Init, Current
<1>3. NothingLost
  BY DEF Init, NothingLost, Shown
<1>4. Stamped
  BY DEF Init, Stamped, Nothing
<1> QED
  BY <1>1, <1>2, <1>3, <1>4

(* No frame is counted twice or not at all. *)
THEOREM FramesAreConserved == Spec => []FramesConserved
<1>1. Init => FramesConserved
  BY FramesInit
<1>2. TypeOK /\ FramesConserved /\ [Next]_vars => FramesConserved'
  BY TypeParts, ChannelFacts, DataSteps, ConservedStep
<1>3. FramesConserved /\ UNCHANGED vars => FramesConserved'
  BY DEF FramesConserved, vars, counters
<1> QED
  BY <1>1, <1>2, TypeCorrect, PTL DEF Spec

(* The pending frame, the view and the service's announcement never run    *)
(* ahead of the floor.                                                     *)
THEOREM AlwaysCurrent == Spec => []Current
<1>1. Init => Current
  BY FramesInit
<1>2. TypeOK /\ Current /\ [Next]_vars => Current'
  BY TypeParts, DataSteps, CurrentStep
<1> QED
  BY <1>1, <1>2, TypeCorrect, PTL DEF Spec

(* The view and the pending patch together hold the newest value of every  *)
(* item of the generation.                                                 *)
THEOREM NothingIsLost == Spec => []NothingLost
<1>1. Init => NothingLost
  BY FramesInit
<1>2. TypeOK /\ Current /\ NothingLost /\ [Next]_vars => NothingLost'
  BY TypeParts, ChannelFacts, DataSteps, NothingLostStep
<1> QED
  BY <1>1, <1>2, TypeCorrect, AlwaysCurrent, PTL DEF Spec

-----------------------------------------------------------------------------
(* A step that leaves the slot as it is keeps its wake-up; a step that     *)
(* fills it signals; the rest empty it.                                    *)
LEMMA SignalledStep ==
  ASSUME Control, PendingIsSignalled, [Next]_vars
  PROVE  PendingIsSignalled'
<1> DEFINE Woken == \E r \in Selectors : receiver[r] = "woken"
<1>1. ASSUME slot' = slot, token' = token \/ token' = 1,
             \A r \in Selectors : receiver[r] = "woken" => receiver'[r] = "woken"
      PROVE  PendingIsSignalled'
  BY <1>1 DEF PendingIsSignalled
<1>2. ASSUME slot' = None
      PROVE  PendingIsSignalled'
  BY <1>2 DEF PendingIsSignalled
<1>3. ASSUME token' = 1
      PROVE  PendingIsSignalled'
  BY <1>3 DEF PendingIsSignalled
<1>4. Selectors \subseteq Receivers
  BY DEF Receivers
<1>5. ASSUME NEW r, NEW to, ReceiverGoes(r, to), receiver[r] # "woken"
      PROVE  \A q \in Selectors : receiver[q] = "woken" => receiver'[q] = "woken"
  BY <1>4, <1>5 DEF ReceiverGoes, Control
<1>6. CASE UNCHANGED vars
  BY <1>1, <1>6 DEF vars
<1>7. CASE SenderNext
  <2>1. PICK s \in Senders :
          \/ CloneSender(s) \/ SendCheck(s) \/ NotifyOne(s)
          \/ \E gen \in 0..MaxGen, items \in SUBSET Items \ {{}} : Publish(s, gen, items)
          \/ DropSender(s) \/ SignalDisconnect(s) \/ NotifyAll(s)
    BY <1>7 DEF SenderNext
  <2>2. CASE CloneSender(s) \/ SendCheck(s) \/ DropSender(s)
    BY <1>1, <2>2 DEF CloneSender, SendCheck, DropSender
  <2>3. CASE NotifyOne(s)
    <3>1. slot' = slot /\ token' = token
      BY <2>3 DEF NotifyOne
    <3>2. \A q \in Selectors : receiver[q] = "woken" => receiver'[q] = "woken"
      BY <1>5, <2>3 DEF NotifyOne
    <3> QED
      BY <1>1, <3>1, <3>2
  <2>4. CASE \E gen \in 0..MaxGen, items \in SUBSET Items \ {{}} : Publish(s, gen, items)
    <3>1. \/ token' = 1
          \/ slot' = slot /\ token' = token /\ receiver' = receiver
      BY <2>4 DEF Publish, Signal
    <3> QED
      BY <1>1, <1>3, <3>1
  <2>5. CASE SignalDisconnect(s)
    BY <1>3, <2>5 DEF SignalDisconnect
  <2>6. CASE NotifyAll(s)
    BY <1>1, <1>4, <2>6 DEF NotifyAll
  <2> QED
    BY <2>1, <2>2, <2>3, <2>4, <2>5, <2>6
<1>8. CASE ReceiverNext
  <2>1. ASSUME NEW r \in Receivers, CloneReceiver(r) \/ DropReceiver(r)
        PROVE  PendingIsSignalled'
    <3>1. slot' = slot /\ token' = token
      BY <2>1 DEF CloneReceiver, DropReceiver
    <3>2. \A q \in Selectors : receiver[q] = "woken" => receiver'[q] = "woken"
      BY <1>5, <2>1 DEF CloneReceiver, DropReceiver
    <3> QED
      BY <1>1, <3>1, <3>2
  <2>2. ASSUME NEW r, TryRecv(r) \/ CheckAndWait(r) \/ Expire(r)
        PROVE  slot' = None
    BY <2>2 DEF TryRecv, CheckAndWait, Expire, Take
  <2>3. ASSUME NEW r \in Selectors, SelectWoken(r)
        PROVE  PendingIsSignalled'
    <3>1. receiver'[r] = "woken"
      BY <1>4, <2>3 DEF SelectWoken, ReceiverGoes, Control
    <3> QED
      BY <3>1 DEF PendingIsSignalled
  <2>4. ASSUME NEW r \in Waiters, StartWait(r) \/ WaitEnds(r)
        PROVE  PendingIsSignalled'
    <3>1. slot' = slot /\ token' = token
      BY <2>4 DEF StartWait, WaitEnds
    <3>2. \A q \in Selectors : receiver[q] = "woken" => receiver'[q] = "woken"
      BY <1>5, <2>4 DEF StartWait, WaitEnds
    <3> QED
      BY <1>1, <3>1, <3>2
  <2> QED
    BY <1>2, <1>8, <2>1, <2>2, <2>3, <2>4 DEF ReceiverNext
<1>9. CASE ClearPending \/ AdvanceSome
  BY <1>2, <1>9 DEF ClearPending, AdvanceSome, Advance, Discard
<1>10. CASE Over
  BY <1>1, <1>10 DEF Over, vars
<1> QED
  BY <1>6, <1>7, <1>8, <1>9, <1>10 DEF Next, AdvanceSome

(* A selector that serves its notifications is never left sleeping on a    *)
(* pending frame.                                                          *)
THEOREM PendingHasAWakeUp == Spec => []PendingIsSignalled
<1>1. Init => PendingIsSignalled
  BY DEF Init, PendingIsSignalled
<1>2. TypeOK /\ PendingIsSignalled /\ [Next]_vars => PendingIsSignalled'
  BY TypeParts, SignalledStep
<1> QED
  BY <1>1, <1>2, TypeCorrect, PTL DEF Spec

(* After the service has advanced, the display receives nothing older.     *)
THEOREM NothingStale == Spec => NoStaleDelivery
<1>1. TypeOK /\ Current /\ [Next]_vars => (view' # view => view'.gen >= advanced)
  <2> SUFFICES ASSUME TypeOK, Current, [Next]_vars, view' # view
               PROVE  view'.gen >= advanced
    OBVIOUS
  <2>1. Quiet \/ PublishSome \/ Take \/ ClearPending \/ AdvanceSome
    BY DataSteps
  <2>2. Take
    BY <2>1 DEF Quiet, history, PublishSome, Publish, ClearPending, AdvanceSome, Advance,
                Discard
  <2>3. slot # None /\ view'.gen = slot.gen
    BY <2>2 DEF Take, Merged
  <2> QED
    BY <2>3, TypeParts DEF Current, Data
<1>2. TypeOK /\ Current /\ [Next]_vars => [view' # view => view'.gen >= advanced]_vars
  BY <1>1
<1> QED
  BY <1>2, TypeCorrect, AlwaysCurrent, PTL DEF Spec, NoStaleDelivery

-----------------------------------------------------------------------------
(* Taking the slot brings the view fully up to date. *)
LEMMA TakeDelivers ==
  ASSUME Data, Current, NothingLost, Take
  PROVE  view' = [gen |-> floor, vals |-> accepted]
<1>1. slot \in Frame /\ slot.vals \in Values /\ slot.gen = floor
  BY DEF Take, Data, Frame, Current
<1>2. accepted = Overlay(Shown, slot.vals)
  BY DEF Take, NothingLost
<1>3. CASE view.gen = slot.gen
  <2>1. view' = Merged(view, slot)
    BY <1>3 DEF Take
  <2> QED
    BY <1>1, <1>2, <1>3, <2>1 DEF Shown, Merged
<1>4. CASE view.gen # slot.gen
  <2>1. view' = slot /\ Shown = Nothing
    BY <1>1, <1>4 DEF Take, Shown
  <2>2. accepted = slot.vals
    BY <1>1, <1>2, <2>1, OverlayNothing
  <2> QED
    BY <1>1, <2>1, <2>2 DEF Frame
<1> QED
  BY <1>3, <1>4

LEMMA StampedStep ==
  ASSUME Counters, Data, Current, NothingLost, Stamped,
         Quiet \/ PublishSome \/ Take \/ ClearPending \/ AdvanceSome
  PROVE  Stamped'
<1>1. CASE Quiet
  BY <1>1 DEF Quiet, counters, history, Stamped
<1>2. CASE PublishSome
  <2>1. PICK s \in Senders, gen \in 0..MaxGen, items \in SUBSET Items \ {{}} :
          Publish(s, gen, items)
    BY <1>2 DEF PublishSome
  <2> DEFINE new == NewFrame(gen, items)
  <2>2. published' = published + 1 /\ published \in Nat /\ view' = view
    BY <2>1, PublishCases DEF Counters
  <2>3. new.vals \in Values /\ \A i \in Items : new.vals[i] = 0 \/ new.vals[i] = published + 1
    BY NewFrameTyped DEF NewFrame
  <2>4. accepted' \in {accepted, new.vals, Overlay(accepted, new.vals)}
    BY <2>1, PublishCases
  <2>5. \A i \in Items : /\ accepted[i] \in Nat /\ accepted[i] <= published
                         /\ view.vals[i] \in Nat /\ view.vals[i] <= published
    BY DEF Data, Values, Frame, Stamped
  <2>6. \A i \in Items : /\ accepted[i] <= published + 1
                         /\ new.vals[i] <= published + 1
                         /\ Overlay(accepted, new.vals)[i] <= published + 1
                         /\ view.vals[i] <= published + 1
    <3> HIDE DEF new
    <3> QED
      BY <2>2, <2>3, <2>5 DEF Overlay
  <2>7. \A i \in Items : accepted'[i] <= published + 1
    <3> HIDE DEF new
    <3> QED
      BY <2>4, <2>6
  <2> QED
    BY <2>2, <2>6, <2>7 DEF Stamped
<1>3. CASE Take
  BY <1>3, TakeDelivers DEF Take, Stamped
<1>4. \A i \in Items : Shown[i] <= published
  BY DEF Shown, Nothing, Stamped, Counters
<1>5. CASE ClearPending
  BY <1>4, <1>5 DEF ClearPending, Discard, Stamped
<1>6. CASE AdvanceSome
  BY <1>4, <1>6 DEF AdvanceSome, Advance, Discard, Stamped, Nothing, Counters
<1> QED
  BY <1>1, <1>2, <1>3, <1>5, <1>6

LEMMA AlwaysStamped == Spec => []Stamped
<1>1. Init => Stamped
  BY FramesInit
<1>2. TypeOK /\ Current /\ NothingLost /\ Stamped /\ [Next]_vars => Stamped'
  BY TypeParts, DataSteps, StampedStep
<1> QED
  BY <1>1, <1>2, TypeCorrect, AlwaysCurrent, NothingIsLost, PTL DEF Spec

LEMMA RegisterInit == Init => Register!Init
<1>1. Register!Nothing = Nothing
  BY DEF Register!Nothing, Nothing
<1> QED
  BY <1>1 DEF Init, Register!Init

LEMMA RegisterStep ==
  ASSUME TypeOK, Current, NothingLost, Stamped, TypeOK', [Next]_vars
  PROVE  [Register!Next]_(Register!vars)
<1> USE DEF Register!Next
<1>1. Counters /\ Data /\ Data'
  BY TypeParts DEF TypeOK, Data
<1>2. Register!Values = Values /\ Register!Nothing = Nothing
  BY DEF Register!Values, Values, Register!Nothing, Nothing
<1>3. Register!Seen = Shown
  BY <1>2 DEF Register!Seen, Shown
<1>4. Quiet \/ PublishSome \/ Take \/ ClearPending \/ AdvanceSome
  BY DataSteps
<1>5. CASE Quiet
  BY <1>5 DEF Quiet, history, Register!vars
<1>6. CASE PublishSome
  <2>1. PICK s \in Senders, gen \in 0..MaxGen, items \in SUBSET Items \ {{}} :
          Publish(s, gen, items)
    BY <1>6 DEF PublishSome
  <2>2. gen \in Nat
    BY ChannelAssumption DEF ChannelAssumption
  <2>3. CASE gen < floor
    <3>1. UNCHANGED <<floor, accepted, view>>
      BY <1>1, <2>1, <2>2, <2>3, PublishCases DEF Data
    <3> QED
      BY <3>1 DEF Register!vars
  <2>4. CASE gen > floor
    <3>1. floor' = gen /\ view' = view
      BY <1>1, <2>1, <2>2, <2>4, PublishCases DEF Data
    <3> QED
      BY <1>1, <1>2, <2>2, <2>4, <3>1 DEF Register!Renew, Data
  <2>5. CASE gen = floor
    <3>1. floor' = floor /\ view' = view /\ accepted' = Overlay(accepted, NewFrame(gen, items).vals)
      BY <1>1, <2>1, <2>2, <2>5, PublishCases DEF Data
    <3>2. \A i \in Items : accepted[i] \in Nat /\ accepted[i] <= published
      BY <1>1 DEF Data, Values, Stamped
    <3>3. \A i \in Items : NewFrame(gen, items).vals[i] \in {0, published + 1}
      BY DEF NewFrame
    <3>4. \A i \in Items : accepted'[i] >= accepted[i]
      BY <1>1, <3>1, <3>2, <3>3 DEF Overlay, Counters
    <3> QED
      BY <1>1, <1>2, <3>1, <3>4 DEF Register!Write, Data
  <2> QED
    BY <1>1, <2>2, <2>3, <2>4, <2>5 DEF Data
<1>7. CASE Take
  BY <1>1, <1>7, TakeDelivers DEF Register!Deliver, Take
<1>8. CASE ClearPending
  BY <1>3, <1>8 DEF Register!Discard, ClearPending, Discard
<1>9. CASE AdvanceSome
  <2>1. PICK gen \in 1..MaxGen : Advance(gen)
    BY <1>9 DEF AdvanceSome
  <2>2. view' = view
    BY <2>1 DEF Advance, Discard
  <2>3. CASE gen > floor
    <3>1. floor' = gen
      BY <2>1, <2>3 DEF Advance, RaiseFloor
    <3> QED
      BY <1>1, <1>2, <2>2, <2>3, <3>1 DEF Register!Renew, Data
  <2>4. CASE ~(gen > floor)
    <3>1. floor' = floor /\ accepted' = Shown
      BY <2>1, <2>4 DEF Advance, RaiseFloor
    <3> QED
      BY <1>3, <2>2, <3>1 DEF Register!Discard
  <2> QED
    BY <2>3, <2>4
<1> QED
  BY <1>4, <1>5, <1>6, <1>7, <1>8, <1>9

(* The channel implements the register: each delivery brings the view      *)
(* fully up to date, and the merging in the slot is invisible.             *)
THEOREM IsARegister == Spec => ImplementsRegister
<1>1. TypeOK /\ Current /\ NothingLost /\ Stamped /\ TypeOK' /\ [Next]_vars
        => [Register!Next]_(Register!vars)
  BY RegisterStep
<1> QED
  BY <1>1, RegisterInit, TypeCorrect, AlwaysCurrent, NothingIsLost, AlwaysStamped, PTL
  DEF Spec, ImplementsRegister, Register!Spec
=============================================================================
