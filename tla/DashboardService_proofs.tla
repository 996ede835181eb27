----------------------- MODULE DashboardService_proofs -----------------------
(***************************************************************************)
(* Proofs about DashboardService, for every value of its constants: type   *)
(* correctness, the truth of the answers to replacements, and, with the    *)
(* latest-value sink, the refinement of DashboardFeed.                     *)
(*                                                                         *)
(* The state is split into what the display can tell (feed) and the rest.  *)
(* DataSteps says in which four ways a step changes the feed.              *)
(***************************************************************************)
EXTENDS DashboardService, FiniteSetTheorems, TLAPS

feed == <<subs, gen, inforce, sink, known, view>>

Control ==
  /\ caller \in [Callers -> Call]
  /\ calls \in 0..MaxCalls
  /\ listed \subseteq Items
  /\ cmd_ch \in Seq(Command) /\ Len(cmd_ch) <= CmdCapacity
  /\ source \in {"feeding", "over"}
  /\ frame_ch \in 0..1
  /\ service \in {"select", "answer", "exited"}
  /\ slipped \in BOOLEAN

Data ==
  /\ subs \subseteq Registered
  /\ gen \in Nat
  /\ sink \in Seq(DashFrame) /\ Len(sink) <= SinkCapacity
  /\ inforce \in [0..gen -> SUBSET Registered]
  /\ known \in 0..gen
  /\ view \in DashFrame

AnswerTyped == answer \in [call : 0..MaxCalls, gen : Nat]

(* A replacement that is still to be acknowledged made the newest           *)
(* generation, or was refused.                                              *)
AnswerShape == service = "answer" => answer.gen \in {0, gen}

LEMMA TypeParts == TypeOK <=> Control /\ Data /\ AnswerTyped
  BY DEF TypeOK, Control, Data, AnswerTyped

-----------------------------------------------------------------------------
(* The four ways in which a step changes the feed. *)
Sent == /\ \E keys \in SUBSET subs : Deliver(Frame(keys))
        /\ UNCHANGED <<subs, gen, inforce, known, view>>
Renewed == /\ \E items \in SUBSET Registered : Renew(items)
           /\ UNCHANGED <<known, view>>
Told == /\ service = "answer"
        /\ known' \in {known, answer.gen}
        /\ answer.gen = 0 => UNCHANGED known
        /\ UNCHANGED <<subs, gen, inforce, sink, view>>

(* What a command does to the subscriptions. *)
LEMMA CommandSteps ==
  ASSUME Control, Data, TakeCommand
  PROVE  /\ UNCHANGED feed \/ Renewed
         /\ service' = "answer" =>
              /\ cmd_ch[1].op = "replace"
              /\ answer' = [call |-> cmd_ch[1].call, gen |-> IF gen' # gen THEN gen' ELSE 0]
         /\ UNCHANGED <<answer, service>> \/ service' = "answer"
<1> DEFINE cmd == Head(cmd_ch)
<1>1. cmd \in Command /\ cmd = cmd_ch[1]
  BY DEF Control, TakeCommand
<1>2. cmd.items \subseteq Items
  BY <1>1 DEF Command
<1>3. service = "select" /\ UNCHANGED <<known, view>>
  BY DEF TakeCommand
<1>4. CASE cmd.op = "add"
  <2>1. PICK i \in cmd.items : Subscribe(i)
    BY <1>4 DEF TakeCommand
  <2>2. UNCHANGED <<service, answer>>
    BY <1>4 DEF TakeCommand
  <2>3. UNCHANGED <<subs, gen, inforce, sink>> \/ \E items \in SUBSET Registered : Renew(items)
    BY <2>1 DEF Subscribe, Data
  <2> QED
    BY <1>3, <2>2, <2>3 DEF feed, Renewed
<1>5. CASE cmd.op = "remove"
  <2>1. PICK i \in cmd.items : Unsubscribe(i)
    BY <1>5 DEF TakeCommand
  <2>2. UNCHANGED <<service, answer>>
    BY <1>5 DEF TakeCommand
  <2>3. UNCHANGED <<subs, gen, inforce, sink>> \/ \E items \in SUBSET Registered : Renew(items)
    BY <2>1 DEF Unsubscribe, Data
  <2> QED
    BY <1>3, <2>2, <2>3 DEF feed, Renewed
<1>6. CASE cmd.op = "replace"
  <2>1. /\ ReplaceItems(cmd.items)
        /\ service' = "answer"
        /\ answer' = [call |-> cmd.call, gen |-> IF gen' # gen THEN gen' ELSE 0]
    BY <1>6 DEF TakeCommand
  <2>2. UNCHANGED <<subs, gen, inforce, sink>> \/ \E items \in SUBSET Registered : Renew(items)
    BY <2>1 DEF ReplaceItems
  <2> QED
    BY <1>1, <1>3, <1>6, <2>1, <2>2 DEF feed, Renewed
<1>7. CASE cmd.op = "reference"
  BY <1>3, <1>7 DEF TakeCommand, feed
<1> QED
  BY <1>4, <1>5, <1>6, <1>7 DEF TakeCommand

LEMMA DataSteps ==
  ASSUME Control, Data, [Next]_vars
  PROVE  UNCHANGED feed \/ Sent \/ Renewed \/ Told \/ Show
<1> USE DEF feed, callerVars, serviceVars
<1>1. CASE CallerNext
  BY <1>1 DEF CallerNext, AddItem, RemoveItem, SendChange, Replace, ReplaceReturns,
              ReplaceFails
<1>2. CASE Distribute \/ SendReference \/ StopFeeding
  BY <1>2 DEF Distribute, SendReference, StopFeeding
<1>3. CASE ProcessFrame
  BY <1>3 DEF ProcessFrame, Sent
<1>4. CASE TakeCommand
  BY <1>4, CommandSteps
<1>5. CASE Acknowledge
  BY <1>5 DEF Acknowledge, Told
<1>6. CASE ServiceExit
  BY <1>6 DEF ServiceExit
<1>7. CASE Over \/ UNCHANGED vars
  BY <1>7 DEF Over, vars
<1> QED
  BY <1>1, <1>2, <1>3, <1>4, <1>5, <1>6, <1>7 DEF Next, ServiceNext

-----------------------------------------------------------------------------
(* Type correctness *)

LEMMA PendingTyped == Data => Pending \subseteq Items
<1>1. Data => \A k \in DOMAIN sink : sink[k] \in DashFrame
  BY DEF Data
<1>2. Data => \A k \in DOMAIN sink : sink[k].keys \subseteq Items
  BY <1>1 DEF DashFrame
<1> QED
  BY <1>2 DEF Pending

LEMMA DeliverTyped ==
  ASSUME Data, NEW keys \in SUBSET subs, Deliver(Frame(keys))
  PROVE  sink' \in Seq(DashFrame) /\ Len(sink') <= SinkCapacity
<1>1. Frame(keys) \in DashFrame /\ Frame(keys) = [gen |-> gen, keys |-> keys]
  BY DashboardAssumption DEF Frame, DashFrame, Data, DashboardAssumption
<1>2. << >> \in Seq(DashFrame) /\ sink \in Seq(DashFrame) /\ Len(sink) <= SinkCapacity
  BY DEF Data
<1>3. CASE LatestSink
  <2>1. keys \cup Pending \subseteq Items
    BY PendingTyped, DashboardAssumption DEF Data, DashboardAssumption
  <2>2. sink' = << [gen |-> gen, keys |-> keys \cup Pending] >>
    BY <1>1, <1>3 DEF Deliver
  <2> DEFINE merged == [gen |-> gen, keys |-> keys \cup Pending]
  <2>3. merged \in DashFrame
    BY <2>1 DEF DashFrame, Data
  <2> HIDE DEF merged
  <2>4. << merged >> \in Seq(DashFrame) /\ Len(<< merged >>) = 1
    BY <2>3
  <2>5. sink' = << merged >>
    BY <2>2 DEF merged
  <2> QED
    BY <2>4, <2>5, DashboardAssumption DEF DashboardAssumption
<1>4. CASE ~LatestSink
  <2>1. sink' = IF Len(sink) < SinkCapacity THEN Append(sink, Frame(keys)) ELSE sink
    BY <1>4 DEF Deliver
  <2>2. Append(sink, Frame(keys)) \in Seq(DashFrame) /\ Len(Append(sink, Frame(keys))) = Len(sink) + 1
    BY <1>1, <1>2
  <2>3. Len(sink) \in Nat /\ SinkCapacity \in Nat
    BY <1>2, DashboardAssumption DEF DashboardAssumption
  <2>4. CASE Len(sink) < SinkCapacity
    <3>1. Len(sink) + 1 <= SinkCapacity
      BY <2>3, <2>4
    <3> QED
      BY <2>1, <2>2, <2>4, <3>1
  <2>5. CASE ~(Len(sink) < SinkCapacity)
    BY <1>2, <2>1, <2>5
  <2> QED
    BY <2>4, <2>5
<1> QED
  BY <1>3, <1>4

LEMMA RenewTyped ==
  ASSUME Data, NEW items \in SUBSET Registered, Renew(items)
  PROVE  /\ subs' = items /\ gen' = gen + 1
         /\ inforce' \in [0..gen' -> SUBSET Registered]
         /\ inforce'[gen'] = items
         /\ \A g \in 0..gen : inforce'[g] = inforce[g]
         /\ sink' = IF LatestSink THEN << >> ELSE sink
<1>1. subs' = items /\ gen' = gen + 1 /\ gen' \in Nat
  BY DEF Renew, Data
<1>2. inforce' = [g \in 0..gen' |-> IF g = gen' THEN items ELSE inforce[g]]
  BY DEF Renew
<1>3. \A g \in 0..gen' : g # gen' => g \in 0..gen
  BY <1>1 DEF Data
<1>4. \A g \in 0..gen' : inforce'[g] \in SUBSET Registered
  BY <1>2, <1>3 DEF Data
<1>5. gen' \in 0..gen' /\ \A g \in 0..gen : g \in 0..gen' /\ g # gen'
  BY <1>1 DEF Data
<1> QED
  BY <1>1, <1>2, <1>4, <1>5 DEF Renew, AdvanceSink

LEMMA DataStep ==
  ASSUME Control, Data, AnswerTyped, AnswerShape, [Next]_vars
  PROVE  Data'
<1>1. CASE UNCHANGED feed
  BY <1>1 DEF feed, Data
<1>2. CASE Sent
  BY <1>2, DeliverTyped DEF Sent, Data
<1>3. CASE Renewed
  <2>1. PICK items \in SUBSET Registered : Renew(items)
    BY <1>3 DEF Renewed
  <2>2. sink' = << >> \/ sink' = sink
    BY <2>1, RenewTyped
  <2>3. sink' \in Seq(DashFrame) /\ Len(sink') <= SinkCapacity
    <3>1. CASE sink' = << >>
      <4>1. << >> \in Seq(DashFrame) /\ Len(<< >>) = 0
        OBVIOUS
      <4> QED
        BY <3>1, <4>1, DashboardAssumption DEF DashboardAssumption
    <3>2. CASE sink' = sink
      BY <3>2 DEF Data
    <3> QED
      BY <2>2, <3>1, <3>2
  <2>4. known' \in 0..gen' /\ view' \in DashFrame
    BY <1>3, <2>1, RenewTyped DEF Renewed, Data
  <2> QED
    BY <2>1, <2>3, <2>4, RenewTyped DEF Data
<1>4. CASE Told
  BY <1>4 DEF Told, Data, AnswerTyped, AnswerShape
<1>5. CASE Show
  <2>1. sink # << >> /\ view' = Head(sink) /\ sink' = Tail(sink)
        /\ UNCHANGED <<subs, gen, inforce, known>>
    BY <1>5 DEF Show, serviceVars
  <2>2. sink' \in Seq(DashFrame) /\ Len(sink') <= SinkCapacity /\ view' \in DashFrame
    BY <2>1, DashboardAssumption DEF Data, DashboardAssumption
  <2> QED
    BY <2>1, <2>2 DEF Data
<1> QED
  BY <1>1, <1>2, <1>3, <1>4, <1>5, DataSteps

LEMMA SendTyped ==
  ASSUME Control, CanSend, NEW op \in {"add", "remove", "replace", "reference"},
         NEW items \in SUBSET Items, NEW call \in 0..MaxCalls, SendCommand(op, items, call)
  PROVE  cmd_ch' \in Seq(Command) /\ Len(cmd_ch') <= CmdCapacity
<1>1. [op |-> op, items |-> items, call |-> call] \in Command
  BY DEF Command
<1> QED
  BY <1>1, DashboardAssumption DEF SendCommand, CanSend, Control, DashboardAssumption

LEMMA BeginTyped ==
  ASSUME Control, NEW c \in Callers, NEW op \in {"add", "remove", "replace"},
         NEW items \in SUBSET Items, NEW point \in {"send", "waiting"},
         Begin(c, op, items, point)
  PROVE  caller' \in [Callers -> Call] /\ calls' \in 0..MaxCalls
<1>1. calls' = calls + 1 /\ calls' \in 0..MaxCalls
  BY DashboardAssumption DEF Begin, Control, DashboardAssumption
<1>2. [at |-> point, call |-> calls', op |-> op, items |-> items, gen |-> 0] \in Call
  BY <1>1 DEF Call
<1> QED
  BY <1>1, <1>2 DEF Begin, Control

LEMMA ReturnTyped ==
  ASSUME Control, NEW c \in Callers, Return(c)
  PROVE  caller' \in [Callers -> Call]
  BY DEF Return, Control, Call

LEMMA ControlStep ==
  ASSUME Control, Data, AnswerTyped, [Next]_vars
  PROVE  Control'
<1> USE DEF callerVars, serviceVars
<1>1. ASSUME NEW c \in Callers, NEW i \in Items, AddItem(c, i) \/ RemoveItem(c, i)
      PROVE  Control'
  <2>1. caller' \in [Callers -> Call] /\ calls' \in 0..MaxCalls
    BY <1>1, BeginTyped DEF AddItem, RemoveItem
  <2> QED
    BY <1>1, <2>1 DEF AddItem, RemoveItem, Control
<1>2. ASSUME NEW c \in Callers, SendChange(c)
      PROVE  Control'
  <2>1. caller' \in [Callers -> Call]
    BY <1>2, ReturnTyped DEF SendChange
  <2>2. caller[c].items \in SUBSET Items /\ caller[c].call \in 0..MaxCalls
    BY DEF Control, Call
  <2>3. caller[c].at = "send"
    BY <1>2 DEF SendChange
  <2>4. CASE UNCHANGED cmd_ch
    BY <1>2, <2>1, <2>4 DEF SendChange, Control
  <2>5. CASE CanSend /\ SendCommand(caller[c].op, caller[c].items, caller[c].call)
    <3>1. cmd_ch' \in Seq(Command) /\ Len(cmd_ch') <= CmdCapacity
      <4>1. caller[c].op \in {"add", "remove", "replace", "reference"}
        BY DEF Control, Call
      <4> QED
        BY <2>2, <2>5, <4>1, SendTyped
    <3> QED
      BY <1>2, <2>1, <3>1 DEF SendChange, Control
  <2> QED
    BY <1>2, <2>4, <2>5 DEF SendChange
<1>3. ASSUME NEW c \in Callers, NEW items \in SUBSET Items, Replace(c, items)
      PROVE  Control'
  <2>1. caller' \in [Callers -> Call] /\ calls' \in 0..MaxCalls
    BY <1>3, BeginTyped DEF Replace
  <2>2. cmd_ch' \in Seq(Command) /\ Len(cmd_ch') <= CmdCapacity
    BY <1>3, <2>1, SendTyped DEF Replace
  <2> QED
    BY <1>3, <2>1, <2>2 DEF Replace, Control
<1>4. ASSUME NEW c \in Callers, ReplaceReturns(c) \/ ReplaceFails(c)
      PROVE  Control'
  <2>1. caller' \in [Callers -> Call]
    BY <1>4, ReturnTyped DEF ReplaceReturns, ReplaceFails
  <2>2. listed' \subseteq Items
    BY <1>4 DEF ReplaceReturns, ReplaceFails, Control, Call
  <2> QED
    BY <1>4, <2>1, <2>2 DEF ReplaceReturns, ReplaceFails, Control
<1>5. CASE Distribute \/ StopFeeding
  BY <1>5 DEF Distribute, StopFeeding, Control
<1>6. CASE SendReference
  <2>1. cmd_ch' \in Seq(Command) /\ Len(cmd_ch') <= CmdCapacity
    BY <1>6, SendTyped, DashboardAssumption DEF SendReference, DashboardAssumption
  <2> QED
    BY <1>6, <2>1 DEF SendReference, Control
<1>7. CASE ProcessFrame
  BY <1>7 DEF ProcessFrame, Control
<1>8. CASE TakeCommand
  <2>1. cmd_ch' \in Seq(Command) /\ Len(cmd_ch') <= CmdCapacity
    BY <1>8, DashboardAssumption DEF TakeCommand, Control, DashboardAssumption
  <2>2. service' \in {"select", "answer", "exited"}
    BY <1>8, CommandSteps DEF Control
  <2>3. UNCHANGED <<callerVars, source, frame_ch>>
    BY <1>8 DEF TakeCommand
  <2> QED
    BY <2>1, <2>2, <2>3 DEF Control
<1>9. CASE Acknowledge
  <2>1. caller' \in [Callers -> Call]
    <3>1. CASE UNCHANGED caller
      BY <3>1 DEF Control
    <3>2. ASSUME NEW c \in Callers, Answer(c)
          PROVE  caller' \in [Callers -> Call]
      <4>1. [caller[c] EXCEPT !.at = "answered", !.gen = answer.gen] \in Call
        BY DEF Control, Call, AnswerTyped
      <4>2. caller' = [caller EXCEPT ![c] = [caller[c] EXCEPT !.at = "answered", !.gen = answer.gen]]
        BY <3>2 DEF Answer, Control
      <4> QED
        BY <4>1, <4>2 DEF Control
    <3> QED
      BY <1>9, <3>1, <3>2 DEF Acknowledge
  <2> QED
    BY <1>9, <2>1 DEF Acknowledge, Control
<1>10. CASE ServiceExit
  BY <1>10, DashboardAssumption DEF ServiceExit, Control, DashboardAssumption
<1>11. CASE Show \/ Over \/ UNCHANGED vars
  BY <1>11 DEF Show, Over, vars, Control
<1> QED
  BY <1>1, <1>2, <1>3, <1>4, <1>5, <1>6, <1>7, <1>8, <1>9, <1>10, <1>11
  DEF Next, CallerNext, ServiceNext

(* Only TakeCommand touches the answer. *)
LEMMA AnswerKept ==
  ASSUME [Next]_vars
  PROVE  TakeCommand \/ (UNCHANGED answer /\ (service' = "answer" => UNCHANGED <<service, gen>>))
  BY DEF Next, CallerNext, ServiceNext, AddItem, RemoveItem, SendChange, Replace,
         ReplaceReturns, ReplaceFails, Distribute, SendReference, StopFeeding, ProcessFrame,
         Acknowledge, ServiceExit, Show, Over, vars, callerVars, serviceVars

LEMMA AnswerStep ==
  ASSUME Control, Data, AnswerTyped, AnswerShape, [Next]_vars, Data'
  PROVE  AnswerTyped' /\ AnswerShape'
<1>1. CASE TakeCommand
  <2>1. cmd_ch[1].call \in 0..MaxCalls
    <3>1. cmd_ch # << >> /\ cmd_ch \in Seq(Command)
      BY <1>1 DEF TakeCommand, Control
    <3>2. cmd_ch[1] \in Command
      BY <3>1
    <3> QED
      BY <3>2 DEF Command
  <2>2. CASE service' = "answer"
    BY <1>1, <2>1, <2>2, CommandSteps DEF AnswerTyped, AnswerShape, Data
  <2>3. CASE service' # "answer"
    BY <1>1, <2>3, CommandSteps DEF AnswerTyped, AnswerShape
  <2> QED
    BY <2>2, <2>3
<1>2. CASE UNCHANGED answer /\ (service' = "answer" => UNCHANGED <<service, gen>>)
  BY <1>2 DEF AnswerTyped, AnswerShape
<1> QED
  BY <1>1, <1>2, AnswerKept

LEMMA TypeInit == Init => TypeOK /\ AnswerShape
<1> SUFFICES ASSUME Init PROVE TypeOK /\ AnswerShape
  OBVIOUS
<1>1. IsFiniteSet(Items) /\ subs \in SUBSET Items
  BY DashboardAssumption DEF Init, DashboardAssumption
<1>2. gen \in Nat
  BY <1>1, FS_Subset, FS_CardinalityType DEF Init
<1>3. caller \in [Callers -> Call]
  BY DashboardAssumption DEF Init, Call, DashboardAssumption
<1>4. Control /\ AnswerTyped
  <2>1. cmd_ch \in Seq(Command) /\ Len(cmd_ch) = 0
    BY DEF Init
  <2>2. listed \subseteq Items /\ calls \in 0..MaxCalls /\ Len(cmd_ch) <= CmdCapacity
    BY <1>1, <2>1, DashboardAssumption DEF Init, DashboardAssumption
  <2>3. answer \in [call : 0..MaxCalls, gen : Nat]
    BY DashboardAssumption DEF Init, DashboardAssumption
  <2>4. slipped \in BOOLEAN
    BY DEF Init
  <2>5. /\ source \in {"feeding", "over"}
        /\ frame_ch \in 0..1
        /\ service \in {"select", "answer", "exited"}
    BY DEF Init
  <2> QED
    BY <1>3, <2>1, <2>2, <2>3, <2>4, <2>5 DEF Control, AnswerTyped
<1>5. inforce \in [0..gen -> SUBSET Registered]
  BY DEF Init
<1>6. Data
  BY <1>2, <1>5, DashboardAssumption DEF Init, Data, DashFrame, DashboardAssumption
<1> QED
  BY <1>4, <1>6, TypeParts DEF Init, AnswerShape

LEMMA TypeStep == TypeOK /\ AnswerShape /\ [Next]_vars => TypeOK' /\ AnswerShape'
<1> SUFFICES ASSUME TypeOK, AnswerShape, [Next]_vars PROVE TypeOK' /\ AnswerShape'
  OBVIOUS
<1>1. Control /\ Data /\ AnswerTyped
  BY TypeParts
<1>2. Data'
  BY <1>1, DataStep
<1>3. Control'
  BY <1>1, ControlStep
<1>4. AnswerTyped' /\ AnswerShape'
  BY <1>1, <1>2, AnswerStep
<1> QED
  BY <1>2, <1>3, <1>4 DEF TypeOK, Control, Data, AnswerTyped

LEMMA TypesAlways == Spec => [](TypeOK /\ AnswerShape)
  BY TypeInit, TypeStep, PTL DEF Spec

(* The controller, the channels and the service keep their types. *)
THEOREM TypeCorrect == Spec => []TypeOK
  BY TypesAlways, PTL

-----------------------------------------------------------------------------
(* The answers.  CallShape: a number names one call, in the queue, with the *)
(* service and with its caller; AskedShape says the items in the queue are   *)
(* those the caller asked for, PromisedShape that the service has put in    *)
(* force what it is about to acknowledge.                                   *)

CallShape ==
  /\ \A c \in Callers : caller[c].call <= calls
  /\ \A k \in DOMAIN cmd_ch : cmd_ch[k].call <= calls
  /\ answer.call <= calls
  /\ \A c \in Callers : caller[c].at = "send" => caller[c].op # "replace"

AskedShape ==
  /\ \A k \in DOMAIN cmd_ch, c \in Callers :
       cmd_ch[k].op = "replace" /\ cmd_ch[k].call = caller[c].call =>
         caller[c].op = "replace" /\ caller[c].items = cmd_ch[k].items

PromisedShape ==
  service = "answer" /\ answer.gen # 0 =>
    \A c \in Callers : answer.call = caller[c].call =>
      caller[c].op = "replace" /\ caller[c].items = inforce[answer.gen]

Shapes == CallShape /\ AskedShape /\ PromisedShape /\ AnswersAreTrue

LEMMA ShapesInit == Init => Shapes
  BY DEF Init, Shapes, CallShape, AskedShape, PromisedShape, AnswersAreTrue

(* What the steps do to a call and to the queue. *)
LEMMA BeginEffect ==
  ASSUME Control, NEW c \in Callers, NEW op, NEW items, NEW point, Begin(c, op, items, point)
  PROVE  /\ calls' = calls + 1
         /\ caller'[c] = [at |-> point, call |-> calls + 1, op |-> op, items |-> items,
                          gen |-> 0]
         /\ \A d \in Callers : d # c => caller'[d] = caller[d]
  BY DEF Begin, Control

LEMMA ReturnEffect ==
  ASSUME Control, NEW c \in Callers, Return(c)
  PROVE  /\ \A d \in Callers : /\ caller'[d].call = caller[d].call
                               /\ caller'[d].op = caller[d].op
                               /\ caller'[d].items = caller[d].items
                               /\ caller'[d].gen = caller[d].gen
         /\ caller'[c].at = "idle"
         /\ \A d \in Callers : d # c => caller'[d].at = caller[d].at
<1>1. caller' = [caller EXCEPT ![c] = [caller[c] EXCEPT !.at = "idle"]]
  BY DEF Return, Control
<1>2. \A d \in Callers : caller[d] \in Call
  BY DEF Control
<1>3. caller'[c] = [caller[c] EXCEPT !.at = "idle"] /\ \A d \in Callers : d # c => caller'[d] = caller[d]
  BY <1>1 DEF Control
<1> QED
  BY <1>2, <1>3 DEF Call

LEMMA AppendEffect ==
  ASSUME Control, NEW op, NEW items, NEW call, SendCommand(op, items, call),
         NEW k \in DOMAIN cmd_ch'
  PROVE  \/ k \in DOMAIN cmd_ch /\ cmd_ch'[k] = cmd_ch[k]
         \/ cmd_ch'[k] = [op |-> op, items |-> items, call |-> call]
<1>1. cmd_ch \in Seq(Command)
  BY DEF Control
<1> DEFINE cmd == [op |-> op, items |-> items, call |-> call]
<1>2. cmd_ch' = Append(cmd_ch, cmd)
  BY DEF SendCommand
<1> HIDE DEF cmd
<1>3. (k \in DOMAIN cmd_ch /\ cmd_ch'[k] = cmd_ch[k]) \/ cmd_ch'[k] = cmd
  BY <1>1, <1>2
<1> QED
  BY <1>3 DEF cmd

LEMMA TailEffect ==
  ASSUME Control, cmd_ch # << >>, cmd_ch' = Tail(cmd_ch), NEW k \in DOMAIN cmd_ch'
  PROVE  k + 1 \in DOMAIN cmd_ch /\ cmd_ch'[k] = cmd_ch[k + 1]
<1>1. cmd_ch \in Seq(Command)
  BY DEF Control
<1> QED
  BY <1>1

LEMMA NumbersTyped ==
  Control /\ AnswerTyped =>
    /\ calls \in Nat /\ answer.call \in Nat
    /\ \A c \in Callers : caller[c].call \in Nat
    /\ \A k \in DOMAIN cmd_ch : cmd_ch[k].call \in Nat
<1> SUFFICES ASSUME Control, AnswerTyped
             PROVE  /\ calls \in Nat /\ answer.call \in Nat
                    /\ \A c \in Callers : caller[c].call \in Nat
                    /\ \A k \in DOMAIN cmd_ch : cmd_ch[k].call \in Nat
  OBVIOUS
<1>1. \A k \in DOMAIN cmd_ch : cmd_ch[k] \in Command
  BY DEF Control
<1> QED
  BY <1>1, DashboardAssumption DEF Control, AnswerTyped, Call, Command, DashboardAssumption

LEMMA ShapesStep ==
  ASSUME Control, Data, AnswerTyped, AnswerShape, Shapes, [Next]_vars
  PROVE  Shapes'
<1> USE NumbersTyped DEF Shapes, callerVars, serviceVars
<1>1. ASSUME NEW c \in Callers, NEW i \in Items, AddItem(c, i) \/ RemoveItem(c, i)
      PROVE  Shapes'
  <2>1. PICK op \in {"add", "remove"} : Begin(c, op, {i}, "send")
    BY <1>1 DEF AddItem, RemoveItem
  <2>2. UNCHANGED <<cmd_ch, serviceVars>>
    BY <1>1 DEF AddItem, RemoveItem
  <2>3. /\ calls' = calls + 1
        /\ caller'[c] = [at |-> "send", call |-> calls + 1, op |-> op, items |-> {i}, gen |-> 0]
        /\ \A d \in Callers : d # c => caller'[d] = caller[d]
    BY <2>1, BeginEffect
  <2> QED
    BY <2>2, <2>3 DEF CallShape, AskedShape, PromisedShape, AnswersAreTrue
<1>2. ASSUME NEW c \in Callers, NEW items \in SUBSET Items, Replace(c, items)
      PROVE  Shapes'
  <2>1. Begin(c, "replace", items, "waiting") /\ UNCHANGED serviceVars
    BY <1>2 DEF Replace
  <2>2. /\ calls' = calls + 1
        /\ caller'[c] = [at |-> "waiting", call |-> calls + 1, op |-> "replace",
                         items |-> items, gen |-> 0]
        /\ \A d \in Callers : d # c => caller'[d] = caller[d]
    BY <2>1, BeginEffect
  <2>3. SendCommand("replace", items, calls + 1)
    BY <1>2, <2>2 DEF Replace
  <2>4. \A k \in DOMAIN cmd_ch' :
          \/ k \in DOMAIN cmd_ch /\ cmd_ch'[k] = cmd_ch[k]
          \/ cmd_ch'[k] = [op |-> "replace", items |-> items, call |-> calls + 1]
    BY <2>3, AppendEffect
  <2>5. CallShape'
    BY <2>1, <2>2, <2>4 DEF CallShape
  <2>6. AskedShape'
    <3> SUFFICES ASSUME NEW k \in DOMAIN cmd_ch', NEW d \in Callers,
                        cmd_ch'[k].op = "replace", cmd_ch'[k].call = caller'[d].call
                 PROVE  caller'[d].op = "replace" /\ caller'[d].items = cmd_ch'[k].items
      BY DEF AskedShape
    <3>1. CASE d = c
      BY <2>2, <2>4, <3>1 DEF CallShape
    <3>2. CASE d # c
      BY <2>2, <2>4, <3>2 DEF CallShape, AskedShape
    <3> QED
      BY <3>1, <3>2
  <2>7. PromisedShape' /\ AnswersAreTrue'
    BY <2>1, <2>2 DEF CallShape, PromisedShape, AnswersAreTrue
  <2> QED
    BY <2>5, <2>6, <2>7
<1>3. ASSUME NEW c \in Callers, SendChange(c)
      PROVE  Shapes'
  <2>1. /\ \A d \in Callers : /\ caller'[d].call = caller[d].call
                              /\ caller'[d].op = caller[d].op
                              /\ caller'[d].items = caller[d].items
                              /\ caller'[d].gen = caller[d].gen
        /\ caller'[c].at = "idle"
        /\ \A d \in Callers : d # c => caller'[d].at = caller[d].at
    BY <1>3, ReturnEffect DEF SendChange
  <2>2. UNCHANGED <<calls, serviceVars>>
    BY <1>3 DEF SendChange
  <2>3. \A k \in DOMAIN cmd_ch' :
          \/ k \in DOMAIN cmd_ch /\ cmd_ch'[k] = cmd_ch[k]
          \/ cmd_ch'[k] = [op |-> caller[c].op, items |-> caller[c].items,
                           call |-> caller[c].call]
    BY <1>3, AppendEffect DEF SendChange
  <2>4. caller[c].op # "replace"
    BY <1>3 DEF SendChange, CallShape
  <2>5. CallShape' /\ AskedShape'
    BY <2>1, <2>2, <2>3, <2>4 DEF CallShape, AskedShape
  <2>6. PromisedShape' /\ AnswersAreTrue'
    BY <2>1, <2>2 DEF PromisedShape, AnswersAreTrue
  <2> QED
    BY <2>5, <2>6
<1>4. ASSUME NEW c \in Callers, ReplaceReturns(c) \/ ReplaceFails(c)
      PROVE  Shapes'
  <2>1. /\ \A d \in Callers : /\ caller'[d].call = caller[d].call
                              /\ caller'[d].op = caller[d].op
                              /\ caller'[d].items = caller[d].items
                              /\ caller'[d].gen = caller[d].gen
        /\ caller'[c].at = "idle"
        /\ \A d \in Callers : d # c => caller'[d].at = caller[d].at
    BY <1>4, ReturnEffect DEF ReplaceReturns, ReplaceFails
  <2>2. UNCHANGED <<calls, cmd_ch, serviceVars>>
    BY <1>4 DEF ReplaceReturns, ReplaceFails
  <2> QED
    BY <2>1, <2>2 DEF CallShape, AskedShape, PromisedShape, AnswersAreTrue
<1>5. CASE SendReference
  <2>1. SendCommand("reference", {}, 0) /\ UNCHANGED <<callerVars, serviceVars>>
    BY <1>5 DEF SendReference
  <2>2. \A k \in DOMAIN cmd_ch' :
          \/ k \in DOMAIN cmd_ch /\ cmd_ch'[k] = cmd_ch[k]
          \/ cmd_ch'[k] = [op |-> "reference", items |-> {}, call |-> 0]
    BY <2>1, AppendEffect
  <2>3. CallShape' /\ AskedShape'
    BY <2>1, <2>2 DEF CallShape, AskedShape
  <2> QED
    BY <2>1, <2>3 DEF PromisedShape, AnswersAreTrue
<1>6. CASE TakeCommand
  <2>1. UNCHANGED callerVars /\ cmd_ch # << >> /\ cmd_ch' = Tail(cmd_ch)
    BY <1>6 DEF TakeCommand
  <2>2. \A k \in DOMAIN cmd_ch' : k + 1 \in DOMAIN cmd_ch /\ cmd_ch'[k] = cmd_ch[k + 1]
    BY <2>1, TailEffect
  <2>3. 1 \in DOMAIN cmd_ch
    BY <2>1 DEF Control
  <2>4. UNCHANGED <<gen, inforce>> \/ \E items \in SUBSET Registered : Renew(items)
    BY <1>6, CommandSteps DEF feed, Renewed
  <2>5. \A g \in 0..gen : g \in DOMAIN inforce' /\ inforce'[g] = inforce[g]
    <3>1. CASE UNCHANGED <<gen, inforce>>
      BY <3>1 DEF Data
    <3>2. ASSUME NEW items \in SUBSET Registered, Renew(items)
          PROVE  \A g \in 0..gen : g \in DOMAIN inforce' /\ inforce'[g] = inforce[g]
      <4>1. gen' = gen + 1 /\ DOMAIN inforce' = 0..gen'
        BY <3>2, RenewTyped
      <4>2. \A g \in 0..gen : g \in 0..gen'
        BY <4>1 DEF Data
      <4> QED
        BY <3>2, <4>1, <4>2, RenewTyped
    <3> QED
      BY <2>4, <3>1, <3>2
  <2>6. AnswersAreTrue'
    BY <2>1, <2>5 DEF AnswersAreTrue, Data
  <2>7. answer' = answer \/ answer'.call = cmd_ch[1].call
    BY <1>6, CommandSteps
  <2>8. CallShape'
    BY <2>1, <2>2, <2>3, <2>7 DEF CallShape
  <2>9. AskedShape'
    BY <2>1, <2>2 DEF AskedShape
  <2>10. PromisedShape'
    <3> SUFFICES ASSUME service' = "answer", answer'.gen # 0, NEW c \in Callers,
                        answer'.call = caller[c].call
                 PROVE  caller[c].op = "replace" /\ caller[c].items = inforce'[answer'.gen]
      BY <2>1 DEF PromisedShape
    <3>1. /\ cmd_ch[1].op = "replace" /\ answer'.call = cmd_ch[1].call
          /\ answer'.gen = gen' /\ gen' # gen
      BY <1>6, CommandSteps DEF Data
    <3>2. caller[c].op = "replace" /\ caller[c].items = cmd_ch[1].items
      BY <2>3, <3>1 DEF AskedShape
    <3>3. ReplaceItems(cmd_ch[1].items)
      BY <2>1, <3>1 , <1>6 DEF TakeCommand
    <3>4. cmd_ch[1].items \in SUBSET Registered /\ Renew(cmd_ch[1].items)
      BY <3>1, <3>3 DEF ReplaceItems
    <3> QED
      BY <3>1, <3>2, <3>4, RenewTyped
  <2> QED
    BY <2>6, <2>8, <2>9, <2>10
<1>7. CASE Acknowledge
  <2>1. /\ service = "answer" /\ service' = "select"
        /\ UNCHANGED <<calls, cmd_ch, answer, gen, inforce>>
    BY <1>7 DEF Acknowledge
  <2>2. CASE UNCHANGED caller
    BY <2>1, <2>2 DEF CallShape, AskedShape, PromisedShape, AnswersAreTrue
  <2>3. ASSUME NEW c \in Callers, Waits(c), Answer(c)
        PROVE  Shapes'
    <3>1. caller' = [caller EXCEPT ![c] = [caller[c] EXCEPT !.at = "answered", !.gen = answer.gen]]
      BY <2>3 DEF Answer, Control
    <3>2. caller'[c] = [caller[c] EXCEPT !.at = "answered", !.gen = answer.gen]
          /\ \A d \in Callers : d # c => caller'[d] = caller[d]
      BY <3>1 DEF Control
    <3>3. /\ \A d \in Callers : /\ caller'[d].call = caller[d].call
                                /\ caller'[d].op = caller[d].op
                                /\ caller'[d].items = caller[d].items
          /\ caller'[c].at = "answered" /\ caller'[c].gen = answer.gen
      <4>1. caller[c] \in Call
        BY DEF Control
      <4> QED
        BY <3>2, <4>1 DEF Call
    <3>4. CallShape' /\ AskedShape' /\ PromisedShape'
      <4>1. CallShape'
        BY <2>1, <3>2, <3>3 DEF CallShape
      <4>2. AskedShape'
        BY <2>1, <3>3 DEF AskedShape
      <4>3. PromisedShape'
        BY <2>1 DEF PromisedShape
      <4> QED
        BY <4>1, <4>2, <4>3
    <3>5. answer.gen # 0 => answer.gen \in DOMAIN inforce /\ caller[c].op = "replace"
                            /\ inforce[answer.gen] = caller[c].items
      BY <2>1, <2>3 DEF Waits, AnswerShape, PromisedShape, Data
    <3>6. AnswersAreTrue'
      BY <2>1, <3>2, <3>3, <3>5 DEF AnswersAreTrue
    <3> QED
      BY <3>4, <3>6
  <2> QED
    BY <1>7, <2>2, <2>3 DEF Acknowledge
<1>8. CASE ServiceExit
  BY <1>8 DEF ServiceExit, CallShape, AskedShape, PromisedShape, AnswersAreTrue
<1>9. CASE UNCHANGED <<callerVars, cmd_ch, serviceVars>>
  BY <1>9 DEF CallShape, AskedShape, PromisedShape, AnswersAreTrue
<1>10. Distribute \/ StopFeeding \/ ProcessFrame \/ Show \/ Over \/ UNCHANGED vars
         => UNCHANGED <<callerVars, cmd_ch, serviceVars>>
  BY DEF Distribute, StopFeeding, ProcessFrame, Show, Over, vars
<1> QED
  BY <1>1, <1>2, <1>3, <1>4, <1>5, <1>6, <1>7, <1>8, <1>9, <1>10
  DEF Next, CallerNext, ServiceNext

(* What a replacement returns is true: the caller's items, and only those,  *)
(* were in force under the generation it is told.                           *)
THEOREM TruthfulAnswers == Spec => []AnswersAreTrue
<1>1. TypeOK /\ AnswerShape /\ Shapes /\ [Next]_vars => Shapes'
  BY ShapesStep, TypeParts
<1>2. Shapes => AnswersAreTrue
  BY DEF Shapes
<1> QED
  BY <1>1, <1>2, ShapesInit, TypesAlways, PTL DEF Spec

-----------------------------------------------------------------------------
(* The refinement.  With the latest-value sink there is at most one frame,  *)
(* of the newest generation, and nobody knows of a newer one.               *)

Fresh ==
  /\ inforce[gen] = subs
  /\ Len(sink) <= 1
  /\ \A k \in DOMAIN sink : sink[k].gen = gen /\ sink[k].keys \subseteq subs
  /\ view.gen <= gen

LEMMA FreshInit == Init => Fresh
<1> SUFFICES ASSUME Init PROVE Fresh
  OBVIOUS
<1>1. gen \in Nat
  BY TypeInit DEF TypeOK
<1> QED
  BY <1>1 DEF Init, Fresh

LEMMA FreshStep ==
  ASSUME LatestSink, Control, Data, AnswerTyped, AnswerShape, Fresh, [Next]_vars
  PROVE  Fresh'
<1>1. CASE UNCHANGED feed
  BY <1>1 DEF feed, Fresh
<1>2. CASE Sent
  <2>1. PICK keys \in SUBSET subs : Deliver(Frame(keys))
    BY <1>2 DEF Sent
  <2>2. sink' = << [gen |-> gen, keys |-> keys \cup Pending] >>
    BY <2>1 DEF Deliver, Frame
  <2>3. keys \cup Pending \subseteq subs
    BY <2>1 DEF Pending, Fresh
  <2> QED
    BY <1>2, <2>2, <2>3 DEF Sent, Fresh
<1>3. CASE Renewed
  <2>1. PICK items \in SUBSET Registered : Renew(items)
    BY <1>3 DEF Renewed
  <2>2. /\ subs' = items /\ gen' = gen + 1 /\ inforce'[gen'] = items
        /\ sink' = << >> /\ view' = view
    BY <1>3, <2>1, RenewTyped DEF Renewed
  <2>3. view.gen \in Nat
    BY DEF Data, DashFrame
  <2> QED
    BY <2>2, <2>3 DEF Fresh, Data
<1>4. CASE Told
  BY <1>4 DEF Told, Fresh
<1>5. CASE Show
  <2>1. /\ sink # << >> /\ view' = sink[1] /\ sink' = Tail(sink)
        /\ UNCHANGED <<subs, gen, inforce>>
    BY <1>5 DEF Show, serviceVars
  <2>2. sink \in Seq(DashFrame) /\ Len(sink) <= 1
    BY DEF Fresh, Data
  <2>3. Len(sink) = 1 /\ 1 \in DOMAIN sink
    <3>1. 1 \in DOMAIN sink
      BY <2>1 DEF Data
    <3>2. Len(sink) \in Nat /\ DOMAIN sink = 1..Len(sink)
      BY <2>2
    <3> QED
      BY <2>2, <3>1, <3>2
  <2>5. \A k \in DOMAIN sink' : FALSE
    BY <2>1, <2>2, <2>3
  <2>6. Len(sink') <= 1 /\ gen \in Nat
    BY <2>1, <2>2, <2>3 DEF Data
  <2>4. view'.gen = gen
    BY <2>1, <2>3 DEF Fresh
  <2> QED
    BY <2>1, <2>4, <2>5, <2>6 DEF Fresh
<1> QED
  BY <1>1, <1>2, <1>3, <1>4, <1>5, DataSteps

LEMMA FeedInit == Init => Feed!Init
<1> SUFFICES ASSUME Init PROVE Feed!Init
  OBVIOUS
<1>1. Data
  BY TypeInit, TypeParts
<1>2. inforce \in [0..gen -> SUBSET Items]
  BY <1>1, DashboardAssumption DEF Data, DashboardAssumption
<1> QED
  BY <1>1, <1>2 DEF Feed!Init, Init, Data

LEMMA FeedStep ==
  ASSUME LatestSink, Control, Data, AnswerTyped, AnswerShape, Fresh, [Next]_vars
  PROVE  [Feed!Next]_(Feed!vars)
<1> USE DEF Feed!Next
<1>1. CASE UNCHANGED feed \/ Sent
  BY <1>1 DEF feed, Sent, Feed!vars
<1>2. CASE Renewed
  <2>1. PICK items \in SUBSET Registered : Renew(items)
    BY <1>2 DEF Renewed
  <2>2. inforce' \in [0..gen' -> SUBSET Items]
    BY <2>1, RenewTyped, DashboardAssumption DEF DashboardAssumption
  <2> QED
    BY <1>2, <2>1, <2>2, RenewTyped DEF Renewed, Feed!Change
<1>3. CASE Told
  BY <1>3 DEF Told, Feed!Tell, Feed!vars, AnswerShape, Data
<1>4. CASE Show
  <2>1. /\ sink # << >> /\ view' = sink[1]
        /\ UNCHANGED <<gen, inforce, known>>
    BY <1>4 DEF Show, serviceVars
  <2>2. 1 \in DOMAIN sink /\ sink[1] \in DashFrame
    BY <2>1 DEF Data
  <2>3. view'.gen = gen /\ view'.keys \subseteq inforce[gen]
    BY <2>1, <2>2 DEF Fresh
  <2>4. view' = [gen |-> view'.gen, keys |-> view'.keys]
    BY <2>1, <2>2 DEF DashFrame
  <2>5. gen \in Feed!Later(known, view.gen)..gen
    BY DEF Feed!Later, Fresh, Data, DashFrame
  <2> QED
    BY <2>1, <2>3, <2>4, <2>5 DEF Feed!Show
<1> QED
  BY <1>1, <1>2, <1>3, <1>4, DataSteps

(* With the latest-value sink what the display shows never mixes two sets   *)
(* of subscriptions and never contradicts an acknowledged replacement.      *)
THEOREM ShowsOneGeneration == LatestSink => (Spec => ImplementsFeed)
<1> SUFFICES ASSUME LatestSink PROVE Spec => ImplementsFeed
  OBVIOUS
<1>1. TypeOK /\ AnswerShape /\ Fresh /\ [Next]_vars => Fresh'
  BY FreshStep, TypeParts
<1>2. TypeOK /\ AnswerShape /\ Fresh /\ [Next]_vars => [Feed!Next]_(Feed!vars)
  BY FeedStep, TypeParts
<1> QED
  BY <1>1, <1>2, FreshInit, FeedInit, TypesAlways, PTL DEF Spec, ImplementsFeed, Feed!Spec

-----------------------------------------------------------------------------
(* The controller's list.  What a queue of commands makes of the            *)
(* subscriptions grows by one command at its end and is not changed by      *)
(* serving the one at its head.                                             *)
After(base, cmd) == {i \in Registered : IF Settles(cmd, i) THEN Keeps(cmd, i) ELSE i \in base}

LEMMA ServedSent ==
  ASSUME cmd_ch \in Seq(Command), NEW cmd \in Command, cmd_ch' = Append(cmd_ch, cmd),
         UNCHANGED subs
  PROVE  Served' = After(Served, cmd)
<1> DEFINE n == Len(cmd_ch)
<1>1. /\ n \in Nat /\ DOMAIN cmd_ch = 1..n /\ DOMAIN cmd_ch' = 1..(n + 1)
      /\ cmd_ch'[n + 1] = cmd
      /\ \A k \in 1..n : cmd_ch'[k] = cmd_ch[k]
  OBVIOUS
<1> HIDE DEF n
<1>2. SUFFICES ASSUME NEW i \in Registered
               PROVE  i \in Served' <=> (IF Settles(cmd, i) THEN Keeps(cmd, i) ELSE i \in Served)
  BY DEF Served, After
<1>3. CASE Settles(cmd, i) /\ Keeps(cmd, i)
  <2>1. n + 1 \in DOMAIN cmd_ch' /\ Keeps(cmd_ch'[n + 1], i)
    BY <1>1, <1>3
  <2>2. \A m \in DOMAIN cmd_ch' : ~(m > n + 1)
    BY <1>1
  <2>3. i \in Served'
    BY <2>1, <2>2 DEF Served
  <2>4. QED
    BY <1>3, <2>3
<1>4. CASE Settles(cmd, i) /\ ~Keeps(cmd, i)
  <2>1. n + 1 \in DOMAIN cmd_ch' /\ Settles(cmd_ch'[n + 1], i) /\ ~Keeps(cmd_ch'[n + 1], i)
    BY <1>1, <1>4
  <2>2. \A k \in DOMAIN cmd_ch' : k = n + 1 \/ n + 1 > k
    BY <1>1
  <2>3. i \notin Served'
    BY <2>1, <2>2 DEF Served
  <2>4. QED
    BY <1>4, <2>3
<1>5. CASE ~Settles(cmd, i)
  <2>1. ~Settles(cmd_ch'[n + 1], i) /\ ~Keeps(cmd_ch'[n + 1], i)
    BY <1>1, <1>5 DEF Keeps
  <2>2. \A k \in DOMAIN cmd_ch' : k \in DOMAIN cmd_ch \/ k = n + 1
    BY <1>1
  <2>3. \A k \in DOMAIN cmd_ch : k \in DOMAIN cmd_ch' /\ cmd_ch'[k] = cmd_ch[k]
    BY <1>1
  <2>4. i \in Served' => i \in Served
    BY <2>1, <2>2, <2>3 DEF Served
  <2>5. i \in Served => i \in Served'
    BY <2>1, <2>2, <2>3 DEF Served
  <2>6. QED
    BY <1>5, <2>4, <2>5
<1>6. QED
  BY <1>3, <1>4, <1>5

LEMMA ServedTaken ==
  ASSUME cmd_ch \in Seq(Command), cmd_ch # << >>, cmd_ch' = Tail(cmd_ch),
         subs' = After(subs, cmd_ch[1])
  PROVE  Served' = Served
<1> DEFINE n == Len(cmd_ch)
<1>1. /\ n \in Nat \ {0} /\ DOMAIN cmd_ch = 1..n /\ DOMAIN cmd_ch' = 1..(n - 1)
      /\ \A k \in 1..(n - 1) : cmd_ch'[k] = cmd_ch[k + 1]
  OBVIOUS
<1> HIDE DEF n
<1>2. /\ \A k \in DOMAIN cmd_ch' : k + 1 \in DOMAIN cmd_ch /\ cmd_ch'[k] = cmd_ch[k + 1]
      /\ \A k \in DOMAIN cmd_ch : k = 1 \/ (k - 1 \in DOMAIN cmd_ch' /\ cmd_ch'[k - 1] = cmd_ch[k])
      /\ 1 \in DOMAIN cmd_ch
  <2>1. \A k \in 1..n : k = 1 \/ (k - 1 \in 1..(n - 1) /\ (k - 1) + 1 = k)
    BY <1>1
  <2>2. \A k \in 1..(n - 1) : k + 1 \in 1..n
    BY <1>1
  <2>3. QED
    BY <1>1, <2>1, <2>2
<1>3. SUFFICES ASSUME NEW i \in Registered PROVE i \in Served' <=> i \in Served
  BY DEF Served
<1>4. i \in subs' <=> (IF Settles(cmd_ch[1], i) THEN Keeps(cmd_ch[1], i) ELSE i \in subs)
  BY DEF After
<1>5. ASSUME i \in Served PROVE i \in Served'
  <2>1. CASE i \in subs /\ \A k \in DOMAIN cmd_ch : ~Settles(cmd_ch[k], i)
    <3>1. i \in subs' /\ \A k \in DOMAIN cmd_ch' : ~Settles(cmd_ch'[k], i)
      BY <1>2, <1>4, <2>1
    <3>2. QED
      BY <3>1 DEF Served
  <2>2. ASSUME NEW k \in DOMAIN cmd_ch, Keeps(cmd_ch[k], i),
               \A m \in DOMAIN cmd_ch : m > k => ~Settles(cmd_ch[m], i)
        PROVE  i \in Served'
    <3>1. CASE k = 1
      <4>1. i \in subs'
        BY <1>4, <2>2, <3>1 DEF Keeps
      <4>2. \A m \in DOMAIN cmd_ch' : m + 1 > 1
        BY <1>1
      <4>3. \A m \in DOMAIN cmd_ch' : ~Settles(cmd_ch'[m], i)
        BY <1>2, <2>2, <3>1, <4>2
      <4>4. QED
        BY <4>1, <4>3 DEF Served
    <3>2. CASE k # 1
      <4>1. k - 1 \in DOMAIN cmd_ch' /\ Keeps(cmd_ch'[k - 1], i)
        BY <1>2, <2>2, <3>2
      <4>2. \A m \in DOMAIN cmd_ch' : m > k - 1 => m + 1 > k
        BY <1>1
      <4>3. \A m \in DOMAIN cmd_ch' : m > k - 1 => ~Settles(cmd_ch'[m], i)
        BY <1>2, <2>2, <4>2
      <4>4. QED
        BY <4>1, <4>3 DEF Served
    <3>3. QED
      BY <3>1, <3>2
  <2>3. QED
    BY <1>5, <2>1, <2>2 DEF Served
<1>6. ASSUME i \in Served' PROVE i \in Served
  <2>1. ASSUME i \in subs', \A k \in DOMAIN cmd_ch' : ~Settles(cmd_ch'[k], i)
        PROVE  i \in Served
    <3>1. \A k \in DOMAIN cmd_ch : k = 1 \/ ~Settles(cmd_ch[k], i)
      BY <1>2, <2>1
    <3>2. CASE Settles(cmd_ch[1], i)
      <4>1. Keeps(cmd_ch[1], i)
        BY <1>4, <2>1, <3>2
      <4>2. \A m \in DOMAIN cmd_ch : m > 1 => m # 1
        BY <1>1
      <4>3. QED
        BY <1>2, <3>1, <4>1, <4>2 DEF Served
    <3>3. CASE ~Settles(cmd_ch[1], i)
      BY <1>4, <2>1, <3>1, <3>3 DEF Served
    <3>4. QED
      BY <3>2, <3>3
  <2>2. ASSUME NEW k \in DOMAIN cmd_ch', Keeps(cmd_ch'[k], i),
               \A m \in DOMAIN cmd_ch' : m > k => ~Settles(cmd_ch'[m], i)
        PROVE  i \in Served
    <3>1. k + 1 \in DOMAIN cmd_ch /\ Keeps(cmd_ch[k + 1], i)
      BY <1>2, <2>2
    <3>2. \A m \in DOMAIN cmd_ch : m > k + 1 => m # 1 /\ m - 1 > k
      BY <1>1
    <3>3. \A m \in DOMAIN cmd_ch : m > k + 1 => ~Settles(cmd_ch[m], i)
      BY <1>2, <2>2, <3>2
    <3>4. QED
      BY <3>1, <3>3 DEF Served
  <2>3. QED
    BY <1>6, <2>1, <2>2 DEF Served
<1>7. QED
  BY <1>5, <1>6

(* The commands of one item name one item; the service refuses a            *)
(* replacement just when one of its items is not registered.                *)
ItemShape ==
  /\ \A k \in DOMAIN cmd_ch : cmd_ch[k].op \in {"add", "remove"} =>
                                \E i \in Items : cmd_ch[k].items = {i}
  /\ \A c \in Callers : caller[c].at = "send" =>
       caller[c].op \in {"add", "remove"} /\ \E i \in Items : caller[c].items = {i}

RefusedShape ==
  /\ \A c \in Callers : caller[c].at \in {"waiting", "answered"} => caller[c].op = "replace"
  /\ service = "answer" =>
       \A c \in Callers : answer.call = caller[c].call =>
         (answer.gen = 0 <=> ~(caller[c].items \subseteq Registered))
  /\ \A c \in Callers : caller[c].at = "answered" =>
       (caller[c].gen = 0 <=> ~(caller[c].items \subseteq Registered))

Mine(c) == [op |-> caller[c].op, items |-> caller[c].items, call |-> caller[c].call]

(* What the service will have is the list, once the command that is about   *)
(* to be sent is in the queue, and with the replacement that is waited for. *)
ListShape ==
  ~slipped /\ service # "exited" =>
    \A c \in Callers :
      /\ caller[c].at = "idle" => listed \cap Registered = Served
      /\ caller[c].at = "send" => listed \cap Registered = After(Served, Mine(c))
      /\ caller[c].at \in {"waiting", "answered"} => Served = After(listed, Mine(c))

LEMMA MineTyped == ASSUME Control, NEW c \in Callers PROVE Mine(c) \in Command
<1>1. caller[c] \in Call
  BY DEF Control
<1>2. QED
  BY <1>1 DEF Mine, Command, Call

(* The service serves a command as After says. *)
LEMMA TakenEffect ==
  ASSUME Control, Data, ItemShape, TakeCommand
  PROVE  subs' = After(subs, cmd_ch[1])
<1> DEFINE cmd == cmd_ch[1]
<1>1. cmd = Head(cmd_ch) /\ 1 \in DOMAIN cmd_ch /\ cmd \in Command
  BY DEF TakeCommand, Control
<1>2. subs \subseteq Registered
  BY DEF Data
<1>3. CASE cmd.op = "add"
  <2>1. PICK i \in Items : cmd.items = {i}
    BY <1>1, <1>3 DEF ItemShape
  <2>2. Subscribe(i)
    BY <1>1, <1>3, <2>1 DEF TakeCommand
  <2>3. subs' = IF i \in Registered THEN subs \cup {i} ELSE subs
    BY <2>2 DEF Subscribe, Renew
  <2>4. QED
    BY <1>2, <1>3, <2>1, <2>3 DEF After, Settles, Keeps
<1>4. CASE cmd.op = "remove"
  <2>1. PICK i \in Items : cmd.items = {i}
    BY <1>1, <1>4 DEF ItemShape
  <2>2. Unsubscribe(i)
    BY <1>1, <1>4, <2>1 DEF TakeCommand
  <2>3. subs' = subs \ {i}
    BY <2>2 DEF Unsubscribe, Renew
  <2>4. QED
    BY <1>2, <1>4, <2>1, <2>3 DEF After, Settles, Keeps
<1>5. CASE cmd.op = "replace"
  <2>1. ReplaceItems(cmd.items)
    BY <1>1, <1>5 DEF TakeCommand
  <2>2. subs' = IF cmd.items \subseteq Registered THEN cmd.items ELSE subs
    BY <2>1 DEF ReplaceItems, Renew
  <2>3. QED
    BY <1>2, <1>5, <2>2 DEF After, Settles, Keeps
<1>6. CASE cmd.op = "reference"
  <2>1. subs' = subs
    BY <1>1, <1>6 DEF TakeCommand
  <2>2. QED
    BY <1>2, <1>6, <2>1 DEF After, Settles
<1>7. QED
  BY <1>1, <1>3, <1>4, <1>5, <1>6 DEF Command

(* What the steps do to the calls, to the queue and to the answer, and that *)
(* no other step concerns the list.                                         *)
LEMMA ItemStep ==
  ASSUME Control, Data, AnswerTyped, Shapes, ItemShape, [Next]_vars
  PROVE  ItemShape'
<1> USE DEF callerVars, serviceVars, ItemShape
<1>1. ASSUME NEW c \in Callers, NEW i \in Items, AddItem(c, i) \/ RemoveItem(c, i)
      PROVE  ItemShape'
  <2>1. PICK op \in {"add", "remove"} : Begin(c, op, {i}, "send")
    BY <1>1 DEF AddItem, RemoveItem
  <2>2. UNCHANGED cmd_ch
    BY <1>1 DEF AddItem, RemoveItem
  <2>3. /\ calls' = calls + 1
        /\ caller'[c] = [at |-> "send", call |-> calls + 1, op |-> op, items |-> {i}, gen |-> 0]
        /\ \A d \in Callers : d # c => caller'[d] = caller[d]
    BY <2>1, BeginEffect
  <2>4. caller'[c].op \in {"add", "remove"} /\ caller'[c].items = {i}
    BY <2>3
  <2>5. QED
    BY <2>2, <2>3, <2>4
<1>2. ASSUME NEW c \in Callers, NEW items \in SUBSET Items, Replace(c, items)
      PROVE  ItemShape'
  <2>1. Begin(c, "replace", items, "waiting") /\ SendCommand("replace", items, calls')
    BY <1>2 DEF Replace
  <2>2. /\ caller'[c] = [at |-> "waiting", call |-> calls + 1, op |-> "replace",
                         items |-> items, gen |-> 0]
        /\ \A d \in Callers : d # c => caller'[d] = caller[d]
    BY <2>1, BeginEffect
  <2>3. \A k \in DOMAIN cmd_ch' : \/ k \in DOMAIN cmd_ch /\ cmd_ch'[k] = cmd_ch[k]
                                  \/ cmd_ch'[k].op = "replace"
    BY <2>1, AppendEffect
  <2>4. QED
    BY <2>2, <2>3
<1>3. ASSUME NEW c \in Callers, SendChange(c)
      PROVE  ItemShape'
  <2>1. /\ \A d \in Callers : caller'[d].op = caller[d].op /\ caller'[d].items = caller[d].items
        /\ caller'[c].at = "idle"
        /\ \A d \in Callers : d # c => caller'[d].at = caller[d].at
    BY <1>3, ReturnEffect DEF SendChange
  <2>2. \A k \in DOMAIN cmd_ch' : \/ k \in DOMAIN cmd_ch /\ cmd_ch'[k] = cmd_ch[k]
                                  \/ cmd_ch'[k].items = caller[c].items
    BY <1>3, AppendEffect DEF SendChange
  <2>3. \E i \in Items : caller[c].items = {i}
    BY <1>3 DEF SendChange
  <2>4. QED
    BY <2>1, <2>2, <2>3
<1>4. ASSUME NEW c \in Callers, ReplaceReturns(c) \/ ReplaceFails(c)
      PROVE  ItemShape'
  BY <1>4, ReturnEffect DEF ReplaceReturns, ReplaceFails
<1>5. CASE SendReference
  <2>1. SendCommand("reference", {}, 0) /\ UNCHANGED caller
    BY <1>5 DEF SendReference
  <2>2. \A k \in DOMAIN cmd_ch' : \/ k \in DOMAIN cmd_ch /\ cmd_ch'[k] = cmd_ch[k]
                                  \/ cmd_ch'[k].op = "reference"
    BY <2>1, AppendEffect
  <2>3. QED
    BY <2>1, <2>2
<1>6. CASE TakeCommand
  BY <1>6, TailEffect DEF TakeCommand
<1>7. CASE Acknowledge
  <2>1. UNCHANGED cmd_ch
    BY <1>7 DEF Acknowledge
  <2>2. \A d \in Callers : caller'[d] = caller[d] \/ caller'[d].at = "answered"
    <3>1. CASE UNCHANGED caller
      BY <3>1
    <3>2. ASSUME NEW c \in Callers, Answer(c)
          PROVE  \A d \in Callers : caller'[d] = caller[d] \/ caller'[d].at = "answered"
      <4>1. caller' = [caller EXCEPT ![c] = [caller[c] EXCEPT !.at = "answered", !.gen = answer.gen]]
        BY <3>2 DEF Answer, Control
      <4>2. caller[c] \in Call
        BY DEF Control
      <4>3. [caller[c] EXCEPT !.at = "answered", !.gen = answer.gen].at = "answered"
        BY <4>2 DEF Call
      <4>4. QED
        BY <4>1, <4>3 DEF Control
    <3>3. QED
      BY <1>7, <3>1, <3>2 DEF Acknowledge
  <2>3. QED
    BY <2>1, <2>2
<1>8. CASE ServiceExit
  BY <1>8 DEF ServiceExit
<1>9. Distribute \/ StopFeeding \/ ProcessFrame \/ Show \/ Over \/ UNCHANGED vars
        => UNCHANGED <<caller, cmd_ch>>
  BY DEF Distribute, StopFeeding, ProcessFrame, Show, Over, vars
<1>10. QED
  BY <1>1, <1>2, <1>3, <1>4, <1>5, <1>6, <1>7, <1>8, <1>9 DEF Next, CallerNext, ServiceNext

(* Acknowledging moves at most one caller. *)
LEMMA AnswerEffect ==
  ASSUME Control, NEW c \in Callers, Answer(c)
  PROVE  /\ caller'[c].at = "answered" /\ caller'[c].gen = answer.gen
         /\ \A d \in Callers : /\ caller'[d].call = caller[d].call
                               /\ caller'[d].op = caller[d].op
                               /\ caller'[d].items = caller[d].items
         /\ \A d \in Callers : d # c => caller'[d] = caller[d]
<1>1. caller' = [caller EXCEPT ![c] = [caller[c] EXCEPT !.at = "answered", !.gen = answer.gen]]
  BY DEF Answer, Control
<1>2. caller[c] \in Call
  BY DEF Control
<1>3. /\ caller'[c] = [caller[c] EXCEPT !.at = "answered", !.gen = answer.gen]
      /\ \A d \in Callers : d # c => caller'[d] = caller[d]
  BY <1>1 DEF Control
<1>4. QED
  BY <1>2, <1>3 DEF Call

LEMMA RefusedStep ==
  ASSUME Control, Data, AnswerTyped, AnswerShape, Shapes, RefusedShape, [Next]_vars
  PROVE  RefusedShape'
<1> USE NumbersTyped DEF RefusedShape, callerVars, serviceVars
<1>1. ASSUME NEW c \in Callers, NEW i \in Items, AddItem(c, i) \/ RemoveItem(c, i)
      PROVE  RefusedShape'
  <2>1. PICK op \in {"add", "remove"} : Begin(c, op, {i}, "send")
    BY <1>1 DEF AddItem, RemoveItem
  <2>2. UNCHANGED <<service, answer>>
    BY <1>1 DEF AddItem, RemoveItem
  <2>3. /\ caller'[c] = [at |-> "send", call |-> calls + 1, op |-> op, items |-> {i}, gen |-> 0]
        /\ \A d \in Callers : d # c => caller'[d] = caller[d]
    BY <2>1, BeginEffect
  <2>4. QED
    BY <2>2, <2>3 DEF Shapes, CallShape
<1>2. ASSUME NEW c \in Callers, NEW items \in SUBSET Items, Replace(c, items)
      PROVE  RefusedShape'
  <2>1. Begin(c, "replace", items, "waiting") /\ UNCHANGED <<service, answer>>
    BY <1>2 DEF Replace
  <2>2. /\ caller'[c] = [at |-> "waiting", call |-> calls + 1, op |-> "replace",
                         items |-> items, gen |-> 0]
        /\ \A d \in Callers : d # c => caller'[d] = caller[d]
    BY <2>1, BeginEffect
  <2>3. QED
    BY <2>1, <2>2 DEF Shapes, CallShape
<1>3. ASSUME NEW c \in Callers, SendChange(c) \/ ReplaceReturns(c) \/ ReplaceFails(c)
      PROVE  RefusedShape'
  <2>1. Return(c) /\ UNCHANGED <<service, answer>>
    BY <1>3 DEF SendChange, ReplaceReturns, ReplaceFails
  <2>2. /\ \A d \in Callers : /\ caller'[d].call = caller[d].call
                              /\ caller'[d].op = caller[d].op
                              /\ caller'[d].items = caller[d].items
                              /\ caller'[d].gen = caller[d].gen
        /\ caller'[c].at = "idle"
        /\ \A d \in Callers : d # c => caller'[d].at = caller[d].at
    BY <2>1, ReturnEffect
  <2>3. QED
    BY <2>1, <2>2
<1>4. CASE TakeCommand
  <2>1. UNCHANGED caller
    BY <1>4 DEF TakeCommand
  <2>2. CASE service' # "answer"
    BY <2>1, <2>2
  <2>3. CASE service' = "answer"
    <3>1. /\ cmd_ch[1].op = "replace" /\ cmd_ch # << >> /\ cmd_ch[1] = Head(cmd_ch)
          /\ answer' = [call |-> cmd_ch[1].call, gen |-> IF gen' # gen THEN gen' ELSE 0]
      BY <1>4, <2>3, CommandSteps DEF TakeCommand
    <3>2. 1 \in DOMAIN cmd_ch
      BY <3>1 DEF Control
    <3>3. ReplaceItems(cmd_ch[1].items)
      BY <1>4, <3>1 DEF TakeCommand
    <3>4. answer'.gen = 0 <=> ~(cmd_ch[1].items \subseteq Registered)
      BY <3>1, <3>3 DEF ReplaceItems, Renew, Data
    <3>5. \A c \in Callers : answer'.call = caller[c].call => caller[c].items = cmd_ch[1].items
      BY <3>1, <3>2 DEF Shapes, AskedShape
    <3>6. QED
      BY <2>1, <3>4, <3>5
  <2>4. QED
    BY <2>2, <2>3
<1>5. CASE Acknowledge
  <2>1. service' = "select" /\ service = "answer"
    BY <1>5 DEF Acknowledge
  <2>2. CASE UNCHANGED caller
    BY <2>1, <2>2
  <2>3. ASSUME NEW c \in Callers, Waits(c), Answer(c)
        PROVE  RefusedShape'
    <3>1. caller[c].at = "waiting" /\ caller[c].call = answer.call
      BY <2>3 DEF Waits
    <3>2. /\ caller'[c].at = "answered" /\ caller'[c].gen = answer.gen
          /\ \A d \in Callers : /\ caller'[d].call = caller[d].call
                                /\ caller'[d].op = caller[d].op
                                /\ caller'[d].items = caller[d].items
          /\ \A d \in Callers : d # c => caller'[d] = caller[d]
      BY <2>3, AnswerEffect
    <3>3. QED
      BY <2>1, <3>1, <3>2
  <2>4. QED
    BY <1>5, <2>2, <2>3 DEF Acknowledge
<1>6. CASE ServiceExit
  BY <1>6 DEF ServiceExit
<1>7. Distribute \/ SendReference \/ StopFeeding \/ ProcessFrame \/ Show \/ Over \/ UNCHANGED vars
        => UNCHANGED <<caller, service, answer>>
  BY DEF Distribute, SendReference, StopFeeding, ProcessFrame, Show, Over, vars
<1>8. QED
  BY <1>1, <1>2, <1>3, <1>4, <1>5, <1>6, <1>7 DEF Next, CallerNext, ServiceNext

(* With one caller the list and the service's queue never part.             *)
OneCaller == \E c : Callers = {c}

LEMMA ListStep ==
  ASSUME OneCaller, Control, Control', Data, AnswerTyped, Shapes, ItemShape, RefusedShape,
         ListShape, [Next]_vars
  PROVE  ListShape'
<1> USE DEF callerVars, serviceVars
<1> SUFFICES ASSUME ~slipped', service' # "exited", NEW c \in Callers
             PROVE  /\ caller'[c].at = "idle" => listed' \cap Registered = Served'
                    /\ caller'[c].at = "send" => listed' \cap Registered = After(Served', Mine(c)')
                    /\ caller'[c].at \in {"waiting", "answered"} =>
                         Served' = After(listed', Mine(c)')
  BY DEF ListShape
<1>0. /\ cmd_ch \in Seq(Command) /\ subs \subseteq Registered
      /\ \A d \in Callers : d = c
  BY DEF Control, Data, OneCaller
<1>1. ASSUME ~slipped, service # "exited"
      PROVE  /\ caller[c].at = "idle" => listed \cap Registered = Served
             /\ caller[c].at = "send" => listed \cap Registered = After(Served, Mine(c))
             /\ caller[c].at \in {"waiting", "answered"} => Served = After(listed, Mine(c))
  BY <1>1 DEF ListShape
<1>2. \A X : (subs' = subs /\ cmd_ch' = cmd_ch) => Served' = Served
  BY DEF Served
<1>3. ASSUME NEW i \in Items, AddItem(c, i) \/ RemoveItem(c, i)
      PROVE  caller'[c].at = "send" /\ listed' \cap Registered = After(Served', Mine(c)')
  <2>1. ~slipped /\ service # "exited" /\ UNCHANGED <<subs, cmd_ch>> /\ caller[c].at = "idle"
    BY <1>3 DEF AddItem, RemoveItem, Begin
  <2>2. PICK op \in {"add", "remove"} :
          /\ Begin(c, op, {i}, "send")
          /\ listed' = IF op = "add" THEN listed \cup {i} ELSE listed \ {i}
    BY <1>3 DEF AddItem, RemoveItem
  <2>3. caller'[c] = [at |-> "send", call |-> calls + 1, op |-> op, items |-> {i}, gen |-> 0]
    BY <2>2, BeginEffect
  <2>4. Mine(c)' = [op |-> op, items |-> {i}, call |-> calls + 1]
    BY <2>3 DEF Mine
  <2>5. Served' = listed \cap Registered
    BY <1>1, <1>2, <2>1
  <2>6. QED
    BY <2>2, <2>3, <2>4, <2>5 DEF After, Settles, Keeps
<1>4. CASE SendChange(c)
  <2>1. ~slipped /\ service # "exited" /\ caller[c].at = "send" /\ UNCHANGED <<listed, subs>>
    BY <1>4 DEF SendChange
  <2>2. cmd_ch' = Append(cmd_ch, Mine(c))
    BY <1>4 DEF SendChange, SendCommand, Mine
  <2>3. Served' = After(Served, Mine(c))
    BY <1>0, <2>1, <2>2, MineTyped, ServedSent
  <2>4. caller'[c].at = "idle"
    BY <1>4, ReturnEffect DEF SendChange
  <2>5. QED
    BY <1>1, <2>1, <2>3, <2>4
<1>5. ASSUME NEW items \in SUBSET Items, Replace(c, items)
      PROVE  caller'[c].at = "waiting" /\ Served' = After(listed', Mine(c)')
  <2>1. /\ ~slipped /\ service # "exited" /\ caller[c].at = "idle" /\ UNCHANGED <<listed, subs>>
        /\ Begin(c, "replace", items, "waiting") /\ SendCommand("replace", items, calls')
    BY <1>5 DEF Replace, Begin, CanSend
  <2>2. caller'[c] = [at |-> "waiting", call |-> calls + 1, op |-> "replace", items |-> items,
                      gen |-> 0] /\ calls' = calls + 1
    BY <2>1, BeginEffect
  <2>3. cmd_ch' = Append(cmd_ch, Mine(c)')
    BY <2>1, <2>2 DEF SendCommand, Mine
  <2>4. Mine(c)' \in Command
    <3>1. caller'[c] \in Call
      BY DEF Control
    <3>2. QED
      BY <3>1 DEF Mine, Command, Call
  <2>5. Served' = After(Served, Mine(c)')
    BY <1>0, <2>1, <2>3, <2>4, ServedSent
  <2>6. Served = listed \cap Registered
    BY <1>1, <2>1
  <2>7. QED
    BY <2>1, <2>2, <2>5, <2>6 DEF After
<1>6. CASE ReplaceReturns(c)
  <2>1. /\ ~slipped /\ service # "exited" /\ caller[c].at = "answered" /\ UNCHANGED <<cmd_ch, subs>>
        /\ listed' = IF caller[c].gen # 0 THEN caller[c].items ELSE listed
    BY <1>6 DEF ReplaceReturns
  <2>2. caller'[c].at = "idle"
    BY <1>6, ReturnEffect DEF ReplaceReturns
  <2>3. Served' = After(listed, Mine(c))
    BY <1>1, <1>2, <2>1
  <2>4. caller[c].op = "replace" /\ (caller[c].gen = 0 <=> ~(caller[c].items \subseteq Registered))
    BY <2>1 DEF RefusedShape
  <2>5. Served' = IF caller[c].items \subseteq Registered THEN caller[c].items
                  ELSE listed \cap Registered
    BY <2>3, <2>4 DEF After, Mine, Settles, Keeps
  <2>6. QED
    BY <2>1, <2>2, <2>4, <2>5
<1>7. CASE ReplaceFails(c)
  BY <1>7 DEF ReplaceFails
<1>8. CASE SendReference
  <2>1. ~slipped /\ service # "exited" /\ UNCHANGED <<listed, subs, caller>>
    BY <1>8 DEF SendReference
  <2> DEFINE cmd == [op |-> "reference", items |-> {}, call |-> 0]
  <2>2. cmd_ch' = Append(cmd_ch, cmd) /\ cmd \in Command
    BY <1>8, DashboardAssumption DEF SendReference, SendCommand, Command, DashboardAssumption
  <2>3. Served' = After(Served, cmd)
    BY <1>0, <2>1, <2>2, ServedSent
  <2>4. Served' = Served
    BY <2>3 DEF After, Settles, Served
  <2>5. QED
    BY <1>1, <2>1, <2>4 DEF Mine
<1>9. CASE TakeCommand
  <2>1. /\ ~slipped /\ service # "exited" /\ UNCHANGED <<listed, caller>>
        /\ cmd_ch # << >> /\ cmd_ch' = Tail(cmd_ch)
    BY <1>9 DEF TakeCommand
  <2>2. Served' = Served
    BY <1>0, <1>9, <2>1, TakenEffect, ServedTaken
  <2>3. QED
    BY <1>1, <2>1, <2>2 DEF Mine
<1>10. CASE Acknowledge
  <2>1. ~slipped /\ service # "exited" /\ UNCHANGED <<listed, cmd_ch, subs>> /\ Served' = Served
    BY <1>2, <1>10 DEF Acknowledge
  <2>2. CASE UNCHANGED caller
    BY <1>1, <2>1, <2>2 DEF Mine
  <2>3. CASE Waits(c) /\ Answer(c)
    <3>1. /\ caller'[c].at = "answered" /\ caller'[c].call = caller[c].call
          /\ caller'[c].op = caller[c].op /\ caller'[c].items = caller[c].items
      BY <2>3, AnswerEffect
    <3>2. Mine(c)' = Mine(c)
      BY <3>1 DEF Mine
    <3>3. QED
      BY <1>1, <2>1, <2>3, <3>1, <3>2 DEF Waits
  <2>4. QED
    BY <1>0, <1>10, <2>2, <2>3 DEF Acknowledge
<1>11. CASE ServiceExit
  BY <1>11 DEF ServiceExit
<1>12. CASE Distribute \/ StopFeeding \/ ProcessFrame \/ Show \/ Over \/ UNCHANGED vars
  <2>1. UNCHANGED <<slipped, service, listed, caller, cmd_ch, subs>>
    BY <1>12 DEF Distribute, StopFeeding, ProcessFrame, Show, Over, vars
  <2>2. QED
    BY <1>1, <1>2, <2>1 DEF Mine
<1>13. CASE CallerNext
  <2>1. \/ \E i \in Items : AddItem(c, i) \/ RemoveItem(c, i)
        \/ SendChange(c)
        \/ \E items \in SUBSET Items : Replace(c, items)
        \/ ReplaceReturns(c) \/ ReplaceFails(c)
    BY <1>0, <1>13 DEF CallerNext
  <2>2. QED
    BY <1>3, <1>4, <1>5, <1>6, <1>7, <2>1
<1>14. QED
  BY <1>8, <1>9, <1>10, <1>11, <1>12, <1>13 DEF Next, ServiceNext

(* Between the calls of one caller its list is what the service has, or     *)
(* will have once its queue is served, unless a command was dropped or      *)
(* given up waiting for.                                                    *)
THEOREM ListIsServed == OneCaller => (Spec => []ListInStep)
<1> SUFFICES ASSUME OneCaller PROVE Spec => []ListInStep
  OBVIOUS
<1>1. Init => ItemShape /\ RefusedShape /\ ListShape
  <2>1. Init => ItemShape /\ RefusedShape
    BY DEF Init, ItemShape, RefusedShape
  <2>2. Init => Served = listed \cap Registered
    BY DEF Init, Served
  <2>3. Init => \A c \in Callers : caller[c].at = "idle"
    BY DEF Init
  <2>4. QED
    BY <2>1, <2>2, <2>3 DEF ListShape
<1>2. TypeOK /\ AnswerShape /\ Shapes /\ [Next]_vars => Shapes'
  BY ShapesStep, TypeParts
<1>3. TypeOK /\ AnswerShape /\ Shapes /\ ItemShape /\ RefusedShape /\ [Next]_vars
        => ItemShape' /\ RefusedShape'
  BY ItemStep, RefusedStep, TypeParts
<1>4. TypeOK /\ TypeOK' /\ Shapes /\ ItemShape /\ RefusedShape /\ ListShape /\ [Next]_vars
        => ListShape'
  <2>1. TypeOK' => Control'
    BY DEF TypeOK, Control
  <2>2. QED
    BY <2>1, ListStep, TypeParts
<1>5. ListShape => ListInStep
  BY DEF OneCaller, ListShape, ListInStep
<1>6. QED
  BY <1>1, <1>2, <1>3, <1>4, <1>5, ShapesInit, TypesAlways, PTL DEF Spec
=============================================================================
