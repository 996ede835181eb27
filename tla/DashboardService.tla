-------------------------- MODULE DashboardService --------------------------
(***************************************************************************)
(* The dashboard of one recording: callers that change the subscriptions   *)
(* through RecordingController, the recording or replay thread that feeds  *)
(* frames, the service thread with its command queue, generations and      *)
(* sink, and the display behind the sink.                                  *)
(*                                                                         *)
(* A step is one access to a channel or to the controller's list.  Which   *)
(* items of a frame are due and computed is chosen freely.                 *)
(***************************************************************************)
EXTENDS Integers, Sequences, FiniteSets

CONSTANTS
  Callers,       \* threads that share the controller
  Items,         \* item keys that parse
  Registered,    \* those the service can compute
  CmdCapacity,   \* capacity of the command channel (16 in the code)
  SinkCapacity,  \* capacity of the legacy dashboard channel
  LatestSink,    \* LatestValueSink, or the legacy ChannelSink
  Timeouts,      \* an answer may take longer than the five seconds waited
  MaxCalls       \* bound: calls of the controller

ASSUME DashboardAssumption ==
  /\ IsFiniteSet(Items)
  /\ Registered \subseteq Items
  /\ CmdCapacity \in Nat \ {0}
  /\ SinkCapacity \in Nat \ {0}
  /\ LatestSink \in BOOLEAN /\ Timeouts \in BOOLEAN
  /\ MaxCalls \in Nat

VARIABLES
  caller,    \* per thread: control point, number and argument of its call, answer
  calls,     \* calls begun so far
  listed,    \* the keys of the controller's dashboard_items
  cmd_ch,    \* the command channel
  source,    \* the recording or replay thread, which feeds the frames
  frame_ch,  \* frames in the distributor's channel, bounded(1)
  service,   \* control point of the service thread
  answer,    \* the command to acknowledge: its call, and generation or 0
  subs,      \* the service's subscriptions
  gen,       \* subscription_generation
  sink,      \* frames between the service and the display
  inforce,   \* history: the subscriptions of each generation
  known,     \* history: the newest generation that was acknowledged
  view,      \* history: the frame the display took last
  slipped    \* history: a command was dropped, or given up waiting for

callerVars == <<caller, calls, listed, slipped>>
serviceVars == <<service, answer, subs, gen, inforce>>
vars == <<callerVars, cmd_ch, source, frame_ch, serviceVars, sink, known, view>>

Call == [at : {"idle", "send", "waiting", "answered"}, call : 0..MaxCalls,
         op : {"add", "remove", "replace"}, items : SUBSET Items, gen : Nat]
Command == [op : {"add", "remove", "replace", "reference"}, items : SUBSET Items,
            call : 0..MaxCalls]
DashFrame == [gen : Nat, keys : SUBSET Items]

(* request.dashboard_items are subscribed one by one before the thread     *)
(* starts.                                                                 *)
Init ==
  /\ caller = [c \in Callers |-> [at |-> "idle", call |-> 0, op |-> "add",
                                  items |-> {}, gen |-> 0]]
  /\ calls = 0
  /\ listed \in SUBSET Registered
  /\ cmd_ch = << >>
  /\ source = "feeding"
  /\ frame_ch = 0
  /\ service = "select"
  /\ answer = [call |-> 0, gen |-> 0]
  /\ subs = listed
  /\ gen = Cardinality(subs)
  /\ sink = << >>
  /\ inforce = [g \in 0..gen |-> IF g = gen THEN subs ELSE {}]
  /\ known = 0
  /\ view = [gen |-> 0, keys |-> {}]
  /\ slipped = FALSE

-----------------------------------------------------------------------------
(* RecordingController *)

Begin(c, op, items, point) ==
  /\ caller[c].at = "idle"
  /\ calls < MaxCalls
  /\ calls' = calls + 1
  /\ caller' = [caller EXCEPT ![c] = [at |-> point, call |-> calls', op |-> op,
                                      items |-> items, gen |-> 0]]

Return(c) == caller' = [caller EXCEPT ![c].at = "idle"]

CanSend == service # "exited" /\ Len(cmd_ch) < CmdCapacity
SendCommand(op, items, call) ==
  cmd_ch' = Append(cmd_ch, [op |-> op, items |-> items, call |-> call])

(* add_dashboard_item and remove_dashboard_item: the list first, under its *)
(* mutex, the command afterwards.                                          *)
AddItem(c, i) ==
  /\ Begin(c, "add", {i}, "send")
  /\ listed' = listed \cup {i}
  /\ UNCHANGED <<cmd_ch, source, frame_ch, serviceVars, sink, known, view, slipped>>

RemoveItem(c, i) ==
  /\ Begin(c, "remove", {i}, "send")
  /\ listed' = listed \ {i}
  /\ UNCHANGED <<cmd_ch, source, frame_ch, serviceVars, sink, known, view, slipped>>

(* Their try_send, whose failure is ignored. *)
SendChange(c) ==
  /\ caller[c].at = "send"
  /\ Return(c)
  /\ \/ /\ CanSend
        /\ SendCommand(caller[c].op, caller[c].items, caller[c].call)
        /\ UNCHANGED slipped
     \/ /\ ~CanSend
        /\ slipped' = TRUE
        /\ UNCHANGED cmd_ch
  /\ UNCHANGED <<calls, listed, source, frame_ch, serviceVars, sink, known, view>>

(* replace_dashboard_items_with_generation: send and wait.  A channel that *)
(* is full or closed fails the call and changes nothing.                   *)
Replace(c, items) ==
  /\ CanSend
  /\ Begin(c, "replace", items, "waiting")
  /\ SendCommand("replace", items, calls')
  /\ UNCHANGED <<listed, source, frame_ch, serviceVars, sink, known, view, slipped>>

(* Mutant: the list follows a refusal, too. *)
ReplaceReturns_Always(c) ==
  /\ caller[c].at = "answered"
  /\ listed' = caller[c].items
  /\ Return(c)
  /\ UNCHANGED <<calls, cmd_ch, source, frame_ch, serviceVars, sink, known, view, slipped>>

(* Ok(generation): the list follows.  Err: it stays.                       *)
ReplaceReturns(c) ==
  /\ caller[c].at = "answered"
  /\ listed' = IF caller[c].gen # 0 THEN caller[c].items ELSE listed
  /\ Return(c)
  /\ UNCHANGED <<calls, cmd_ch, source, frame_ch, serviceVars, sink, known, view, slipped>>

(* recv_timeout: too late, or the service ended and dropped the command.   *)
ReplaceFails(c) ==
  /\ caller[c].at = "waiting"
  /\ \/ Timeouts
     \/ service = "exited"
  /\ Return(c)
  /\ slipped' = TRUE
  /\ UNCHANGED <<calls, listed, cmd_ch, source, frame_ch, serviceVars, sink, known, view>>

-----------------------------------------------------------------------------
(* The recording or replay thread *)

(* distribute: try_send keeps the oldest frame. *)
Distribute ==
  /\ source = "feeding"
  /\ service # "exited"
  /\ frame_ch = 0
  /\ frame_ch' = 1
  /\ UNCHANGED <<callerVars, cmd_ch, source, serviceVars, sink, known, view>>

(* A new session best goes through the same command channel. *)
SendReference ==
  /\ source = "feeding"
  /\ CanSend
  /\ SendCommand("reference", {}, 0)
  /\ UNCHANGED <<callerVars, source, frame_ch, serviceVars, sink, known, view>>

(* A replay that is over drops the distributor. *)
StopFeeding ==
  /\ source = "feeding"
  /\ source' = "over"
  /\ UNCHANGED <<callerVars, cmd_ch, frame_ch, serviceVars, sink, known, view>>

-----------------------------------------------------------------------------
(* DashboardService *)

Frame(keys) == [gen |-> gen, keys |-> keys]

Pending == UNION {sink[k].keys : k \in DOMAIN sink}

(* DataSink::send.  The latest-value slot merges (the service is its only  *)
(* sender, so its floor is gen); the legacy channel drops what does not fit. *)
Deliver(frame) ==
  sink' = IF LatestSink
          THEN << [gen |-> frame.gen, keys |-> frame.keys \cup Pending] >>
          ELSE IF Len(sink) < SinkCapacity THEN Append(sink, frame) ELSE sink

(* process_frame: whatever is due and computes without an error is sent.   *)
ProcessFrame ==
  /\ service = "select"
  /\ frame_ch = 1
  /\ frame_ch' = 0
  /\ \/ \E keys \in SUBSET subs \ {{}} : Deliver(Frame(keys))
     \/ UNCHANGED sink
  /\ UNCHANGED <<callerVars, cmd_ch, source, serviceVars, known, view>>

(* Mutant: the sink is not told. *)
AdvanceSink_Kept == sink' = sink

(* DataSink::advance_subscription_generation; a no-op for ChannelSink.     *)
AdvanceSink == sink' = IF LatestSink THEN << >> ELSE sink

(* advance_subscription_generation, after the subscriptions became items.  *)
Renew(items) ==
  /\ subs' = items
  /\ gen' = gen + 1
  /\ inforce' = [g \in 0..gen' |-> IF g = gen' THEN items ELSE inforce[g]]
  /\ AdvanceSink

Unsubscribe(i) ==
  \/ i \in subs /\ Renew(subs \ {i})
  \/ i \notin subs /\ UNCHANGED <<subs, gen, inforce, sink>>

(* An item that is not registered is refused, and nobody is told.          *)
Subscribe(i) ==
  \/ i \in Registered /\ Renew(subs \cup {i})
  \/ i \notin Registered /\ UNCHANGED <<subs, gen, inforce, sink>>

(* Mutant: the items are taken one by one until one is refused. *)
ReplaceItems_Partial(items) == Renew(items \cap Registered)

(* replace_all: validated first, then applied whole. *)
ReplaceItems(items) ==
  \/ items \subseteq Registered /\ Renew(items)
  \/ ~(items \subseteq Registered) /\ UNCHANGED <<subs, gen, inforce, sink>>

(* One command of the select loop; a replacement is still to be answered.  *)
TakeCommand ==
  LET cmd == Head(cmd_ch) IN
  /\ service = "select"
  /\ cmd_ch # << >>
  /\ cmd_ch' = Tail(cmd_ch)
  /\ \/ /\ cmd.op = "add"
        /\ \E i \in cmd.items : Subscribe(i)
        /\ UNCHANGED <<service, answer>>
     \/ /\ cmd.op = "remove"
        /\ \E i \in cmd.items : Unsubscribe(i)
        /\ UNCHANGED <<service, answer>>
     \/ /\ cmd.op = "replace"
        /\ ReplaceItems(cmd.items)
        /\ service' = "answer"
        /\ answer' = [call |-> cmd.call, gen |-> IF gen' # gen THEN gen' ELSE 0]
     \/ /\ cmd.op = "reference"
        /\ UNCHANGED <<service, answer, subs, gen, inforce, sink>>
  /\ UNCHANGED <<callerVars, source, frame_ch, known, view>>

Waits(c) == caller[c].at = "waiting" /\ caller[c].call = answer.call

(* Mutant: a refusal is not answered. *)
Answer_OnlyOk(c) ==
  IF answer.gen = 0 THEN UNCHANGED caller
  ELSE caller' = [caller EXCEPT ![c].at = "answered", ![c].gen = answer.gen]

Answer(c) == caller' = [caller EXCEPT ![c].at = "answered", ![c].gen = answer.gen]

(* ack.send: a caller that has given up dropped its receiver. *)
Acknowledge ==
  /\ service = "answer"
  /\ service' = "select"
  /\ \/ \E c \in Callers : Waits(c) /\ Answer(c) /\ known' = IF answer.gen # 0 THEN answer.gen ELSE known
     \/ /\ \A c \in Callers : ~Waits(c)
        /\ UNCHANGED <<caller, known>>
  /\ UNCHANGED <<calls, listed, slipped, cmd_ch, source, frame_ch, answer, subs, gen,
                 inforce, sink, view>>

(* The frame channel is closed and empty: the loop ends, and the receiver  *)
(* of the commands goes with it.                                           *)
ServiceExit ==
  /\ service = "select"
  /\ source = "over" /\ frame_ch = 0
  /\ service' = "exited"
  /\ cmd_ch' = << >>
  /\ UNCHANGED <<callerVars, source, frame_ch, answer, subs, gen, inforce, sink, known, view>>

(* The display takes what is pending. *)
Show ==
  /\ sink # << >>
  /\ view' = Head(sink)
  /\ sink' = Tail(sink)
  /\ UNCHANGED <<callerVars, cmd_ch, source, frame_ch, serviceVars, known>>

-----------------------------------------------------------------------------
CallerNext ==
  \E c \in Callers :
    \/ \E i \in Items : AddItem(c, i) \/ RemoveItem(c, i)
    \/ SendChange(c)
    \/ \E items \in SUBSET Items : Replace(c, items)
    \/ ReplaceReturns(c) \/ ReplaceFails(c)

ServiceNext == ProcessFrame \/ TakeCommand \/ Acknowledge \/ ServiceExit

(* The replay is over and the dashboard with it. *)
Over ==
  /\ service = "exited"
  /\ \A c \in Callers : caller[c].at = "idle"
  /\ UNCHANGED vars

Next == CallerNext \/ Distribute \/ SendReference \/ StopFeeding \/ ServiceNext \/ Show \/ Over

(* select picks among the ready channels at random, so neither starves     *)
(* the other.  A caller inside a call goes on; nobody has to call.         *)
Fairness ==
  /\ SF_vars(TakeCommand)
  /\ WF_vars(ProcessFrame) /\ WF_vars(Acknowledge) /\ WF_vars(ServiceExit)
  /\ \A c \in Callers :
       /\ WF_vars(SendChange(c)) /\ WF_vars(ReplaceReturns(c))
       /\ WF_vars(service = "exited" /\ ReplaceFails(c))

Spec == Init /\ [][Next]_vars
FairSpec == Spec /\ Fairness

-----------------------------------------------------------------------------
(* Type correctness of the controller, the channels and the service.       *)
TypeOK ==
  /\ caller \in [Callers -> Call]
  /\ calls \in 0..MaxCalls
  /\ listed \subseteq Items
  /\ cmd_ch \in Seq(Command) /\ Len(cmd_ch) <= CmdCapacity
  /\ source \in {"feeding", "over"}
  /\ frame_ch \in 0..1
  /\ service \in {"select", "answer", "exited"}
  /\ answer \in [call : 0..MaxCalls, gen : Nat]
  /\ subs \subseteq Registered
  /\ gen \in Nat
  /\ sink \in Seq(DashFrame) /\ Len(sink) <= SinkCapacity
  /\ inforce \in [0..gen -> SUBSET Registered]
  /\ known \in 0..gen
  /\ view \in DashFrame
  /\ slipped \in BOOLEAN

(* Ok(generation) tells the truth: the service put exactly the caller's    *)
(* items in force under that generation, as one change, although others    *)
(* change the subscriptions between the application and the answer.        *)
AnswersAreTrue ==
  \A c \in Callers :
    caller[c].at = "answered" /\ caller[c].gen # 0 =>
      /\ caller[c].op = "replace"
      /\ caller[c].gen \in DOMAIN inforce
      /\ inforce[caller[c].gen] = caller[c].items

(* The subscriptions once the queued commands have been served: the last   *)
(* command that settles an item settles it.  A replacement settles every    *)
(* item, or, when it is refused, none.                                     *)
Settles(cmd, i) ==
  \/ cmd.op \in {"add", "remove"} /\ i \in cmd.items
  \/ cmd.op = "replace" /\ cmd.items \subseteq Registered

Keeps(cmd, i) == Settles(cmd, i) /\ cmd.op # "remove" /\ i \in cmd.items

Served ==
  {i \in Registered :
     \/ i \in subs /\ \A k \in DOMAIN cmd_ch : ~Settles(cmd_ch[k], i)
     \/ \E k \in DOMAIN cmd_ch :
          /\ Keeps(cmd_ch[k], i)
          /\ \A m \in DOMAIN cmd_ch : m > k => ~Settles(cmd_ch[m], i)}

(* recording/controller.rs:408: list_dashboard_items describes the items   *)
(* that are subscribed.  Between two calls the list is what the service    *)
(* has, or will have when it has served its queue, unless a command was    *)
(* dropped or given up waiting for, or an item was added that the service  *)
(* refuses.  Holds with one caller at a time.                              *)
ListInStep ==
  ~slipped /\ service # "exited" /\ (\A c \in Callers : caller[c].at = "idle") =>
    listed \cap Registered = Served

(* What a replacement returns is never contradicted by the display: see    *)
(* DashboardFeed.  Holds with the latest-value sink.                       *)
Feed == INSTANCE DashboardFeed WITH latest <- gen

ImplementsFeed == Feed!Spec

(* Every replacement is answered, or the service has ended, however many   *)
(* frames and other commands there are.                                    *)
ReplaceIsAnswered ==
  \A c \in Callers : caller[c].at = "waiting" ~> caller[c].at # "waiting"
=============================================================================
