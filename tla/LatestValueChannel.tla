------------------------ MODULE LatestValueChannel -------------------------
(***************************************************************************)
(* The capacity-one channel between the dashboard service and a display:   *)
(* a slot whose pending patch absorbs newer patches, a generation floor, a *)
(* condition variable for recv_timeout and a notification channel of       *)
(* capacity one for select!.                                               *)
(*                                                                         *)
(* A step is one critical section of the mutex, or one access outside it:  *)
(* the reference counts, the two wake-ups of a sender, the notification a  *)
(* selector takes.  The mutex is held across a step only while a waiter is *)
(* between its check and its wait, where a sender's last drop can come in. *)
(***************************************************************************)
EXTENDS Integers, FiniteSets

CONSTANTS
  Senders,      \* handles to the sending side, clones included
  Selectors,    \* receiving handles that select! on the notification
  Waiters,      \* receiving handles that call recv_timeout
  Items,        \* dashboard items
  DrainOnWake,  \* a selector calls try_recv until it is empty, or once
  Polls,        \* try_recv is also called without a notification
  Clears,       \* clear_pending is called
  MaxSends,     \* bound: calls of send_latest
  MaxGen,       \* bound: generations
  None

Receivers == Selectors \cup Waiters
Values == [Items -> Nat]             \* 0: the patch does not have the item
Frame == [gen : Nat, vals : Values]

ASSUME ChannelAssumption ==
  /\ Selectors \cap Waiters = {}
  /\ DrainOnWake \in BOOLEAN /\ Polls \in BOOLEAN /\ Clears \in BOOLEAN
  /\ MaxSends \in Nat /\ MaxGen \in Nat
  /\ None \notin Frame

VARIABLES
  sender,      \* control point of each sending handle
  receiver,    \* control point of each receiving handle
  slot,        \* the pending frame, or None
  floor,       \* generation_floor
  token,       \* notifications in the notify channel, bounded(1)
  published, overwritten, received, cleared, stale,   \* the counters
  accepted,    \* history: newest accepted value of each item of the generation
  view,        \* history: what the receiving side has put together
  advanced     \* history: newest generation the service advanced to

counters == <<published, overwritten, received, cleared, stale>>
history == <<accepted, view, advanced>>
vars == <<sender, receiver, slot, floor, token, counters, history>>

Nothing == [i \in Items |-> 0]

SendersLeft == \E s \in Senders : sender[s] \in {"idle", "checked", "notify"}
ReceiversLeft == \E r \in Receivers : receiver[r] \notin {"unborn", "gone"}
LockFree == \A r \in Receivers : receiver[r] # "checking"

Init ==
  /\ \E s \in Senders : sender = [t \in Senders |-> IF t = s THEN "idle" ELSE "unborn"]
  /\ \E r \in Receivers : receiver = [q \in Receivers |-> IF q = r THEN "idle" ELSE "unborn"]
  /\ slot = None
  /\ floor = 0
  /\ token = 0
  /\ published = 0 /\ overwritten = 0 /\ received = 0 /\ cleared = 0 /\ stale = 0
  /\ accepted = Nothing
  /\ view = [gen |-> 0, vals |-> Nothing]
  /\ advanced = 0

SenderAt(s, from, to) == sender[s] = from /\ sender' = [sender EXCEPT ![s] = to]
ReceiverGoes(r, to) == receiver' = [receiver EXCEPT ![r] = to]

-----------------------------------------------------------------------------
(* HashMap::extend of the pending patch. *)
Overlay(old, new) == [i \in Items |-> IF new[i] # 0 THEN new[i] ELSE old[i]]

(* Mutant: the newer patch replaces the pending one. *)
Merged_Replaced(pending, frame) == frame

Merged(pending, frame) ==
  [gen |-> frame.gen, vals |-> Overlay(pending.vals, frame.vals)]

(* What the receiving side shows of the generation that is accepted now. *)
Shown == IF view.gen = floor THEN view.vals ELSE Nothing

(* The slot is taken; the notification for it is taken with it. *)
Take ==
  /\ slot # None
  /\ slot' = None
  /\ token' = 0
  /\ received' = received + 1
  /\ view' = IF view.gen = slot.gen THEN Merged(view, slot) ELSE slot
  /\ UNCHANGED <<floor, published, overwritten, cleared, stale, accepted, advanced>>

-----------------------------------------------------------------------------
(* LatestValueSender: Clone, send_latest, Drop *)

CloneSender(s) ==
  /\ SendersLeft
  /\ SenderAt(s, "unborn", "idle")
  /\ UNCHANGED <<receiver, slot, floor, token, counters, history>>

(* The receivers are counted before the mutex is taken.  Without any the   *)
(* call only returns Disconnected.                                         *)
SendCheck(s) ==
  /\ published + Cardinality({t \in Senders : sender[t] = "checked"}) < MaxSends
  /\ ReceiversLeft
  /\ SenderAt(s, "idle", "checked")
  /\ UNCHANGED <<receiver, slot, floor, token, counters, history>>

(* Mutant: the frame a new generation displaces is not counted. *)
Displace_Uncounted(gen) ==
  /\ gen > floor
  /\ floor' = gen
  /\ overwritten' = overwritten

(* A newer generation raises the floor and throws the pending frame away.  *)
Displace(gen) ==
  /\ gen > floor
  /\ floor' = gen
  /\ overwritten' = IF slot # None THEN overwritten + 1 ELSE overwritten

(* Mutant: only the condition variable is told. *)
Signal_Dropped == token' = token

(* try_send(()) on the notify channel. *)
Signal == token' = 1

(* The critical section of send_latest for a frame of generation gen.      *)
Publish(s, gen, items) ==
  LET stamp == published + 1
      frame == [gen |-> gen, vals |-> [i \in Items |-> IF i \in items THEN stamp ELSE 0]]
  IN
  /\ LockFree
  /\ published' = stamp
  /\ \/ /\ gen < floor
        /\ SenderAt(s, "checked", "idle")
        /\ stale' = stale + 1
        /\ UNCHANGED <<slot, floor, token, overwritten, accepted>>
     \/ /\ Displace(gen)
        /\ SenderAt(s, "checked", "notify")
        /\ slot' = frame
        /\ accepted' = frame.vals
        /\ Signal
        /\ UNCHANGED stale
     \/ /\ gen = floor
        /\ SenderAt(s, "checked", "notify")
        /\ slot' = IF slot # None THEN Merged(slot, frame) ELSE frame
        /\ overwritten' = IF slot # None THEN overwritten + 1 ELSE overwritten
        /\ accepted' = Overlay(accepted, frame.vals)
        /\ Signal
        /\ UNCHANGED <<floor, stale>>
  /\ UNCHANGED <<receiver, received, cleared, view, advanced>>

(* notify_one, after the mutex: it wakes one waiter if there is one.       *)
NotifyOne(s) ==
  /\ SenderAt(s, "notify", "idle")
  /\ \/ \E r \in Waiters : receiver[r] = "waiting" /\ ReceiverGoes(r, "notified")
     \/ /\ \A r \in Waiters : receiver[r] # "waiting"
        /\ UNCHANGED receiver
  /\ UNCHANGED <<slot, floor, token, counters, history>>

(* fetch_sub: the last handle has two wake-ups to do. *)
DropSender(s) ==
  /\ SenderAt(s, "idle",
       IF \E t \in Senders \ {s} : sender[t] \in {"idle", "checked", "notify"}
       THEN "gone" ELSE "signal")
  /\ UNCHANGED <<receiver, slot, floor, token, counters, history>>

(* Mutant: the last drop only wakes the waiters. *)
SignalDisconnect_Silent(s) ==
  /\ SenderAt(s, "signal", "wake")
  /\ UNCHANGED <<receiver, slot, floor, token, counters, history>>

SignalDisconnect(s) ==
  /\ SenderAt(s, "signal", "wake")
  /\ token' = 1
  /\ UNCHANGED <<receiver, slot, floor, counters, history>>

(* notify_all, without the mutex: a waiter that is still checking is missed. *)
NotifyAll(s) ==
  /\ SenderAt(s, "wake", "gone")
  /\ receiver' = [r \in Receivers |->
                    IF receiver[r] = "waiting" THEN "notified" ELSE receiver[r]]
  /\ UNCHANGED <<slot, floor, token, counters, history>>

-----------------------------------------------------------------------------
(* LatestValueReceiver: Clone, Drop, try_recv, recv_timeout *)

CloneReceiver(r) ==
  /\ ReceiversLeft
  /\ receiver[r] = "unborn"
  /\ ReceiverGoes(r, "idle")
  /\ UNCHANGED <<sender, slot, floor, token, counters, history>>

DropReceiver(r) ==
  /\ receiver[r] \in {"idle", "closed"}
  /\ ReceiverGoes(r, "gone")
  /\ UNCHANGED <<sender, slot, floor, token, counters, history>>

(* select! on the notification. *)
SelectWoken(r) ==
  /\ receiver[r] = "idle"
  /\ token = 1
  /\ token' = 0
  /\ ReceiverGoes(r, "woken")
  /\ UNCHANGED <<sender, slot, floor, counters, history>>

(* try_recv, by a selector that was woken or by anyone who polls. *)
TryRecv(r) ==
  /\ LockFree
  /\ receiver[r] \in {"woken"} \cup IF Polls THEN {"idle"} ELSE {}
  /\ UNCHANGED sender
  /\ \/ /\ Take
        /\ ReceiverGoes(r, IF DrainOnWake THEN receiver[r] ELSE "idle")
     \/ /\ slot = None
        /\ ReceiverGoes(r, IF SendersLeft THEN "idle" ELSE "closed")
        /\ UNCHANGED <<slot, floor, token, counters, history>>

(* recv_timeout up to its wait, and again after each wake-up. *)
CheckAndWait(r) ==
  /\ LockFree
  /\ receiver[r] \in {"idle", "notified"}
  /\ UNCHANGED sender
  /\ \/ Take /\ ReceiverGoes(r, "idle")
     \/ /\ slot = None
        /\ ReceiverGoes(r, IF SendersLeft THEN "checking" ELSE "closed")
        /\ UNCHANGED <<slot, floor, token, counters, history>>

(* The wait releases the mutex. *)
StartWait(r) ==
  /\ receiver[r] = "checking"
  /\ ReceiverGoes(r, "waiting")
  /\ UNCHANGED <<sender, slot, floor, token, counters, history>>

(* The timeout, or a spurious wake-up. *)
WaitEnds(r) ==
  /\ receiver[r] = "waiting"
  /\ \E to \in {"expired", "notified"} : ReceiverGoes(r, to)
  /\ UNCHANGED <<sender, slot, floor, token, counters, history>>

(* After the timeout: the frame, Disconnected or Timeout. *)
Expire(r) ==
  /\ LockFree
  /\ receiver[r] = "expired"
  /\ UNCHANGED sender
  /\ \/ Take /\ ReceiverGoes(r, "idle")
     \/ /\ slot = None
        /\ ReceiverGoes(r, IF SendersLeft THEN "idle" ELSE "closed")
        /\ UNCHANGED <<slot, floor, token, counters, history>>

-----------------------------------------------------------------------------
(* clear_pending and advance_subscription_generation *)

(* The pending frame and its notification are discarded. *)
Discard ==
  /\ slot' = None
  /\ token' = 0
  /\ cleared' = IF slot # None THEN cleared + 1 ELSE cleared
  /\ UNCHANGED <<receiver, sender, published, overwritten, received, stale, view>>

(* Either side may call it, between its other calls. *)
ClearPending ==
  /\ Clears
  /\ LockFree
  /\ \/ \E s \in Senders : sender[s] = "idle"
     \/ \E r \in Receivers : receiver[r] = "idle"
  /\ Discard
  /\ accepted' = Shown
  /\ UNCHANGED <<floor, advanced>>

(* Mutant: the pending frame is discarded, but the floor stays. *)
RaiseFloor_Kept(gen) == floor' = floor

RaiseFloor(gen) == floor' = IF gen > floor THEN gen ELSE floor

(* Called by the service, which holds a sending handle, with each new set  *)
(* of subscriptions.                                                       *)
Advance(gen) ==
  /\ LockFree
  /\ \E s \in Senders : sender[s] = "idle"
  /\ gen > advanced
  /\ advanced' = gen
  /\ RaiseFloor(gen)
  /\ Discard
  /\ accepted' = IF gen > floor THEN Nothing ELSE Shown

-----------------------------------------------------------------------------
SenderNext ==
  \E s \in Senders :
    \/ CloneSender(s) \/ SendCheck(s) \/ NotifyOne(s)
    \/ \E gen \in 0..MaxGen, items \in SUBSET Items \ {{}} : Publish(s, gen, items)
    \/ DropSender(s) \/ SignalDisconnect(s) \/ NotifyAll(s)

ReceiverNext ==
  \/ \E r \in Receivers : CloneReceiver(r) \/ DropReceiver(r) \/ TryRecv(r)
  \/ \E r \in Selectors : SelectWoken(r)
  \/ \E r \in Waiters : CheckAndWait(r) \/ StartWait(r) \/ WaitEnds(r) \/ Expire(r)

(* Every handle has been dropped. *)
Over ==
  /\ ~SendersLeft
  /\ ~ReceiversLeft
  /\ UNCHANGED vars

Next ==
  \/ SenderNext \/ ReceiverNext
  \/ ClearPending
  \/ \E gen \in 1..MaxGen : Advance(gen)
  \/ Over

(* A call that was begun goes on, a selector serves its notifications and  *)
(* a waiter calls recv_timeout again; nobody has to send, poll or drop.    *)
Fairness ==
  /\ \A s \in Senders :
       /\ WF_vars(\E gen \in 0..MaxGen, items \in SUBSET Items \ {{}} : Publish(s, gen, items))
       /\ WF_vars(NotifyOne(s) \/ SignalDisconnect(s) \/ NotifyAll(s))
  /\ \A r \in Selectors :
       /\ WF_vars(SelectWoken(r))
       /\ WF_vars(receiver[r] = "woken" /\ TryRecv(r))
  /\ \A r \in Waiters :
       WF_vars(CheckAndWait(r) \/ StartWait(r) \/ WaitEnds(r) \/ Expire(r))

Spec == Init /\ [][Next]_vars
FairSpec == Spec /\ Fairness

-----------------------------------------------------------------------------
(* Type correctness: control points, one slot, one notification.           *)
TypeOK ==
  /\ sender \in [Senders -> {"unborn", "idle", "checked", "notify", "signal", "wake", "gone"}]
  /\ receiver \in [Receivers -> {"unborn", "idle", "woken", "checking", "waiting",
                                 "notified", "expired", "closed", "gone"}]
  /\ slot \in Frame \cup {None}
  /\ floor \in Nat /\ token \in 0..1
  /\ published \in Nat /\ overwritten \in Nat /\ received \in Nat
  /\ cleared \in Nat /\ stale \in Nat
  /\ accepted \in Values
  /\ view \in Frame
  /\ advanced \in Nat

(* Every frame that send_latest accepted responsibility for is in exactly  *)
(* one place: received, overwritten, cleared, refused as stale or pending. *)
FramesConserved ==
  published = received + overwritten + cleared + stale + (IF slot # None THEN 1 ELSE 0)

(* The display can always be brought up to date from the slot alone: what  *)
(* it has put together, overlaid with the pending patch, is the newest     *)
(* value of every item that was published in this generation.             *)
NothingLost ==
  accepted = IF slot # None THEN Overlay(Shown, slot.vals) ELSE Shown

(* A pending frame is never left without a wake-up: its notification is in *)
(* the channel, or a selector has taken one and is about to call try_recv. *)
PendingIsSignalled ==
  slot # None => token = 1 \/ \E r \in Selectors : receiver[r] = "woken"

(* Once the service has advanced to a generation nothing of an older one   *)
(* is delivered, however late the frame was sent.                          *)
NoStaleDelivery == [][view' # view => view'.gen >= advanced]_vars

(* A pending frame does not stay: the display takes it, if there is one.   *)
PendingServed == slot # None ~> slot = None \/ ~ReceiversLeft

(* When the last sender is dropped, everyone who still listens is told.    *)
NoSender == \A s \in Senders : sender[s] \in {"unborn", "gone"}
Told(r) == receiver[r] \in {"unborn", "closed", "gone"}
DisconnectObserved == NoSender ~> \A r \in Receivers : Told(r)

(* The channel implements the register. *)
Register == INSTANCE LatestValueRegister WITH generation <- floor, latest <- accepted

ImplementsRegister == Register!Spec
=============================================================================
