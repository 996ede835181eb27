-------------------------- MODULE RecordingService --------------------------
(***************************************************************************)
(* The live recording service: RecordingController (stop, Drop), the       *)
(* recording-holder thread with the single-session engine loop it calls,   *)
(* and the end of the dashboard thread, which stop() joins too.            *)
(*                                                                         *)
(* One step of the holder is one region between two accesses to what other *)
(* threads see (stop channel, session metadata, status and outcome         *)
(* channels) or one fallible call.  What the game answers (shared memory   *)
(* present, ACC status, frame or no frame) is chosen freely at each call.  *)
(***************************************************************************)
EXTENDS Integers, Sequences

CONSTANTS
  MaxFiles,         \* bound: telemetry files created in a behaviour
  MaxFrames,        \* bound: frames counted per file
  StatusCapacity,   \* capacity of the caller's status channel
  OutcomeCapacity,  \* capacity of the outcome channel (16 in the code)
  MayFail           \* the calls that may return an error

Operations == {"session_info", "create_file", "write_frame", "flush", "finish", "parse"}

ASSUME BoundsAssumption ==
  /\ MaxFiles \in Nat \ {0}
  /\ MaxFrames \in Nat \ {0}
  /\ StatusCapacity \in Nat \ {0}
  /\ OutcomeCapacity \in Nat \ {0}

ASSUME MayFailAssumption == MayFail \subseteq Operations

VARIABLES
  holder,       \* control point of the recording-holder thread
  controller,   \* control point of the thread that owns the controller
  dashboard,    \* the dashboard thread
  stop_ch,      \* tokens in the stop channel, bounded(1)
  writer,       \* the file the engine is writing, 0 for None
  created,      \* files created so far; file f is the f-th
  file,         \* state of each file on disk
  frames,       \* frames written to each file
  verdict,      \* what the holder said of each file once it was closed
  last_status,  \* the engine's last_status
  resumed,      \* the engine's resumed_from_pause
  reason,       \* the stop_reason of the session that ended last
  session_meta, \* the session whose metadata is published, 0 for None
  status_ch,    \* the status channel
  announced,    \* kind of the status offered last, whether or not it fitted
  outcome_ch,   \* the outcome channel
  outcome_rx,   \* the caller's end of the outcome channel
  received      \* the outcome received last, 0 for none

engineVars  == <<writer, created, file, frames, last_status, resumed, reason>>
statusVars  == <<status_ch, announced>>
outcomeVars == <<verdict, outcome_ch, outcome_rx, received>>
vars == <<holder, controller, dashboard, stop_ch, session_meta,
          engineVars, statusVars, outcomeVars>>

Files == 1..MaxFiles
GameStatus == {"Off", "Live", "Pause"}   \* Off stands for Replay, Unavailable too
Reasons == {"Manual", "SessionEnd", "ShmemLost"}
Kinds == {"Started", "Waiting", "Connected", "RecordingStarted", "Running",
          "Paused", "Error", "Stopping"}
Status == [kind : Kinds, of : 0..MaxFiles]
Points == {"start", "connect", "open", "retry", "tick", "status", "session_info",
           "create", "resume", "sample", "flush", "finish", "report", "stopping",
           "outcome", "error", "done"}

Init ==
  /\ holder = "start"
  /\ controller = "running"
  /\ dashboard = "none"
  /\ stop_ch = 0
  /\ writer = 0
  /\ created = 0
  /\ file = [f \in Files |-> "absent"]
  /\ frames = [f \in Files |-> 0]
  /\ verdict = [f \in Files |-> "none"]
  /\ last_status = "None"
  /\ resumed = FALSE
  /\ reason = "None"
  /\ session_meta = 0
  /\ status_ch = << >>
  /\ announced = "None"
  /\ outcome_ch = << >>
  /\ outcome_rx = "held"
  /\ received = 0

-----------------------------------------------------------------------------
(* send_status: try_send, so a full channel drops the status.              *)
Offer(kind, f) ==
  /\ announced' = kind
  /\ status_ch' = IF Len(status_ch) < StatusCapacity
                  THEN Append(status_ch, [kind |-> kind, of |-> f])
                  ELSE status_ch

Goto(point) == holder' = point

(* Mutant: the holder waits and reconnects without a word on the error. *)
Fail_Silently ==
  /\ Goto("retry")
  /\ writer' = 0
  /\ file' = [f \in Files |-> IF f = writer THEN "unfinished" ELSE file[f]]

(* A `?` in the engine: the writer is dropped without finish, so its file  *)
(* keeps a header without a footer, and the error goes to the holder.      *)
Fail ==
  /\ Goto("error")
  /\ writer' = 0
  /\ file' = [f \in Files |-> IF f = writer THEN "unfinished" ELSE file[f]]

-----------------------------------------------------------------------------
(* run_recording_holder *)

(* Started, then setup_dashboard_thread. *)
HolderStart ==
  /\ holder = "start"
  /\ Offer("Started", 0)
  /\ dashboard' = "running"
  /\ Goto("connect")
  /\ UNCHANGED <<controller, stop_ch, session_meta, engineVars, outcomeVars>>

(* stop_requested and wait_for_stop found the token. *)
TakeStop ==
  /\ stop_ch = 1
  /\ stop_ch' = 0
  /\ Offer("Stopping", 0)
  /\ Goto("done")

(* The head of the holder's loop. *)
Connect ==
  /\ holder = "connect"
  /\ \/ TakeStop
     \/ /\ stop_ch = 0
        /\ Goto("open")
        /\ UNCHANGED <<stop_ch, statusVars>>
  /\ UNCHANGED <<controller, dashboard, session_meta, engineVars, outcomeVars>>

(* AccTelemetrySource::open; an engine call starts with fresh locals.      *)
Open ==
  /\ holder = "open"
  /\ \/ /\ Offer("Connected", 0)
        /\ Goto("tick")
        /\ last_status' = "None"
        /\ resumed' = FALSE
     \/ /\ Offer("Waiting", 0) \/ UNCHANGED statusVars  \* at most one per status_interval
        /\ Goto("retry")
        /\ UNCHANGED <<last_status, resumed>>
  /\ UNCHANGED <<controller, dashboard, stop_ch, session_meta, writer, created, file,
                 frames, reason, outcomeVars>>

(* wait_for_stop: the token, or the timeout. *)
Retry ==
  /\ holder = "retry"
  /\ \/ TakeStop
     \/ /\ stop_ch = 0
        /\ Goto("connect")
        /\ UNCHANGED <<stop_ch, statusVars>>
  /\ UNCHANGED <<controller, dashboard, session_meta, engineVars, outcomeVars>>

(* The Err(err) arm of the holder.  It is also all that is ever said of a   *)
(* file the engine gave up.                                                 *)
ReportError ==
  /\ holder = "error"
  /\ Offer("Error", 0)
  /\ verdict' = [f \in Files |-> IF file[f] = "unfinished" /\ verdict[f] = "none"
                                 THEN "failed" ELSE verdict[f]]
  /\ Goto("retry")
  /\ UNCHANGED <<controller, dashboard, stop_ch, session_meta, engineVars, outcome_ch,
                 outcome_rx, received>>

-----------------------------------------------------------------------------
(* run_recording_loop *)

(* Mutant: the token ends the loop whether or not a file is open. *)
EngineStop_Abandon == TakeStop /\ UNCHANGED reason

(* The engine takes the token: it finishes its writer, or the run counts as *)
(* cancelled_before_start, which the holder answers with Stopping.          *)
EngineStop ==
  IF writer = 0
  THEN TakeStop /\ UNCHANGED reason
  ELSE /\ stop_ch = 1
       /\ stop_ch' = 0
       /\ reason' = "Manual"
       /\ Goto("finish")
       /\ UNCHANGED statusVars

Tick ==
  /\ holder = "tick"
  /\ \/ EngineStop
     \/ /\ stop_ch = 0
        /\ Goto("status")
        /\ UNCHANGED <<stop_ch, reason, statusVars>>
  /\ UNCHANGED <<controller, dashboard, session_meta, writer, created, file, frames,
                 last_status, resumed, outcomeVars>>

(* End the session: finish the writer if there is one. *)
EndSession(why, otherwise) ==
  IF writer # 0 THEN /\ reason' = why
                     /\ Goto("finish")
                ELSE /\ Goto(otherwise)
                     /\ UNCHANGED reason

(* source.status() failed.  Without a writer the holder reconnects at once. *)
StatusError ==
  /\ holder = "status"
  /\ EndSession("ShmemLost", "connect")
  /\ UNCHANGED <<controller, dashboard, stop_ch, session_meta, writer, created, file,
                 frames, last_status, resumed, statusVars, outcomeVars>>

(* Mutant: compared after last_status has taken the new status. *)
ResumedFromPause_Late(s) == s = "Live" /\ s = "Pause"

ResumedFromPause(s) == s = "Live" /\ last_status = "Pause"

StatusOk(s) ==
  /\ holder = "status"
  /\ last_status' = s
  /\ resumed' = ResumedFromPause(s)
  /\ \/ /\ s = "Live"
        /\ writer = 0 => created < MaxFiles
        /\ Goto(IF writer = 0 THEN "session_info"
                ELSE IF ResumedFromPause(s) THEN "resume" ELSE "sample")
        /\ UNCHANGED <<reason, statusVars>>
     \/ /\ s = "Pause"
        /\ IF writer # 0 /\ last_status # s THEN Offer("Paused", 0)
                                            ELSE UNCHANGED statusVars
        /\ Goto("flush")
        /\ UNCHANGED reason
     \/ /\ s = "Off"
        /\ EndSession("SessionEnd", "flush")
        /\ UNCHANGED statusVars
  /\ UNCHANGED <<controller, dashboard, stop_ch, session_meta, writer, created, file,
                 frames, outcomeVars>>

(* Mutant: only the first session is stored. *)
StoreMetadata_Once == session_meta' = IF session_meta = 0 THEN created + 1 ELSE session_meta

StoreMetadata == session_meta' = created + 1

(* session_info, the output path, and session_meta := Some(metadata). *)
SessionInfo ==
  /\ holder = "session_info"
  /\ \/ /\ StoreMetadata
        /\ Goto("create")
     \/ /\ "session_info" \in MayFail
        /\ Goto("error")
        /\ UNCHANGED session_meta
  /\ UNCHANGED <<controller, dashboard, stop_ch, engineVars, statusVars, outcomeVars>>

(* BinaryTelemetryWriterV2::create_file, then RecordingStarted.  A failure  *)
(* may leave the file behind.                                               *)
CreateFile ==
  /\ holder = "create"
  /\ \/ /\ created' = created + 1
        /\ writer' = created + 1
        /\ file' = [file EXCEPT ![created + 1] = "open"]
        /\ Offer("RecordingStarted", created + 1)
        /\ Goto(IF resumed THEN "resume" ELSE "sample")
     \/ /\ "create_file" \in MayFail
        /\ created' = created + 1
        /\ file' = [file EXCEPT ![created + 1] = "unfinished"]
        /\ Goto("error")
        /\ UNCHANGED <<writer, statusVars>>
     \/ /\ "create_file" \in MayFail
        /\ Goto("error")
        /\ UNCHANGED <<created, writer, file, statusVars>>
  /\ UNCHANGED <<controller, dashboard, stop_ch, session_meta, frames, last_status,
                 resumed, reason, outcomeVars>>

(* resumed_from_pause && writer.is_some() *)
Resume ==
  /\ holder = "resume"
  /\ Offer("Running", 0)
  /\ Goto("sample")
  /\ UNCHANGED <<controller, dashboard, stop_ch, session_meta, engineVars, outcomeVars>>

(* read_all_telemetry_frame: a frame that is written, no frame, an error.  *)
Sample ==
  /\ holder = "sample"
  /\ \/ /\ frames[writer] < MaxFrames
        /\ frames' = [frames EXCEPT ![writer] = @ + 1]
        /\ Goto("flush")
        /\ UNCHANGED <<writer, file, reason>>
     \/ /\ "write_frame" \in MayFail
        /\ Fail
        /\ UNCHANGED <<frames, reason>>
     \/ /\ Goto("flush")
        /\ UNCHANGED <<writer, file, frames, reason>>
     \/ /\ EndSession("ShmemLost", "error")
        /\ UNCHANGED <<writer, file, frames>>
  /\ UNCHANGED <<controller, dashboard, stop_ch, session_meta, created, last_status,
                 resumed, statusVars, outcomeVars>>

(* The periodic flush, when it is due, and the sleep. *)
Flush ==
  /\ holder = "flush"
  /\ \/ /\ Goto("tick")
        /\ UNCHANGED <<writer, file>>
     \/ /\ "flush" \in MayFail /\ writer # 0
        /\ Fail
  /\ UNCHANGED <<controller, dashboard, stop_ch, session_meta, created, frames,
                 last_status, resumed, reason, statusVars, outcomeVars>>

(* writer.take() and w.finish()? *)
Finish ==
  /\ holder = "finish"
  /\ \/ /\ file' = [file EXCEPT ![writer] = "finished"]
        /\ writer' = 0
        /\ Goto("report")
     \/ /\ "finish" \in MayFail
        /\ Fail
  /\ UNCHANGED <<controller, dashboard, stop_ch, session_meta, created, frames,
                 last_status, resumed, reason, statusVars, outcomeVars>>

-----------------------------------------------------------------------------
(* handle_recording_result *)

(* parse_acctlm_file; a failure is announced and replaced by UNKNOWN. *)
ParseOutcome ==
  /\ holder = "report"
  /\ Goto("stopping")
  /\ \/ UNCHANGED statusVars
     \/ "parse" \in MayFail /\ Offer("Error", 0)
  /\ UNCHANGED <<controller, dashboard, stop_ch, session_meta, engineVars, outcomeVars>>

AnnounceStopping ==
  /\ holder = "stopping"
  /\ Goto("outcome")
  /\ Offer("Stopping", created)
  /\ UNCHANGED <<controller, dashboard, stop_ch, session_meta, engineVars, outcomeVars>>

(* Mutant: a full channel makes room by dropping its oldest outcome. *)
OutcomeFits_Evict ==
  /\ outcome_rx = "held"
  /\ outcome_ch' = Append(IF Len(outcome_ch) < OutcomeCapacity THEN outcome_ch
                           ELSE Tail(outcome_ch), created)

(* try_send on the outcome channel. *)
OutcomeFits ==
  /\ outcome_rx = "held"
  /\ Len(outcome_ch) < OutcomeCapacity
  /\ outcome_ch' = Append(outcome_ch, created)

(* send_outcome: full and disconnected channels both end in an Error.      *)
SendOutcome ==
  /\ holder = "outcome"
  /\ \/ /\ OutcomeFits
        /\ verdict' = [verdict EXCEPT ![created] = "sent"]
        /\ UNCHANGED statusVars
     \/ /\ ~(outcome_rx = "held" /\ Len(outcome_ch) < OutcomeCapacity)
        /\ verdict' = [verdict EXCEPT ![created] = "dropped"]
        /\ Offer("Error", created)
        /\ UNCHANGED outcome_ch
  /\ Goto(IF reason = "Manual" THEN "done" ELSE "connect")
  /\ UNCHANGED <<controller, dashboard, stop_ch, session_meta, engineVars, outcome_rx,
                 received>>

-----------------------------------------------------------------------------
(* The thread that owns the controller, and the dashboard thread. *)

(* stop() and Drop: one token, then join the holder. *)
Stop ==
  /\ controller = "running"
  /\ controller' = "joining"
  /\ stop_ch' = 1
  /\ UNCHANGED <<holder, dashboard, session_meta, engineVars, statusVars, outcomeVars>>

JoinHolder ==
  /\ controller = "joining"
  /\ holder = "done"
  /\ controller' = "joining_dashboard"
  /\ UNCHANGED <<holder, dashboard, stop_ch, session_meta, engineVars, statusVars,
                 outcomeVars>>

JoinDashboard ==
  /\ controller = "joining_dashboard"
  /\ dashboard = "exited"
  /\ controller' = "stopped"
  /\ UNCHANGED <<holder, dashboard, stop_ch, session_meta, engineVars, statusVars,
                 outcomeVars>>

(* Dropping a stopped controller does nothing more than free it.            *)
DropController ==
  /\ controller = "stopped"
  /\ controller' = "dropped"
  /\ UNCHANGED <<holder, dashboard, stop_ch, session_meta, engineVars, statusVars,
                 outcomeVars>>

(* The distributor lives in the holder; the command sender is shared by the *)
(* holder's callback and the controller.                                    *)
FrameSenderAlive == holder # "done"
CommandSenderAlive == holder # "done" \/ controller # "dropped"

(* Mutant: the loop ends only when both channels are closed. *)
DashboardLoopEnds_Both == ~FrameSenderAlive /\ ~CommandSenderAlive

(* The select loop of the service ends when either channel is closed. *)
DashboardLoopEnds == ~FrameSenderAlive \/ ~CommandSenderAlive

DashboardExit ==
  /\ dashboard = "running"
  /\ DashboardLoopEnds
  /\ dashboard' = "exited"
  /\ UNCHANGED <<holder, controller, stop_ch, session_meta, engineVars, statusVars,
                 outcomeVars>>

(* The caller's receivers. *)
RecvStatus ==
  /\ status_ch # << >>
  /\ status_ch' = Tail(status_ch)
  /\ UNCHANGED <<holder, controller, dashboard, stop_ch, session_meta, engineVars,
                 announced, outcomeVars>>

RecvOutcome ==
  /\ outcome_rx = "held"
  /\ outcome_ch # << >>
  /\ received' = Head(outcome_ch)
  /\ outcome_ch' = Tail(outcome_ch)
  /\ UNCHANGED <<holder, controller, dashboard, stop_ch, session_meta, engineVars,
                 statusVars, verdict, outcome_rx>>

DropOutcomeReceiver ==
  /\ outcome_rx = "held"
  /\ outcome_rx' = "gone"
  /\ UNCHANGED <<holder, controller, dashboard, stop_ch, session_meta, engineVars,
                 statusVars, verdict, outcome_ch, received>>

-----------------------------------------------------------------------------
Holder ==
  \/ HolderStart \/ Connect \/ Open \/ Retry \/ ReportError
  \/ Tick \/ StatusError \/ (\E s \in GameStatus : StatusOk(s))
  \/ SessionInfo \/ CreateFile \/ Resume \/ Sample \/ Flush \/ Finish
  \/ ParseOutcome \/ AnnounceStopping \/ SendOutcome

Controller == Stop \/ JoinHolder \/ JoinDashboard \/ DropController
Caller == RecvStatus \/ RecvOutcome \/ DropOutcomeReceiver

(* The end of a behaviour, so that every other deadlock is an error.        *)
Terminated == controller = "dropped" /\ UNCHANGED vars

Next == Holder \/ Controller \/ DashboardExit \/ Caller \/ Terminated

(* The OS schedules the three threads; stop() itself is never promised.    *)
Fairness ==
  /\ WF_vars(Holder)
  /\ WF_vars(JoinHolder \/ JoinDashboard)
  /\ WF_vars(DashboardExit)

Spec == Init /\ [][Next]_vars
FairSpec == Spec /\ Fairness

-----------------------------------------------------------------------------
(* Type correctness: the control points, the bounded channels and counters. *)
TypeOK ==
  /\ holder \in Points
  /\ controller \in {"running", "joining", "joining_dashboard", "stopped", "dropped"}
  /\ dashboard \in {"none", "running", "exited"}
  /\ stop_ch \in 0..1
  /\ writer \in 0..MaxFiles
  /\ created \in 0..MaxFiles
  /\ file \in [Files -> {"absent", "open", "finished", "unfinished"}]
  /\ frames \in [Files -> 0..MaxFrames]
  /\ verdict \in [Files -> {"none", "sent", "dropped", "failed"}]
  /\ last_status \in GameStatus \cup {"None"}
  /\ resumed \in BOOLEAN
  /\ reason \in Reasons \cup {"None"}
  /\ session_meta \in 0..MaxFiles
  /\ status_ch \in Seq(Status) /\ Len(status_ch) <= StatusCapacity
  /\ announced \in Kinds \cup {"None"}
  /\ outcome_ch \in Seq(Files) /\ Len(outcome_ch) <= OutcomeCapacity
  /\ outcome_rx \in {"held", "gone"}
  /\ received \in 0..MaxFiles

(* Between two sessions, and once the thread has ended, every file that was *)
(* ever created has been accounted for: its outcome was sent, was dropped   *)
(* with an Error, or the session ended in an Error (and then only because   *)
(* the file was never finished).                                            *)
Between == {"connect", "open", "retry", "done"}
ClosedFilesAccounted ==
  holder \in Between =>
    \A f \in Files : /\ file[f] # "open"
                     /\ file[f] = "finished" => verdict[f] \in {"sent", "dropped"}
                     /\ file[f] = "unfinished" => verdict[f] = "failed"

(* When stop() or Drop returns, the recording in progress was closed and    *)
(* accounted for, and no thread of the service is left behind.              *)
StopIsGraceful ==
  controller \in {"stopped", "dropped"} =>
    /\ holder = "done"
    /\ dashboard = "exited"
    /\ \A f \in Files : file[f] # "absent" =>
                          file[f] # "open" /\ verdict[f] # "none"

(* The outcomes the caller reads come one per session and in the order of   *)
(* the sessions, and one that was sent is never lost while it is queued.     *)
OutcomesInOrder ==
  /\ \A i, j \in DOMAIN outcome_ch : i < j => outcome_ch[i] < outcome_ch[j]
  /\ \A i \in DOMAIN outcome_ch : received < outcome_ch[i]
  /\ \A f \in Files : verdict[f] = "sent" =>
        f <= received \/ \E i \in DOMAIN outcome_ch : outcome_ch[i] = f

(* session_metadata() answers for a session that has started by the time    *)
(* its RecordingStarted can be read, however late the caller reads it.      *)
MetadataBeforeStarted ==
  \A i \in DOMAIN status_ch :
    status_ch[i].kind = "RecordingStarted" => session_meta >= status_ch[i].of

(* No frame reaches the file between the Paused the caller is offered and   *)
(* the Running that ends the pause.                                         *)
NoFrameWhilePaused == [][announced = "Paused" => UNCHANGED frames]_vars

(* stop() and Drop return: the holder and the dashboard can be joined.      *)
StopReturns == controller = "joining" ~> controller \in {"stopped", "dropped"}

(* What can keep it from returning is only a finish() that fails after the *)
(* loop has consumed the token of the stop (engine.rs:146).                *)
StopReturnsUnlessFinishFails ==
  controller = "joining" /\ stop_ch = 1 ~>
    \/ controller \in {"stopped", "dropped"}
    \/ holder = "error" /\ stop_ch = 0

(* The service implements what SessionLedger promises to its owner.         *)
SessionState ==
  [f \in Files |-> IF verdict[f] # "none" THEN verdict[f]
                  ELSE IF file[f] = "absent" THEN "absent"
                  ELSE IF file[f] # "open" THEN "closing"
                  ELSE IF announced = "Paused" THEN "paused"
                  ELSE "recording"]

Ledger == INSTANCE SessionLedger WITH
  Sessions <- Files,
  session <- SessionState,
  up <- holder # "done"

ImplementsLedger == Ledger!Spec
=============================================================================
