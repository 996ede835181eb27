----------------------- MODULE RecordingService_proofs -----------------------
(***************************************************************************)
(* Proofs about RecordingService, for every value of its constants: type   *)
(* correctness, the accounting of every file, the graceful stop, and that  *)
(* no frame is written while the caller has been told of a pause.          *)
(*                                                                         *)
(* The invariant is built up in layers.  WriterShape ties the engine's      *)
(* writer to the files on disk and to the control points; VerdictShape says *)
(* which file may still be without a verdict, and where the holder is then. *)
(***************************************************************************)
EXTENDS RecordingService, TLAPS

Engine == {"tick", "status", "resume", "sample", "flush", "finish"}
Reporting == {"report", "stopping", "outcome"}

(* The files are created in order, at most the last is open, and then it is *)
(* the engine's writer; the points where a writer must, or cannot, exist.   *)
WriterShape ==
  /\ \A f \in Files : file[f] = "absent" <=> f > created
  /\ \A f \in Files : file[f] = "open" <=> f = writer
  /\ writer \in {0, created}
  /\ holder \in {"resume", "sample", "finish"} => writer # 0
  /\ holder \notin Engine => writer = 0
  /\ holder \in {"session_info", "create"} => created < MaxFiles
  /\ holder \in Reporting => created # 0

TypeInv == TypeOK /\ WriterShape

(* A verdict fits what became of the file; only the session that is being  *)
(* reported, or the one that just failed, can be closed without a verdict.  *)
VerdictShape ==
  /\ \A f \in Files : verdict[f] \in {"sent", "dropped"} => file[f] = "finished"
  /\ \A f \in Files : verdict[f] = "failed" => file[f] = "unfinished"
  /\ \A f \in Files : file[f] = "finished" /\ verdict[f] = "none" =>
                        f = created /\ holder \in Reporting
  /\ \A f \in Files : file[f] = "unfinished" /\ verdict[f] = "none" => holder = "error"
  /\ holder \in Reporting => file[created] = "finished" /\ verdict[created] = "none"

(* The metadata is never behind the files, and ahead of them when the next   *)
(* file is about to be created.                                             *)
MetaShape ==
  /\ created <= session_meta
  /\ holder = "create" => created < session_meta
  /\ \A i \in DOMAIN status_ch :
       status_ch[i].kind = "RecordingStarted" => status_ch[i].of <= created

(* The outcomes queued and received are those of reported sessions.         *)
OutcomeShape ==
  /\ \A i \in DOMAIN outcome_ch : verdict[outcome_ch[i]] = "sent"
  /\ received # 0 => verdict[received] = "sent"
  /\ OutcomesInOrder

(* A pause that was announced and not ended is one the engine knows of.     *)
PauseShape ==
  /\ holder = "sample" => announced # "Paused"
  /\ holder \in {"tick", "status", "flush"} /\ writer # 0 /\ announced = "Paused" =>
       last_status = "Pause"

(* A thread that has been joined has ended, and stays so.                   *)
JoinShape ==
  /\ controller \in {"joining_dashboard", "stopped", "dropped"} => holder = "done"
  /\ controller \in {"stopped", "dropped"} => dashboard = "exited"

USE DEF Goto

-----------------------------------------------------------------------------
(* The status channel is typed, within capacity, and so is the last status. *)
StatusTyped ==
  /\ status_ch \in Seq(Status)
  /\ Len(status_ch) <= StatusCapacity
  /\ announced \in Kinds \cup {"None"}

(* Offering a status, and leaving the statuses alone, keep that.            *)
LEMMA OfferTyped ==
  ASSUME StatusTyped, NEW kind \in Kinds, NEW f \in 0..MaxFiles, Offer(kind, f)
  PROVE  StatusTyped'
<1>1. [kind |-> kind, of |-> f] \in Status
  BY DEF Status
<1>2. CASE Len(status_ch) < StatusCapacity
  BY <1>1, <1>2, BoundsAssumption DEF Offer, StatusTyped
<1>3. CASE ~(Len(status_ch) < StatusCapacity)
  BY <1>3 DEF Offer, StatusTyped
<1>4. QED
  BY <1>2, <1>3

LEMMA StatusKept == ASSUME StatusTyped, UNCHANGED statusVars PROVE StatusTyped'
BY DEF StatusTyped, statusVars

LEMMA TakeStopTyped == ASSUME StatusTyped, TakeStop PROVE StatusTyped'
<1>1. Offer("Stopping", 0)
  BY DEF TakeStop
<1>2. "Stopping" \in Kinds /\ 0 \in 0..MaxFiles
  BY BoundsAssumption DEF Kinds
<1>3. QED
  BY <1>1, <1>2, OfferTyped

-----------------------------------------------------------------------------
LEMMA TypeInit == Init => TypeInv
<1>1. ASSUME Init PROVE TypeOK
  <2>1. /\ writer \in 0..MaxFiles /\ created \in 0..MaxFiles
        /\ session_meta \in 0..MaxFiles /\ received \in 0..MaxFiles /\ stop_ch \in 0..1
    BY <1>1, BoundsAssumption DEF Init
  <2>2. /\ status_ch \in Seq(Status) /\ Len(status_ch) <= StatusCapacity
        /\ outcome_ch \in Seq(Files) /\ Len(outcome_ch) <= OutcomeCapacity
    BY <1>1, BoundsAssumption DEF Init
  <2>3. frames \in [Files -> 0..MaxFrames]
    BY <1>1, BoundsAssumption DEF Init
  <2>4. QED
    BY <1>1, <2>1, <2>2, <2>3 DEF Init, TypeOK, Points
<1>2. ASSUME Init PROVE WriterShape
  BY <1>2, BoundsAssumption DEF Init, WriterShape, Files, Engine, Reporting
<1>3. QED
  BY <1>1, <1>2 DEF TypeInv

(* Whatever step is taken, the statuses stay typed.                         *)
LEMMA StatusStep == ASSUME TypeInv, [Next]_vars PROVE StatusTyped'
<1>0. StatusTyped /\ created \in 0..MaxFiles /\ 0 \in 0..MaxFiles
  BY BoundsAssumption DEF TypeInv, TypeOK, StatusTyped
<1>1. {"Started", "Connected", "Waiting", "Error", "Paused", "Running", "RecordingStarted",
       "Stopping"} \subseteq Kinds
  BY DEF Kinds
<1>2. CASE UNCHANGED statusVars
  BY <1>0, <1>2, StatusKept
<1>3. CASE TakeStop
  BY <1>0, <1>3, TakeStopTyped
<1>4. CASE \E kind \in Kinds, f \in 0..MaxFiles : Offer(kind, f)
  BY <1>0, <1>4, OfferTyped
<1>5. CASE RecvStatus
  BY <1>0, <1>5, BoundsAssumption DEF RecvStatus, StatusTyped
<1>6. CASE Holder
  <2>1. CASE HolderStart
    BY <1>0, <1>1, <1>4, <2>1 DEF HolderStart
  <2>2. CASE Connect
    BY <1>2, <1>3, <2>2 DEF Connect
  <2>3. CASE Open
    BY <1>0, <1>1, <1>2, <1>4, <2>3 DEF Open
  <2>4. CASE Retry
    BY <1>2, <1>3, <2>4 DEF Retry
  <2>5. CASE ReportError
    BY <1>0, <1>1, <1>4, <2>5 DEF ReportError
  <2>6. CASE Tick
    BY <1>2, <1>3, <2>6 DEF Tick, EngineStop
  <2>7. CASE StatusError \/ SessionInfo \/ Sample \/ Flush \/ Finish
    BY <1>2, <2>7 DEF StatusError, SessionInfo, Sample, Flush, Finish
  <2>8. CASE \E s \in GameStatus : StatusOk(s)
    BY <1>0, <1>1, <1>2, <1>4, <2>8 DEF StatusOk
  <2>9. CASE CreateFile
    <3>1. created + 1 \in 0..MaxFiles
      BY <2>9, BoundsAssumption DEF CreateFile, TypeInv, TypeOK, WriterShape
    <3>2. QED
      BY <1>1, <1>2, <1>4, <2>9, <3>1 DEF CreateFile
  <2>10. CASE Resume
    BY <1>0, <1>1, <1>4, <2>10 DEF Resume
  <2>11. CASE ParseOutcome \/ AnnounceStopping \/ SendOutcome
    BY <1>0, <1>1, <1>2, <1>4, <2>11 DEF ParseOutcome, AnnounceStopping, SendOutcome
  <2>12. QED
    BY <1>6, <2>1, <2>2, <2>3, <2>4, <2>5, <2>6, <2>7, <2>8, <2>9, <2>10, <2>11 DEF Holder
<1>7. CASE Controller \/ DashboardExit \/ RecvOutcome \/ DropOutcomeReceiver
  BY <1>2, <1>7 DEF Controller, Stop, JoinHolder, JoinDashboard, DropController,
    DashboardExit, RecvOutcome, DropOutcomeReceiver
<1>8. CASE UNCHANGED vars
  BY <1>2, <1>8 DEF vars
<1>9. QED
  BY <1>5, <1>6, <1>7, <1>8 DEF Next, Caller, Terminated

-----------------------------------------------------------------------------
(* Giving a file up leaves it unfinished and the engine without a writer.   *)
Failed ==
  /\ holder' = "error" /\ writer' = 0
  /\ file' \in [Files -> {"absent", "open", "finished", "unfinished"}]
  /\ \A f \in Files : /\ file'[f] # "open"
                      /\ file'[f] = "absent" <=> f > created

LEMMA FailKeeps == ASSUME TypeInv, Fail PROVE Failed
<1>1. \A f \in Files : file'[f] = IF f = writer THEN "unfinished" ELSE file[f]
  BY DEF Fail
<1>2. writer = 0 \/ file[writer] = "open"
  BY DEF TypeInv, TypeOK, WriterShape, Files
<1>3. file' \in [Files -> {"absent", "open", "finished", "unfinished"}]
  BY DEF Fail, TypeInv, TypeOK
<1>4. QED
  BY <1>1, <1>2, <1>3 DEF Failed, Fail, TypeInv, TypeOK, WriterShape, Files

-----------------------------------------------------------------------------
(* One case per action; the statuses are StatusStep's.                      *)
LEMMA TypeStep == ASSUME TypeInv, [Next]_vars PROVE TypeInv'
<1>0. StatusTyped'
  BY StatusStep
<1> USE BoundsAssumption
    DEF TypeInv, TypeOK, WriterShape, StatusTyped, engineVars, outcomeVars, Points, Engine,
        Reporting
<1>1. CASE HolderStart
  BY <1>0, <1>1 DEF HolderStart
<1>2. CASE Connect
  BY <1>0, <1>2 DEF Connect, TakeStop
<1>3. CASE Open
  BY <1>0, <1>3 DEF Open
<1>4. CASE Retry
  BY <1>0, <1>4 DEF Retry, TakeStop
<1>5. CASE ReportError
  BY <1>0, <1>5 DEF ReportError
<1>6. CASE Tick
  BY <1>0, <1>6 DEF Tick, EngineStop, TakeStop, Reasons
<1>7. CASE StatusError
  BY <1>0, <1>7 DEF StatusError, EndSession, Reasons
<1>8. CASE \E s \in GameStatus : StatusOk(s)
  BY <1>0, <1>8 DEF StatusOk, EndSession, Reasons, GameStatus, ResumedFromPause
<1>9. CASE SessionInfo
  BY <1>0, <1>9 DEF SessionInfo, StoreMetadata
<1>10. CASE CreateFile
  <2>1. created + 1 \in Files /\ created + 1 \in 0..MaxFiles /\ writer = 0
    BY <1>10 DEF CreateFile, Files
  <2>2. CASE created' = created
    BY <1>0, <1>10, <2>1, <2>2 DEF CreateFile
  <2>3. CASE /\ created' = created + 1
             /\ \E state \in {"open", "unfinished"} :
                  /\ file' = [file EXCEPT ![created + 1] = state]
                  /\ writer' = IF state = "open" THEN created + 1 ELSE 0
    <3>1. PICK state \in {"open", "unfinished"} :
             /\ file' = [file EXCEPT ![created + 1] = state]
             /\ writer' = IF state = "open" THEN created + 1 ELSE 0
      BY <2>3
    <3>2. file' \in [Files -> {"absent", "open", "finished", "unfinished"}]
      BY <3>1
    <3>3. \A f \in Files : file'[f] = IF f = created + 1 THEN state ELSE file[f]
      BY <2>1, <3>1
    <3>4. holder' \in {"resume", "sample", "error"} /\ (holder' # "error" <=> state = "open")
      BY <1>10, <2>1, <3>1, <3>3 DEF CreateFile
    <3>5. TypeOK'
      BY <1>0, <1>10, <2>1, <2>3, <3>1, <3>2, <3>4 DEF CreateFile
    <3>6. WriterShape'
      BY <2>1, <2>3, <3>1, <3>3, <3>4 DEF Files
    <3>7. QED
      BY <3>5, <3>6
  <2>4. QED
    BY <1>10, <2>1, <2>2, <2>3 DEF CreateFile
<1>11. CASE Resume
  BY <1>0, <1>11 DEF Resume
<1>12. CASE Sample
  <2>1. writer \in Files
    BY <1>12 DEF Sample, Files
  <2>2. CASE Fail
    <3>1. Failed
      BY <2>2, FailKeeps
    <3>2. QED
      BY <1>0, <1>12, <2>1, <3>1 DEF Sample, EndSession, Failed, Files
  <2>3. CASE ~Fail
    <3>1. frames' \in [Files -> 0..MaxFrames]
      BY <1>12, <2>1, <2>3 DEF Sample, EndSession
    <3>2. UNCHANGED <<writer, file, created>> /\ holder' \in {"flush", "finish"}
      BY <1>12, <2>1, <2>3 DEF Sample, EndSession, Files
    <3>3. QED
      BY <1>0, <1>12, <2>3, <3>1, <3>2 DEF Sample, EndSession, Reasons
  <2>4. QED
    BY <2>2, <2>3
<1>13. CASE Flush
  <2>1. CASE Fail
    <3>1. Failed
      BY <2>1, FailKeeps
    <3>2. QED
      BY <1>0, <1>13, <3>1 DEF Flush, Failed, Files
  <2>2. CASE ~Fail
    BY <1>0, <1>13, <2>2 DEF Flush
  <2>3. QED
    BY <2>1, <2>2
<1>14. CASE Finish
  <2>1. writer \in Files /\ writer = created
    BY <1>14 DEF Finish, Files
  <2>2. CASE Fail
    <3>1. Failed
      BY <2>2, FailKeeps
    <3>2. QED
      BY <1>0, <1>14, <3>1 DEF Finish, Failed, Files
  <2>3. CASE ~Fail
    <3>1. /\ file' = [file EXCEPT ![writer] = "finished"]
          /\ writer' = 0 /\ holder' = "report"
      BY <1>14, <2>3 DEF Finish
    <3>2. file' \in [Files -> {"absent", "open", "finished", "unfinished"}]
      BY <3>1
    <3>3. \A f \in Files : file'[f] = IF f = writer THEN "finished" ELSE file[f]
      BY <2>1, <3>1
    <3>4. TypeOK'
      BY <1>0, <1>14, <3>1, <3>2 DEF Finish
    <3>5. WriterShape'
      <4>1. UNCHANGED created /\ created \in Files /\ writer = created
        BY <1>14, <2>1 DEF Finish, Engine, Files
      <4>2. \A f \in Files : /\ file'[f] # "open"
                             /\ file'[f] = "absent" <=> f > created
        BY <2>1, <3>3, <4>1 DEF Files
      <4>3. QED
        BY <3>1, <4>1, <4>2 DEF Engine, Reporting, Files
    <3>6. QED
      BY <3>4, <3>5
  <2>4. QED
    BY <2>2, <2>3
<1>15. CASE ParseOutcome
  BY <1>0, <1>15 DEF ParseOutcome
<1>16. CASE AnnounceStopping
  BY <1>0, <1>16 DEF AnnounceStopping
<1>17. CASE SendOutcome
  <2>1. created \in Files
    BY <1>17 DEF SendOutcome, Files
  <2>2. verdict' \in [Files -> {"none", "sent", "dropped", "failed"}]
    BY <1>17 DEF SendOutcome
  <2>3. outcome_ch' \in Seq(Files) /\ Len(outcome_ch') <= OutcomeCapacity
    <3>1. CASE OutcomeFits
      BY <1>17, <2>1, <3>1 DEF OutcomeFits
    <3>2. CASE UNCHANGED outcome_ch
      BY <3>2
    <3>3. QED
      BY <1>17, <3>1, <3>2 DEF SendOutcome
  <2>4. QED
    BY <1>0, <1>17, <2>2, <2>3 DEF SendOutcome
<1>18. CASE Controller
  <2>1. CASE Stop
    BY <1>0, <2>1 DEF Stop
  <2>2. CASE JoinHolder
    BY <1>0, <2>2 DEF JoinHolder
  <2>3. CASE JoinDashboard
    BY <1>0, <2>3 DEF JoinDashboard
  <2>4. CASE DropController
    BY <1>0, <2>4 DEF DropController
  <2>5. QED
    BY <1>18, <2>1, <2>2, <2>3, <2>4 DEF Controller
<1>19. CASE DashboardExit
  BY <1>0, <1>19 DEF DashboardExit
<1>20. CASE RecvStatus
  BY <1>0, <1>20 DEF RecvStatus
<1>21. CASE RecvOutcome
  <2>1. outcome_ch' \in Seq(Files) /\ Len(outcome_ch') <= OutcomeCapacity
    BY <1>21 DEF RecvOutcome
  <2>2. received' \in 0..MaxFiles
    BY <1>21 DEF RecvOutcome, Files
  <2>3. QED
    BY <1>0, <1>21, <2>1, <2>2 DEF RecvOutcome
<1>22. CASE DropOutcomeReceiver
  BY <1>0, <1>22 DEF DropOutcomeReceiver
<1>23. CASE UNCHANGED vars
  BY <1>0, <1>23 DEF vars
<1>24. QED
  BY <1>1, <1>2, <1>3, <1>4, <1>5, <1>6, <1>7, <1>8, <1>9, <1>10, <1>11, <1>12, <1>13, <1>14,
    <1>15, <1>16, <1>17, <1>18, <1>19, <1>20, <1>21, <1>22, <1>23
    DEF Next, Holder, Caller, Terminated

(* Every variable keeps its type, whatever the bounds, the capacities and   *)
(* the set of calls that may fail.                                          *)
THEOREM TypeCorrect == Spec => []TypeOK
<1>1. Spec => []TypeInv
  BY TypeInit, TypeStep, PTL DEF Spec
<1>2. TypeInv => TypeOK
  BY DEF TypeInv
<1>3. QED
  BY <1>1, <1>2, PTL

-----------------------------------------------------------------------------
(* What the verdicts depend on: the types of their variables, and a step    *)
(* that leaves the files, the verdicts and the points that matter alone.    *)
VerdictTyped ==
  /\ created \in 0..MaxFiles
  /\ file \in [Files -> {"absent", "open", "finished", "unfinished"}]
  /\ verdict \in [Files -> {"none", "sent", "dropped", "failed"}]

Quiet ==
  /\ UNCHANGED <<verdict, file, created>>
  /\ holder' \in Reporting <=> holder \in Reporting
  /\ holder = "error" => holder' = "error"

LEMMA QuietKeeps == ASSUME VerdictShape, Quiet PROVE VerdictShape'
  BY DEF VerdictShape, Quiet, Files

(* A call that fails closes at most the writer's file, and is announced.    *)
LEMMA FailVerdict ==
  ASSUME VerdictTyped, VerdictShape, WriterShape, Fail, UNCHANGED <<verdict, created>>,
         holder \notin Reporting
  PROVE  VerdictShape'
<1>1. \A f \in Files : file'[f] = IF f = writer THEN "unfinished" ELSE file[f]
  BY DEF Fail
<1>2. holder' = "error" /\ holder' \notin Reporting
  BY DEF Fail, Reporting
<1>3. \A f \in Files : f = writer => verdict[f] \in {"none", "failed"}
  BY DEF VerdictTyped, VerdictShape, WriterShape, Files
<1>4. QED
  BY <1>1, <1>2, <1>3 DEF VerdictShape, VerdictTyped

(* Only the control points and the calls below touch files and verdicts.    *)
LEMMA VerdictStep ==
  ASSUME TypeInv, TypeInv', VerdictShape, [Next]_vars
  PROVE  VerdictShape'
<1>0. VerdictTyped /\ WriterShape
  BY DEF TypeInv, TypeOK, VerdictTyped
<1> USE DEF Reporting
<1>1. CASE HolderStart \/ Connect \/ Open \/ Retry
  <2>1. Quiet
    BY <1>1 DEF HolderStart, Connect, Open, Retry, TakeStop, engineVars, outcomeVars, Quiet
  <2>2. QED
    BY <2>1, QuietKeeps
<1>2. CASE ReportError
  <2>1. UNCHANGED <<file, created>> /\ holder' = "retry"
    BY <1>2 DEF ReportError, engineVars
  <2>2. \A f \in Files : verdict'[f] = IF file[f] = "unfinished" /\ verdict[f] = "none"
                                       THEN "failed" ELSE verdict[f]
    BY <1>2 DEF ReportError
  <2>3. holder = "error"
    BY <1>2 DEF ReportError
  <2>4. QED
    BY <2>1, <2>2, <2>3 DEF VerdictShape
<1>3. CASE Tick \/ StatusError \/ (\E s \in GameStatus : StatusOk(s)) \/ SessionInfo \/ Resume
  <2>1. CASE Tick
    BY <2>1, QuietKeeps DEF Tick, EngineStop, TakeStop, outcomeVars, Quiet
  <2>2. CASE StatusError
    BY <2>2, QuietKeeps DEF StatusError, EndSession, outcomeVars, Quiet
  <2>3. CASE \E s \in GameStatus : StatusOk(s)
    BY <2>3, QuietKeeps DEF StatusOk, EndSession, outcomeVars, Quiet
  <2>4. CASE SessionInfo
    BY <2>4, QuietKeeps DEF SessionInfo, engineVars, outcomeVars, Quiet
  <2>5. CASE Resume
    BY <2>5, QuietKeeps DEF Resume, engineVars, outcomeVars, Quiet
  <2>6. QED
    BY <1>3, <2>1, <2>2, <2>3, <2>4, <2>5
<1>4. CASE CreateFile
  <2>1. created + 1 \in Files /\ file[created + 1] = "absent"
    <3>1. holder = "create"
      BY <1>4 DEF CreateFile
    <3>2. created + 1 \in 1..MaxFiles
      BY <1>0, <3>1, BoundsAssumption DEF WriterShape, VerdictTyped
    <3>3. QED
      BY <1>0, <3>2 DEF WriterShape, VerdictTyped, Files
  <2>2. UNCHANGED verdict /\ holder \notin Reporting /\ holder # "error"
    BY <1>4 DEF CreateFile, outcomeVars
  <2>3. verdict[created + 1] = "none"
    BY <1>0, <2>1 DEF VerdictShape, VerdictTyped
  <2>4. holder' \notin Reporting
    BY <1>4 DEF CreateFile
  <2>5. \A f \in Files : f # created + 1 => file'[f] = file[f]
    BY <1>0, <1>4 DEF CreateFile, VerdictTyped
  <2>6. file'[created + 1] = "open" \/ holder' = "error"
    BY <1>0, <1>4, <2>1 DEF CreateFile, VerdictTyped
  <2>7. file'[created + 1] \in {"absent", "open", "unfinished"}
    BY <1>0, <1>4, <2>1 DEF CreateFile, VerdictTyped
  <2>8. QED
    BY <2>1, <2>2, <2>3, <2>4, <2>5, <2>6, <2>7 DEF VerdictShape
<1>5. CASE Sample
  <2>1. UNCHANGED <<verdict, created>> /\ holder = "sample"
    BY <1>5 DEF Sample, outcomeVars
  <2>2. CASE Fail
    BY <1>0, <2>1, <2>2, FailVerdict
  <2>3. CASE ~Fail
    BY <1>5, <2>1, <2>3, QuietKeeps DEF Sample, EndSession, Quiet
  <2>4. QED
    BY <2>2, <2>3
<1>6. CASE Flush
  <2>1. UNCHANGED <<verdict, created>> /\ holder = "flush"
    BY <1>6 DEF Flush, outcomeVars
  <2>2. CASE Fail
    BY <1>0, <2>1, <2>2, FailVerdict
  <2>3. CASE ~Fail
    BY <1>6, <2>1, <2>3, QuietKeeps DEF Flush, Quiet
  <2>4. QED
    BY <2>2, <2>3
<1>7. CASE Finish
  <2>1. UNCHANGED <<verdict, created>> /\ holder = "finish"
    BY <1>7 DEF Finish, outcomeVars
  <2>2. CASE Fail
    BY <1>0, <2>1, <2>2, FailVerdict
  <2>3. CASE ~Fail
    <3>1. file' = [file EXCEPT ![writer] = "finished"] /\ holder' = "report"
      BY <1>7, <2>3 DEF Finish
    <3>2. writer = created /\ created \in Files /\ file[created] = "open"
      BY <1>0, <2>1 DEF WriterShape, VerdictTyped, Files
    <3>3. \A f \in Files : file'[f] = IF f = created THEN "finished" ELSE file[f]
      BY <1>0, <3>1, <3>2 DEF VerdictTyped
    <3>4. verdict[created] = "none"
      BY <1>0, <3>2 DEF VerdictShape, VerdictTyped
    <3>5. QED
      BY <2>1, <3>1, <3>2, <3>3, <3>4 DEF VerdictShape
  <2>4. QED
    BY <2>2, <2>3
<1>8. CASE ParseOutcome \/ AnnounceStopping
  <2>1. Quiet
    BY <1>8 DEF ParseOutcome, AnnounceStopping, engineVars, outcomeVars, Quiet
  <2>2. QED
    BY <2>1, QuietKeeps
<1>9. CASE SendOutcome
  <2>1. UNCHANGED <<file, created>> /\ holder = "outcome"
    BY <1>9 DEF SendOutcome, engineVars
  <2>2. created \in Files /\ file[created] = "finished"
    BY <1>0, <2>1 DEF VerdictShape, VerdictTyped, WriterShape, Files
  <2>3. \E v \in {"sent", "dropped"} : verdict' = [verdict EXCEPT ![created] = v]
    BY <1>9 DEF SendOutcome
  <2>4. verdict'[created] \in {"sent", "dropped"}
    BY <1>0, <2>2, <2>3 DEF VerdictTyped
  <2>5. \A f \in Files : f # created => verdict'[f] = verdict[f]
    BY <2>3
  <2>6. holder' \notin Reporting
    BY <1>9 DEF SendOutcome
  <2>7. QED
    BY <2>1, <2>2, <2>4, <2>5, <2>6 DEF VerdictShape
<1>10. CASE Controller \/ DashboardExit \/ Caller \/ UNCHANGED vars
  <2>1. UNCHANGED <<verdict, file, created, holder>>
    <3>1. CASE Controller
      BY <3>1 DEF Controller, Stop, JoinHolder, JoinDashboard, DropController, engineVars,
        outcomeVars
    <3>2. CASE DashboardExit
      BY <3>2 DEF DashboardExit, engineVars, outcomeVars
    <3>3. CASE Caller
      BY <3>3 DEF Caller, RecvStatus, RecvOutcome, DropOutcomeReceiver, engineVars,
        outcomeVars
    <3>4. CASE UNCHANGED vars
      BY <3>4 DEF vars, engineVars, outcomeVars
    <3>5. QED
      BY <1>10, <3>1, <3>2, <3>3, <3>4
  <2>2. QED
    BY <2>1, QuietKeeps DEF Quiet
<1>11. QED
  BY <1>1, <1>2, <1>3, <1>4, <1>5, <1>6, <1>7, <1>8, <1>9, <1>10
    DEF Next, Holder, Terminated

(* Nothing starts the holder or the dashboard again.                        *)
LEMMA JoinStep == ASSUME TypeInv, JoinShape, [Next]_vars PROVE JoinShape'
<1> USE DEF JoinShape
<1>1. CASE Holder
  <2>1. holder # "done" /\ UNCHANGED controller
    BY <1>1 DEF Holder, HolderStart, Connect, Open, Retry, ReportError, Tick, StatusError,
      StatusOk, SessionInfo, CreateFile, Resume, Sample, Flush, Finish, ParseOutcome,
      AnnounceStopping, SendOutcome
  <2>2. QED
    BY <2>1
<1>2. CASE Controller
  BY <1>2 DEF Controller, Stop, JoinHolder, JoinDashboard, DropController
<1>3. CASE DashboardExit
  BY <1>3 DEF DashboardExit
<1>4. CASE Caller \/ UNCHANGED vars
  BY <1>4 DEF Caller, RecvStatus, RecvOutcome, DropOutcomeReceiver, vars
<1>5. QED
  BY <1>1, <1>2, <1>3, <1>4 DEF Next, Terminated

LEMMA Shapes == Spec => [](TypeInv /\ VerdictShape /\ JoinShape)
<1>1. Init => VerdictShape /\ JoinShape
  BY DEF Init, VerdictShape, JoinShape, Files, Reporting
<1>2. TypeInv /\ VerdictShape /\ JoinShape /\ [Next]_vars
        => (TypeInv /\ VerdictShape /\ JoinShape)'
  BY TypeStep, VerdictStep, JoinStep
<1>3. QED
  BY TypeInit, <1>1, <1>2, PTL DEF Spec

(* Between sessions the holder is at no point that may leave a file without *)
(* its verdict.                                                             *)
LEMMA Accounted == ASSUME TypeInv, VerdictShape PROVE ClosedFilesAccounted
<1>1. VerdictTyped /\ WriterShape
  BY DEF TypeInv, TypeOK, VerdictTyped
<1>2. SUFFICES ASSUME holder \in Between
               PROVE  \A f \in Files :
                        /\ file[f] # "open"
                        /\ file[f] = "finished" => verdict[f] \in {"sent", "dropped"}
                        /\ file[f] = "unfinished" => verdict[f] = "failed"
  BY DEF ClosedFilesAccounted
<1>3. holder \notin Engine /\ holder \notin Reporting /\ holder # "error"
  BY <1>2 DEF Between, Engine, Reporting
<1>4. writer = 0
  BY <1>1, <1>3 DEF WriterShape
<1>5. \A f \in Files : file[f] # "open"
  BY <1>1, <1>4 DEF WriterShape, Files
<1>6. \A f \in Files : verdict[f] = "none" => file[f] \notin {"finished", "unfinished"}
  BY <1>3 DEF VerdictShape
<1>7. \A f \in Files : verdict[f] = "failed" => file[f] # "finished"
  BY DEF VerdictShape
<1>8. \A f \in Files : verdict[f] \in {"sent", "dropped"} => file[f] # "unfinished"
  BY DEF VerdictShape
<1>9. \A f \in Files : verdict[f] \in {"none", "sent", "dropped", "failed"}
  BY <1>1 DEF VerdictTyped
<1>10. QED
  BY <1>5, <1>6, <1>7, <1>8, <1>9

(* Between sessions and at the end every file has been accounted for.       *)
THEOREM FilesAccounted == Spec => []ClosedFilesAccounted
<1>1. TypeInv /\ VerdictShape => ClosedFilesAccounted
  BY Accounted
<1>2. QED
  BY Shapes, <1>1, PTL

(* When stop() returns the recording is closed and no thread is left.       *)
THEOREM GracefulStop == Spec => []StopIsGraceful
<1>1. TypeInv /\ VerdictShape => ClosedFilesAccounted
  BY Accounted
<1>2. TypeInv /\ ClosedFilesAccounted /\ JoinShape => StopIsGraceful
  BY DEF TypeInv, TypeOK, ClosedFilesAccounted, Between, JoinShape, StopIsGraceful
<1>3. QED
  BY Shapes, <1>1, <1>2, PTL

-----------------------------------------------------------------------------
(* What an offer can add to the channel.                                    *)
LEMMA OfferAdds ==
  ASSUME StatusTyped, NEW kind \in Kinds, NEW f \in 0..MaxFiles, Offer(kind, f),
         NEW i \in DOMAIN status_ch'
  PROVE  \/ status_ch'[i].kind = kind /\ status_ch'[i].of = f
         \/ i \in DOMAIN status_ch /\ status_ch'[i] = status_ch[i]
<1>1. CASE status_ch' = status_ch
  BY <1>1
<1>2. CASE status_ch' = Append(status_ch, [kind |-> kind, of |-> f])
  BY <1>2 DEF StatusTyped
<1>3. QED
  BY <1>1, <1>2 DEF Offer

LEMMA StatusOf ==
  ASSUME StatusTyped, NEW i \in DOMAIN status_ch PROVE status_ch[i].of \in 0..MaxFiles
<1>1. status_ch[i] \in Status
  BY DEF StatusTyped
<1>2. QED
  BY <1>1 DEF Status

(* Only CreateFile adds a RecordingStarted, and it is of the file created.  *)
NoNewStarted ==
  \A i \in DOMAIN status_ch' : status_ch'[i].kind = "RecordingStarted" =>
    \E j \in DOMAIN status_ch : status_ch[j] = status_ch'[i]

LEMMA OtherOffers ==
  ASSUME StatusTyped, NEW kind \in Kinds \ {"RecordingStarted"}, NEW f \in 0..MaxFiles,
         Offer(kind, f)
  PROVE  NoNewStarted
BY OfferAdds DEF NoNewStarted

LEMMA StartedByCreate ==
  ASSUME TypeInv, [Next]_vars, ~CreateFile
  PROVE  NoNewStarted
<1>0. StatusTyped /\ created \in 0..MaxFiles /\ 0 \in 0..MaxFiles
  BY BoundsAssumption DEF TypeInv, TypeOK, StatusTyped
<1>1. {"Started", "Connected", "Waiting", "Error", "Paused", "Running", "Stopping"}
        \subseteq Kinds \ {"RecordingStarted"}
  BY DEF Kinds
<1>2. CASE UNCHANGED statusVars
  BY <1>2 DEF statusVars, NoNewStarted
<1>3. CASE \E kind \in Kinds \ {"RecordingStarted"}, f \in 0..MaxFiles : Offer(kind, f)
  BY <1>0, <1>3, OtherOffers
<1>4. CASE TakeStop
  BY <1>0, <1>1, <1>3, <1>4 DEF TakeStop
<1>5. CASE RecvStatus
  <2>1. \A i \in DOMAIN status_ch' : i + 1 \in DOMAIN status_ch /\ status_ch'[i] = status_ch[i + 1]
    BY <1>0, <1>5 DEF RecvStatus, StatusTyped
  <2>2. QED
    BY <2>1 DEF NoNewStarted
<1>6. CASE Holder
  <2>1. CASE HolderStart \/ ReportError \/ Resume
    BY <1>0, <1>1, <1>3, <2>1 DEF HolderStart, ReportError, Resume
  <2>2. CASE Connect \/ Retry \/ Tick
    BY <1>2, <1>4, <2>2 DEF Connect, Retry, Tick, EngineStop
  <2>3. CASE Open
    BY <1>0, <1>1, <1>2, <1>3, <2>3 DEF Open
  <2>4. CASE StatusError \/ SessionInfo \/ Sample \/ Flush \/ Finish
    BY <1>2, <2>4 DEF StatusError, SessionInfo, Sample, Flush, Finish
  <2>5. CASE \E s \in GameStatus : StatusOk(s)
    BY <1>0, <1>1, <1>2, <1>3, <2>5 DEF StatusOk
  <2>6. CASE ParseOutcome \/ AnnounceStopping \/ SendOutcome
    BY <1>0, <1>1, <1>2, <1>3, <2>6 DEF ParseOutcome, AnnounceStopping, SendOutcome
  <2>7. QED
    BY <1>6, <2>1, <2>2, <2>3, <2>4, <2>5, <2>6 DEF Holder
<1>7. CASE Controller \/ DashboardExit \/ RecvOutcome \/ DropOutcomeReceiver \/ UNCHANGED vars
  BY <1>2, <1>7 DEF Controller, Stop, JoinHolder, JoinDashboard, DropController,
    DashboardExit, RecvOutcome, DropOutcomeReceiver, vars
<1>8. QED
  BY <1>5, <1>6, <1>7 DEF Next, Caller, Terminated

LEMMA MetaStep == ASSUME TypeInv, TypeInv', MetaShape, [Next]_vars PROVE MetaShape'
<1>0. /\ session_meta \in 0..MaxFiles /\ created \in 0..MaxFiles /\ MaxFiles \in Nat
      /\ session_meta' \in 0..MaxFiles /\ created' \in 0..MaxFiles
      /\ StatusTyped
  BY BoundsAssumption DEF TypeInv, TypeOK, StatusTyped
<1>1. CASE SessionInfo
  <2>1. /\ created' = created
        /\ \/ StoreMetadata
           \/ session_meta' = session_meta /\ holder' = "error"
    BY <1>1 DEF SessionInfo, engineVars
  <2>2. status_ch' = status_ch
    BY <1>1 DEF SessionInfo, statusVars
  <2>3. QED
    BY <1>0, <2>1, <2>2 DEF MetaShape, StoreMetadata
<1>2. CASE CreateFile
  <2>1. /\ session_meta' = session_meta /\ created < session_meta /\ holder' # "create"
        /\ created' = created + 1 \/ created' = created
    BY <1>2 DEF CreateFile, MetaShape
  <2>2. CASE UNCHANGED statusVars
    BY <1>0, <2>1, <2>2, StatusOf DEF MetaShape, statusVars
  <2>3. CASE Offer("RecordingStarted", created + 1) /\ created' = created + 1
    <3>1. "RecordingStarted" \in Kinds /\ created + 1 \in 0..MaxFiles
      BY <1>0, <2>3 DEF Kinds
    <3>2. \A i \in DOMAIN status_ch' : \/ status_ch'[i].of = created + 1
                                       \/ i \in DOMAIN status_ch /\ status_ch'[i] = status_ch[i]
      BY <1>0, <2>3, <3>1, OfferAdds
    <3>3. QED
      BY <1>0, <2>1, <2>3, <3>2, StatusOf DEF MetaShape
  <2>4. QED
    BY <1>2, <2>2, <2>3 DEF CreateFile
<1>3. CASE ~SessionInfo /\ ~CreateFile
  <2>1. session_meta' = session_meta /\ created' = created /\ (holder' = "create" => holder = "create")
    <3>1. CASE Holder
      BY <1>3, <3>1 DEF Holder, HolderStart, Connect, Open, Retry, ReportError, Tick,
        EngineStop, TakeStop, StatusError, EndSession, StatusOk, Resume, Sample, Fail, Flush,
        Finish, ParseOutcome, AnnounceStopping, SendOutcome, engineVars
    <3>2. CASE ~Holder
      BY <3>2 DEF Next, Controller, Stop, JoinHolder, JoinDashboard, DropController,
        DashboardExit, Caller, RecvStatus, RecvOutcome, DropOutcomeReceiver, Terminated,
        vars, engineVars
    <3>3. QED
      BY <3>1, <3>2
  <2>2. NoNewStarted
    BY <1>3, StartedByCreate
  <2>3. QED
    BY <1>0, <2>1, <2>2 DEF MetaShape, NoNewStarted
<1>4. QED
  BY <1>1, <1>2, <1>3

(* By the time a RecordingStarted can be read, its metadata is published.   *)
THEOREM MetadataFirst == Spec => []MetadataBeforeStarted
<1>1. Init => MetaShape
  BY DEF Init, MetaShape
<1>2. TypeInv /\ MetaShape /\ [Next]_vars => (TypeInv /\ MetaShape)'
  BY TypeStep, MetaStep
<1>3. TypeInv /\ MetaShape => MetadataBeforeStarted
  <2>1. TypeInv => StatusTyped /\ session_meta \in Nat /\ created \in Nat
    BY DEF TypeInv, TypeOK, StatusTyped
  <2>2. QED
    BY <2>1, StatusOf DEF MetaShape, MetadataBeforeStarted
<1>4. QED
  BY TypeInit, <1>1, <1>2, <1>3, PTL DEF Spec

-----------------------------------------------------------------------------
(* The queue of outcomes is touched by send and receive alone.              *)
LEMMA OutcomeStep ==
  ASSUME TypeInv, VerdictShape, OutcomeShape, [Next]_vars
  PROVE  OutcomeShape'
<1>0. /\ outcome_ch \in Seq(Files) /\ received \in 0..MaxFiles /\ created \in 0..MaxFiles
      /\ verdict \in [Files -> {"none", "sent", "dropped", "failed"}]
  BY DEF TypeInv, TypeOK
<1>1. CASE SendOutcome
  <2>1. /\ received' = received /\ created \in Files
        /\ verdict[created] = "none" /\ file[created] = "finished"
    BY <1>1 DEF SendOutcome, TypeInv, TypeOK, WriterShape, VerdictShape, Reporting, Files
  <2>2. \A f \in Files : verdict[f] = "sent" => f < created
    BY <2>1 DEF TypeInv, TypeOK, WriterShape, VerdictShape, Files
  <2>3. CASE OutcomeFits /\ verdict' = [verdict EXCEPT ![created] = "sent"]
    <3>1. /\ outcome_ch' = Append(outcome_ch, created)
          /\ Len(outcome_ch') = Len(outcome_ch) + 1
          /\ \A i \in 1..Len(outcome_ch) : outcome_ch'[i] = outcome_ch[i]
          /\ outcome_ch'[Len(outcome_ch) + 1] = created
          /\ DOMAIN outcome_ch' = 1..(Len(outcome_ch) + 1)
      BY <1>0, <2>1, <2>3 DEF OutcomeFits
    <3>2. \A f \in Files : verdict'[f] = IF f = created THEN "sent" ELSE verdict[f]
      BY <1>0, <2>3
    <3>3. \A i \in DOMAIN outcome_ch : outcome_ch[i] \in Files /\ outcome_ch[i] < created
      BY <1>0, <2>2 DEF OutcomeShape
    <3>4. received < created
      BY <1>0, <2>1, <2>2 DEF OutcomeShape, Files
    <3>5. \A i \in DOMAIN outcome_ch' : verdict'[outcome_ch'[i]] = "sent"
      <4>1. \A i \in 1..Len(outcome_ch) : verdict'[outcome_ch[i]] = "sent"
        BY <1>0, <3>2, <3>3 DEF OutcomeShape
      <4>2. verdict'[created] = "sent"
        BY <2>1, <3>2
      <4>3. \A i \in DOMAIN outcome_ch' : i \in 1..Len(outcome_ch) \/ i = Len(outcome_ch) + 1
        BY <1>0, <3>1
      <4>4. QED
        BY <3>1, <4>1, <4>2, <4>3
    <3>6. received' # 0 => verdict'[received'] = "sent"
      BY <1>0, <2>1, <3>2 DEF OutcomeShape, Files
    <3>7. \A i, j \in DOMAIN outcome_ch' : i < j => outcome_ch'[i] < outcome_ch'[j]
      BY <1>0, <3>1, <3>3 DEF OutcomeShape, OutcomesInOrder
    <3>8. \A i \in DOMAIN outcome_ch' : received' < outcome_ch'[i]
      BY <1>0, <2>1, <3>1, <3>4 DEF OutcomeShape, OutcomesInOrder
    <3>9. \A f \in Files : verdict'[f] = "sent" =>
             f <= received' \/ \E i \in DOMAIN outcome_ch' : outcome_ch'[i] = f
      <4>1. SUFFICES ASSUME NEW f \in Files, verdict'[f] = "sent", ~(f <= received')
                     PROVE  \E i \in DOMAIN outcome_ch' : outcome_ch'[i] = f
        OBVIOUS
      <4>2. CASE f = created
        BY <1>0, <3>1, <4>2
      <4>3. CASE f # created
        <5>1. PICK i \in DOMAIN outcome_ch : outcome_ch[i] = f
          BY <2>1, <3>2, <4>1, <4>3 DEF OutcomeShape, OutcomesInOrder
        <5>2. i \in DOMAIN outcome_ch' /\ outcome_ch'[i] = f
          BY <1>0, <3>1, <5>1
        <5>3. QED
          BY <5>2
      <4>4. QED
        BY <4>2, <4>3
    <3>10. QED
      BY <3>5, <3>6, <3>7, <3>8, <3>9 DEF OutcomeShape, OutcomesInOrder
  <2>4. CASE outcome_ch' = outcome_ch /\ verdict' = [verdict EXCEPT ![created] = "dropped"]
    <3>1. \A f \in Files : verdict'[f] = IF f = created THEN "dropped" ELSE verdict[f]
      BY <1>0, <2>4
    <3>2. \A i \in DOMAIN outcome_ch : outcome_ch[i] \in Files
      BY <1>0
    <3>3. QED
      BY <1>0, <2>1, <2>4, <3>1, <3>2 DEF OutcomeShape, OutcomesInOrder, Files
  <2>5. QED
    BY <1>1, <2>3, <2>4 DEF SendOutcome
<1>2. CASE RecvOutcome
  <2>1. /\ received' = outcome_ch[1] /\ verdict' = verdict
        /\ 1 \in DOMAIN outcome_ch
        /\ \A i \in DOMAIN outcome_ch' : i + 1 \in DOMAIN outcome_ch
                                         /\ outcome_ch'[i] = outcome_ch[i + 1]
        /\ \A i \in DOMAIN outcome_ch : i # 1 =>
             \E j \in DOMAIN outcome_ch' : j + 1 = i /\ outcome_ch'[j] = outcome_ch[i]
    <3>1. outcome_ch # << >> /\ outcome_ch' = Tail(outcome_ch) /\ received' = Head(outcome_ch)
      BY <1>2 DEF RecvOutcome
    <3>2. /\ Len(outcome_ch') = Len(outcome_ch) - 1
          /\ DOMAIN outcome_ch' = 1..(Len(outcome_ch) - 1)
          /\ \A i \in 1..(Len(outcome_ch) - 1) : outcome_ch'[i] = outcome_ch[i + 1]
      BY <1>0, <3>1
    <3>3. \A i \in DOMAIN outcome_ch : i # 1 =>
             i - 1 \in DOMAIN outcome_ch' /\ outcome_ch'[i - 1] = outcome_ch[i]
      BY <1>0, <3>2
    <3>4. \A i \in DOMAIN outcome_ch : i - 1 + 1 = i
      BY <1>0
    <3>5. QED
      BY <1>0, <1>2, <3>1, <3>2, <3>3, <3>4 DEF RecvOutcome
  <2>2. \A i \in DOMAIN outcome_ch : outcome_ch[i] \in Nat
    <3>1. Files \subseteq Nat
      BY BoundsAssumption DEF Files
    <3>2. \A i \in DOMAIN outcome_ch : outcome_ch[i] \in Files
      BY <1>0
    <3>3. QED
      BY <3>1, <3>2
  <2>3. \A i, j \in DOMAIN outcome_ch' : i < j => outcome_ch'[i] < outcome_ch'[j]
    <3>1. SUFFICES ASSUME NEW i \in DOMAIN outcome_ch', NEW j \in DOMAIN outcome_ch', i < j
                   PROVE  outcome_ch[i + 1] < outcome_ch[j + 1]
      BY <2>1
    <3>2. DOMAIN outcome_ch' \subseteq Nat
      BY <1>2, <1>0 DEF RecvOutcome
    <3>3. i + 1 < j + 1
      BY <3>1, <3>2
    <3>4. QED
      BY <2>1, <3>3 DEF OutcomeShape, OutcomesInOrder
  <2>4. \A i \in DOMAIN outcome_ch' : received' < outcome_ch'[i]
    BY <1>0, <2>1 DEF OutcomeShape, OutcomesInOrder
  <2>5. \A f \in Files : verdict'[f] = "sent" =>
           f <= received' \/ \E i \in DOMAIN outcome_ch' : outcome_ch'[i] = f
    <3>1. SUFFICES ASSUME NEW f \in Files, verdict[f] = "sent"
                   PROVE  f <= received' \/ \E i \in DOMAIN outcome_ch' : outcome_ch'[i] = f
      BY <2>1
    <3>2. CASE f <= received
      BY <1>0, <2>1, <2>2, <3>2 DEF OutcomeShape, OutcomesInOrder, Files
    <3>3. CASE \E i \in DOMAIN outcome_ch : outcome_ch[i] = f
      BY <2>1, <2>2, <3>3
    <3>4. QED
      BY <3>1, <3>2, <3>3 DEF OutcomeShape, OutcomesInOrder
  <2>6. QED
    BY <2>1, <2>3, <2>4, <2>5 DEF OutcomeShape, OutcomesInOrder
<1>3. CASE ReportError
  <2>1. outcome_ch' = outcome_ch /\ received' = received
    BY <1>3 DEF ReportError
  <2>2. \A f \in Files : verdict[f] = "sent" <=> verdict'[f] = "sent"
    BY <1>0, <1>3 DEF ReportError
  <2>3. \A i \in DOMAIN outcome_ch : outcome_ch[i] \in Files
    BY <1>0
  <2>4. QED
    BY <1>0, <2>1, <2>2, <2>3 DEF OutcomeShape, OutcomesInOrder, Files
<1>4. CASE UNCHANGED <<verdict, outcome_ch, received>>
  BY <1>4 DEF OutcomeShape, OutcomesInOrder
<1>5. CASE Holder /\ ~SendOutcome /\ ~ReportError
  BY <1>4, <1>5 DEF Holder, HolderStart, Connect, Open, Retry, Tick, StatusError, StatusOk,
    SessionInfo, CreateFile, Resume, Sample, Flush, Finish, ParseOutcome, AnnounceStopping,
    outcomeVars
<1>6. CASE ~Holder /\ ~RecvOutcome
  BY <1>4, <1>6 DEF Next, Controller, Stop, JoinHolder, JoinDashboard, DropController,
    DashboardExit, Caller, RecvStatus, DropOutcomeReceiver, Terminated, vars, outcomeVars
<1>7. QED
  BY <1>1, <1>2, <1>3, <1>5, <1>6

(* Outcomes are read in the order of the sessions, once, and none is lost   *)
(* in the queue.                                                            *)
THEOREM OutcomeOrder == Spec => []OutcomesInOrder
<1>1. Init => OutcomeShape
  BY DEF Init, OutcomeShape, OutcomesInOrder, Files
<1>2. TypeInv /\ VerdictShape /\ JoinShape /\ OutcomeShape /\ [Next]_vars => OutcomeShape'
  BY OutcomeStep
<1>3. OutcomeShape => OutcomesInOrder
  BY DEF OutcomeShape
<1>4. QED
  BY Shapes, <1>1, <1>2, <1>3, PTL DEF Spec

-----------------------------------------------------------------------------
(* The engine knows of every pause it announced until it announces the end. *)
LEMMA PauseStep == ASSUME TypeInv, PauseShape, [Next]_vars PROVE PauseShape'
<1> USE DEF PauseShape, TypeInv, WriterShape, Engine, Offer, engineVars, statusVars
<1>1. CASE Holder
  <2>1. CASE HolderStart \/ Connect \/ Open \/ Retry \/ ReportError
    BY <1>1, <2>1 DEF HolderStart, Connect, Open, Retry, ReportError, TakeStop
  <2>2. CASE Tick
    BY <2>2 DEF Tick, EngineStop, TakeStop
  <2>3. CASE StatusError
    BY <2>3 DEF StatusError, EndSession
  <2>4. CASE \E s \in GameStatus : StatusOk(s)
    BY <2>4 DEF StatusOk, EndSession, ResumedFromPause
  <2>5. CASE SessionInfo \/ CreateFile \/ Resume
    BY <2>5 DEF SessionInfo, CreateFile, Resume
  <2>6. CASE Sample \/ Flush \/ Finish
    BY <2>6 DEF Sample, Flush, Finish, Fail, EndSession
  <2>7. CASE ParseOutcome \/ AnnounceStopping \/ SendOutcome
    BY <2>7 DEF ParseOutcome, AnnounceStopping, SendOutcome
  <2>8. QED
    BY <1>1, <2>1, <2>2, <2>3, <2>4, <2>5, <2>6, <2>7 DEF Holder
<1>2. CASE ~Holder
  <2>1. UNCHANGED <<holder, announced, writer, last_status>>
    BY <1>2 DEF Next, Controller, Stop, JoinHolder, JoinDashboard, DropController,
      DashboardExit, Caller, RecvStatus, RecvOutcome, DropOutcomeReceiver, Terminated, vars
  <2>2. QED
    BY <2>1
<1>3. QED
  BY <1>1, <1>2

(* No frame is written between Paused and Running.                          *)
THEOREM PausedMeansSuspended == Spec => NoFrameWhilePaused
<1>1. Init => PauseShape
  BY DEF Init, PauseShape
<1>2. TypeInv /\ PauseShape /\ [Next]_vars => (TypeInv /\ PauseShape)'
  BY TypeStep, PauseStep
<1>3. TypeInv /\ PauseShape /\ [Next]_vars => [announced = "Paused" => UNCHANGED frames]_vars
  <2>1. SUFFICES ASSUME PauseShape, Next, announced = "Paused" PROVE UNCHANGED frames
    OBVIOUS
  <2>2. CASE Holder
    BY <2>1, <2>2 DEF PauseShape, Holder, HolderStart, Connect, Open, Retry, ReportError, Tick,
      StatusError, StatusOk, SessionInfo, CreateFile, Resume, Sample, Flush, Finish,
      ParseOutcome, AnnounceStopping, SendOutcome, engineVars
  <2>3. CASE ~Holder
    BY <2>1, <2>3 DEF Next, Controller, Stop, JoinHolder, JoinDashboard, DropController,
      DashboardExit, Caller, RecvStatus, RecvOutcome, DropOutcomeReceiver, Terminated, vars,
      engineVars
  <2>4. QED
    BY <2>2, <2>3
<1>4. QED
  BY TypeInit, <1>1, <1>2, <1>3, PTL DEF Spec, NoFrameWhilePaused

-----------------------------------------------------------------------------
(* The refinement.  What a step does to the ledger depends on the files,    *)
(* the verdicts, the counters and on whether the last word was Paused.      *)

(* Of the files without a verdict, only the last can be unfinished. *)
LedgerShape ==
  \A f \in Files : file[f] = "unfinished" /\ verdict[f] = "none" => f = created

LEMMA LedgerShapeStep ==
  ASSUME TypeInv, VerdictShape, LedgerShape, [Next]_vars PROVE LedgerShape'
<1>0. VerdictTyped /\ WriterShape
  BY DEF TypeInv, TypeOK, VerdictTyped
<1>1. CASE Fail /\ UNCHANGED <<verdict, created>> /\ holder \in Engine
  <2>1. \A f \in Files : file'[f] = IF f = writer THEN "unfinished" ELSE file[f]
    BY <1>1 DEF Fail
  <2>2. \A f \in Files : f = writer => f = created
    BY <1>0, BoundsAssumption DEF WriterShape, Files
  <2>3. QED
    BY <1>1, <2>1, <2>2 DEF LedgerShape
<1>2. CASE CreateFile
  <2>1. \A f \in Files : f # created + 1 => file'[f] = file[f]
    BY <1>0, <1>2 DEF CreateFile, VerdictTyped
  <2>2. \A f \in Files : ~(file[f] = "unfinished" /\ verdict[f] = "none")
    BY <1>2 DEF CreateFile, VerdictShape
  <2>3. file' = file \/ created' = created + 1
    BY <1>2 DEF CreateFile
  <2>4. UNCHANGED verdict
    BY <1>2 DEF CreateFile, outcomeVars
  <2>5. QED
    BY <2>1, <2>2, <2>3, <2>4 DEF LedgerShape
<1>3. CASE Finish /\ ~Fail
  <2>1. file' = [file EXCEPT ![writer] = "finished"] /\ UNCHANGED <<verdict, created>>
    BY <1>3 DEF Finish, outcomeVars
  <2>2. \A f \in Files : file'[f] = "unfinished" => file[f] = "unfinished"
    BY <1>0, <2>1 DEF VerdictTyped
  <2>3. QED
    BY <2>1, <2>2 DEF LedgerShape
<1>4. CASE ReportError
  BY <1>4 DEF ReportError, engineVars, LedgerShape
<1>5. CASE SendOutcome
  BY <1>0, <1>5 DEF SendOutcome, engineVars, LedgerShape, VerdictTyped
<1>6. CASE UNCHANGED <<file, verdict, created>>
  BY <1>6 DEF LedgerShape
<1>7. CASE Holder /\ ~CreateFile /\ ~Finish /\ ~ReportError /\ ~SendOutcome
  BY <1>1, <1>6, <1>7 DEF Holder, HolderStart, Connect, Open, Retry, Tick, StatusError, StatusOk,
    SessionInfo, Resume, Sample, Flush, ParseOutcome, AnnounceStopping, engineVars, outcomeVars,
    Engine
<1>8. CASE Finish /\ Fail
  BY <1>1, <1>8 DEF Finish, outcomeVars, Engine
<1>9. CASE ~Holder
  BY <1>6, <1>9 DEF Next, Controller, Stop, JoinHolder, JoinDashboard, DropController,
    DashboardExit, Caller, RecvStatus, RecvOutcome, DropOutcomeReceiver, Terminated, vars,
    engineVars, outcomeVars
<1>10. QED
  BY <1>2, <1>3, <1>4, <1>5, <1>7, <1>8, <1>9 DEF Holder

(* The state of one session, read off its verdict, its file and the last    *)
(* status.                                                                  *)
LEMMA SessionIs ==
  ASSUME NEW f \in Files
  PROVE  /\ verdict[f] # "none" => SessionState[f] = verdict[f]
         /\ verdict[f] = "none" /\ file[f] = "absent" => SessionState[f] = "absent"
         /\ verdict[f] = "none" /\ file[f] \notin {"absent", "open"} => SessionState[f] = "closing"
         /\ verdict[f] = "none" /\ file[f] = "open" =>
              SessionState[f] = IF announced = "Paused" THEN "paused" ELSE "recording"
BY DEF SessionState

LEMMA SessionWillBe ==
  ASSUME NEW f \in Files
  PROVE  /\ verdict'[f] # "none" => SessionState'[f] = verdict'[f]
         /\ verdict'[f] = "none" /\ file'[f] = "absent" => SessionState'[f] = "absent"
         /\ verdict'[f] = "none" /\ file'[f] \notin {"absent", "open"} => SessionState'[f] = "closing"
         /\ verdict'[f] = "none" /\ file'[f] = "open" =>
              SessionState'[f] = IF announced' = "Paused" THEN "paused" ELSE "recording"
BY DEF SessionState

(* A session whose file and verdict are left alone is in the state it was,   *)
(* unless its file is open and the last status has changed.                 *)
LEMMA SessionKept ==
  ASSUME NEW f \in Files, file'[f] = file[f], verdict'[f] = verdict[f],
         file[f] = "open" /\ verdict[f] = "none" =>
           (announced' = "Paused" <=> announced = "Paused")
  PROVE  SessionState'[f] = SessionState[f]
BY DEF SessionState

LEMMA SessionsKept ==
  ASSUME \A f \in Files : SessionState'[f] = SessionState[f]
  PROVE  SessionState' = SessionState
BY DEF SessionState

(* Only one session moves.                                                  *)
LEMMA SessionMoves ==
  ASSUME NEW f \in Files, NEW state, SessionState'[f] = state,
         \A g \in Files \ {f} : SessionState'[g] = SessionState[g]
  PROVE  Ledger!Move(f, state)
<1>1. /\ SessionState = [g \in Files |-> SessionState[g]]
      /\ SessionState' = [g \in Files |-> SessionState'[g]]
  BY DEF SessionState
<1>2. QED
  BY <1>1 DEF Ledger!Move

(* A step that leaves files, verdicts and frames alone, and says nothing of *)
(* a pause while a file is open, is a stutter or the end of the service.    *)
LedgerQuiet ==
  /\ UNCHANGED <<file, verdict, frames>>
  /\ writer = 0 \/ UNCHANGED announced
  /\ UNCHANGED (holder # "done") \/ (holder' = "done" /\ holder \in {"connect", "retry", "tick"} /\ writer = 0)

LEMMA QuietIsStutter ==
  ASSUME VerdictTyped, WriterShape, VerdictShape, LedgerQuiet
  PROVE  [Ledger!Next]_(Ledger!vars)
<1>1. \A f \in Files : SessionState'[f] = SessionState[f]
  BY SessionKept DEF LedgerQuiet, WriterShape, Files
<1>2. SessionState' = SessionState
  BY <1>1, SessionsKept
<1>3. CASE UNCHANGED (holder # "done")
  BY <1>2, <1>3 DEF LedgerQuiet, Ledger!vars
<1>4. CASE holder' = "done" /\ holder \in {"connect", "retry", "tick"} /\ writer = 0
  <2>1. \A f \in Files : SessionState[f] \in Ledger!Over
    <3>1. SUFFICES ASSUME NEW f \in Files PROVE SessionState[f] \in Ledger!Over
      OBVIOUS
    <3>2. file[f] # "open" /\ (file[f] # "absent" => verdict[f] # "none")
      BY <1>4 DEF WriterShape, VerdictShape, VerdictTyped, Files, Reporting
    <3>3. verdict[f] \in {"none", "sent", "dropped", "failed"}
      BY DEF VerdictTyped
    <3>4. QED
      BY <3>2, <3>3, SessionIs DEF Ledger!Over, Ledger!Verdicts
  <2>2. Ledger!GoDown
    BY <1>2, <1>4, <2>1 DEF LedgerQuiet, Ledger!GoDown
  <2>3. QED
    BY <2>2 DEF Ledger!Next
<1>5. QED
  BY <1>3, <1>4 DEF LedgerQuiet

(* The engine gives up or finishes the open file: the session closes.       *)
LEMMA ClosesSession ==
  ASSUME VerdictTyped, WriterShape, VerdictShape,
         writer # 0, writer \in Files, UNCHANGED <<verdict, frames>>, holder # "done", holder' # "done",
         NEW state \in {"finished", "unfinished"},
         \A f \in Files : file'[f] = IF f = writer THEN state ELSE file[f]
  PROVE  Ledger!Close(writer)
<1>1. file[writer] = "open" /\ verdict[writer] = "none"
  BY DEF WriterShape, VerdictShape, VerdictTyped
<1>2. SessionState[writer] \in {"recording", "paused"}
  BY <1>1, SessionIs
<1>3. SessionState'[writer] = "closing"
  BY <1>1, SessionWillBe
<1>4. \A g \in Files \ {writer} : SessionState'[g] = SessionState[g]
  BY SessionKept DEF WriterShape
<1>5. Ledger!Move(writer, "closing")
  BY <1>3, <1>4, SessionMoves
<1>6. QED
  BY <1>2, <1>5 DEF Ledger!Close

(* A new file: the session before it has its verdict, those after it do not *)
(* exist yet.                                                               *)
LEMMA BeginsSession ==
  ASSUME TypeInv, VerdictShape, CreateFile PROVE [Ledger!Next]_(Ledger!vars)
<1>0. VerdictTyped /\ WriterShape
  BY DEF TypeInv, TypeOK, VerdictTyped
<1>1. /\ holder = "create" /\ holder' \in {"resume", "sample", "error"}
      /\ UNCHANGED <<verdict, frames>>
  BY DEF CreateFile, outcomeVars
<1>2. writer = 0 /\ created + 1 \in Files
  BY <1>0, <1>1, BoundsAssumption DEF WriterShape, VerdictTyped, Engine, Files
<1>3. \A f \in Files : /\ f <= created => SessionState[f] \in Ledger!Verdicts
                       /\ f > created => SessionState[f] = "absent" /\ verdict[f] = "none"
  <2>1. SUFFICES ASSUME NEW f \in Files
                 PROVE  /\ f <= created => SessionState[f] \in Ledger!Verdicts
                        /\ f > created => SessionState[f] = "absent" /\ verdict[f] = "none"
    OBVIOUS
  <2>2. /\ file[f] = "absent" <=> f > created
        /\ file[f] # "open"
        /\ file[f] # "absent" => verdict[f] # "none"
        /\ file[f] = "absent" => verdict[f] = "none"
        /\ verdict[f] \in {"none", "sent", "dropped", "failed"}
    BY <1>0, <1>1, <1>2 DEF WriterShape, VerdictShape, VerdictTyped, Files, Reporting
  <2>3. f \in Nat /\ created \in Nat
    BY <1>0 DEF Files, VerdictTyped
  <2>4. QED
    BY <2>2, <2>3, SessionIs DEF Ledger!Verdicts
<1>4. CASE file' = file
  <2>1. LedgerQuiet
    BY <1>1, <1>2, <1>4 DEF LedgerQuiet
  <2>2. QED
    BY <1>0, <2>1, QuietIsStutter
<1>5. ASSUME NEW state \in {"open", "unfinished"}, file' = [file EXCEPT ![created + 1] = state],
             state = "open" => announced' = "RecordingStarted"
      PROVE  Ledger!Begin(created + 1)
  <2>1. \A f \in Files : file'[f] = IF f = created + 1 THEN state ELSE file[f]
    BY <1>0, <1>5 DEF VerdictTyped
  <2>2. SessionState'[created + 1] \in {"recording", "closing"}
    <3>1. verdict'[created + 1] = "none" /\ file'[created + 1] = state
      BY <1>0, <1>1, <1>2, <1>3, <2>1 DEF VerdictTyped
    <3>2. QED
      BY <1>2, <1>5, <3>1, SessionWillBe
  <2>3. \A g \in Files \ {created + 1} : SessionState'[g] = SessionState[g]
    BY <1>0, <1>1, <1>2, <2>1, SessionKept DEF WriterShape, Files
  <2>4. Ledger!Move(created + 1, SessionState'[created + 1])
    BY <1>2, <2>3, SessionMoves
  <2>5. \A t \in Files : IF t < created + 1 THEN SessionState[t] \in Ledger!Verdicts
                                            ELSE SessionState[t] = "absent"
    BY <1>0, <1>3 DEF VerdictTyped, Files
  <2>6. SessionState[created + 1] = "absent"
    BY <1>0, <1>2, <1>3 DEF VerdictTyped
  <2>7. QED
    BY <1>1, <2>2, <2>4, <2>5, <2>6 DEF Ledger!Begin
<1>6. file' = file \/ \E state \in {"open", "unfinished"} :
        file' = [file EXCEPT ![created + 1] = state] /\ (state = "open" => announced' = "RecordingStarted")
  BY DEF CreateFile, Offer
<1>7. CASE file' # file
  <2>1. Ledger!Begin(created + 1)
    BY <1>5, <1>6, <1>7
  <2>2. QED
    BY <1>2, <2>1 DEF Ledger!Next
<1>8. QED
  BY <1>4, <1>7

(* The verdict on the session that is closing.                              *)
LEMMA ConcludesSession ==
  ASSUME VerdictTyped, NEW f \in Files, verdict[f] = "none", file[f] \in {"finished", "unfinished"},
         NEW v \in {"sent", "dropped", "failed"},
         \A g \in Files : verdict'[g] = IF g = f THEN v ELSE verdict[g],
         UNCHANGED <<file, frames>>,
         \A g \in Files : file[g] = "open" => UNCHANGED announced,
         holder # "done"
  PROVE  Ledger!Conclude(f)
<1>1. SessionState[f] = "closing"
  BY SessionIs
<1>2. SessionState'[f] = v
  BY SessionWillBe
<1>3. \A g \in Files \ {f} : SessionState'[g] = SessionState[g]
  BY SessionKept
<1>4. Ledger!Move(f, v)
  BY <1>2, <1>3, SessionMoves
<1>5. (holder' # "done") \in {holder # "done", FALSE}
  OBVIOUS
<1>6. v \in Ledger!Verdicts
  BY DEF Ledger!Verdicts
<1>7. QED
  BY <1>1, <1>4, <1>5, <1>6 DEF Ledger!Conclude

(* A word on the pause while a file is open.                                *)
LEMMA PausesSession ==
  ASSUME VerdictTyped, WriterShape, VerdictShape, writer \in Files,
         UNCHANGED <<file, verdict, frames>>, holder # "done", holder' # "done"
  PROVE  [Ledger!Next]_(Ledger!vars)
<1>1. file[writer] = "open" /\ verdict[writer] = "none"
  BY DEF WriterShape, VerdictShape, VerdictTyped
<1>2. \A g \in Files \ {writer} : SessionState'[g] = SessionState[g]
  BY SessionKept DEF WriterShape
<1>3. CASE announced = "Paused" <=> announced' = "Paused"
  <2>1. SessionState'[writer] = SessionState[writer]
    BY <1>3, SessionKept
  <2>2. SessionState' = SessionState
    BY <1>2, <2>1, SessionsKept
  <2>3. QED
    BY <2>2 DEF Ledger!vars
<1>4. CASE announced # "Paused" /\ announced' = "Paused"
  <2>1. SessionState[writer] = "recording" /\ SessionState'[writer] = "paused"
    BY <1>1, <1>4, SessionIs, SessionWillBe
  <2>2. Ledger!Move(writer, "paused")
    BY <1>2, <2>1, SessionMoves
  <2>3. Ledger!Pause(writer)
    BY <2>1, <2>2 DEF Ledger!Pause
  <2>4. QED
    BY <2>3 DEF Ledger!Next
<1>5. CASE announced = "Paused" /\ announced' # "Paused"
  <2>1. SessionState[writer] = "paused" /\ SessionState'[writer] = "recording"
    BY <1>1, <1>5, SessionIs, SessionWillBe
  <2>2. Ledger!Move(writer, "recording")
    BY <1>2, <2>1, SessionMoves
  <2>3. Ledger!Continue(writer)
    BY <2>1, <2>2 DEF Ledger!Continue
  <2>4. QED
    BY <2>3 DEF Ledger!Next
<1>6. QED
  BY <1>3, <1>4, <1>5

(* One case per action of the holder; no other actor touches the ledger.    *)
LEMMA LedgerStep ==
  ASSUME TypeInv, VerdictShape, LedgerShape, PauseShape, [Next]_vars
  PROVE  [Ledger!Next]_(Ledger!vars)
<1>0. VerdictTyped /\ WriterShape
  BY DEF TypeInv, TypeOK, VerdictTyped
<1>1. CASE LedgerQuiet
  BY <1>0, <1>1, QuietIsStutter
<1>2. CASE HolderStart \/ Connect \/ Open \/ Retry
  <2>1. writer = 0
    BY <1>0, <1>2 DEF WriterShape, Engine, HolderStart, Connect, Open, Retry
  <2>2. LedgerQuiet
    BY <1>2, <2>1 DEF LedgerQuiet, HolderStart, Connect, Open, Retry, TakeStop, engineVars,
      outcomeVars
  <2>3. QED
    BY <1>1, <2>2
<1>3. CASE Tick
  BY <1>1, <1>3 DEF LedgerQuiet, Tick, EngineStop, TakeStop, statusVars, outcomeVars
<1>4. CASE StatusError \/ SessionInfo
  <2>1. LedgerQuiet
    BY <1>4 DEF LedgerQuiet, StatusError, SessionInfo, EndSession, statusVars, outcomeVars,
      engineVars
  <2>2. QED
    BY <1>1, <2>1
<1>5. CASE Resume \/ \E s \in GameStatus : StatusOk(s)
  <2>1. UNCHANGED <<file, verdict, frames>> /\ holder # "done" /\ holder' # "done"
    BY <1>5 DEF Resume, StatusOk, EndSession, engineVars, outcomeVars
  <2>2. CASE writer = 0
    BY <1>1, <2>1, <2>2 DEF LedgerQuiet
  <2>3. CASE writer # 0
    <3>1. writer \in Files
      BY <1>0, <2>3 DEF WriterShape, VerdictTyped, Files
    <3>2. QED
      BY <1>0, <2>1, <3>1, PausesSession
  <2>4. QED
    BY <2>2, <2>3
<1>6. CASE CreateFile
  BY <1>6, BeginsSession
<1>7. CASE Fail /\ UNCHANGED <<verdict, frames>> /\ writer # 0 /\ holder # "done"
  <2>1. writer \in Files
    BY <1>0, <1>7 DEF WriterShape, VerdictTyped, Files
  <2>2. \A f \in Files : file'[f] = IF f = writer THEN "unfinished" ELSE file[f]
    BY <1>7 DEF Fail
  <2>3. Ledger!Close(writer)
    BY <1>0, <1>7, <2>1, <2>2, ClosesSession DEF Fail
  <2>4. QED
    BY <2>1, <2>3 DEF Ledger!Next
<1>8. CASE Sample
  <2>1. writer # 0 /\ UNCHANGED <<verdict, announced>> /\ holder = "sample" /\ announced # "Paused"
    BY <1>0, <1>8 DEF Sample, WriterShape, statusVars, outcomeVars, PauseShape
  <2>2. writer \in Files
    BY <1>0, <2>1 DEF WriterShape, VerdictTyped, Files
  <2>3. CASE Fail
    BY <1>7, <1>8, <2>1, <2>3 DEF Sample, EndSession, Fail
  <2>4. CASE frames' = [frames EXCEPT ![writer] = @ + 1] /\ holder' = "flush" /\ UNCHANGED file
    <3>1. file[writer] = "open" /\ verdict[writer] = "none"
      BY <1>0, <2>2 DEF WriterShape, VerdictShape, VerdictTyped
    <3>2. SessionState[writer] = "recording"
      BY <2>1, <2>2, <3>1, SessionIs
    <3>3. SessionState' = SessionState
      BY <2>1, <2>4, SessionKept, SessionsKept
    <3>4. Ledger!Record(writer)
      BY <2>1, <2>4, <3>2, <3>3 DEF Ledger!Record
    <3>5. QED
      BY <2>2, <3>4 DEF Ledger!Next
  <2>5. CASE UNCHANGED <<frames, file>> /\ holder' # "done"
    BY <1>1, <2>1, <2>5 DEF LedgerQuiet
  <2>6. QED
    BY <1>8, <2>3, <2>4, <2>5 DEF Sample, EndSession
<1>9. CASE Flush
  BY <1>1, <1>7, <1>9 DEF Flush, LedgerQuiet, statusVars, outcomeVars
<1>10. CASE Finish
  <2>1. writer # 0 /\ UNCHANGED <<verdict, frames>> /\ holder = "finish"
    BY <1>0, <1>10 DEF Finish, WriterShape, outcomeVars
  <2>2. writer \in Files
    BY <1>0, <2>1 DEF WriterShape, VerdictTyped, Files
  <2>3. CASE Fail
    BY <1>7, <2>1, <2>3
  <2>4. CASE file' = [file EXCEPT ![writer] = "finished"] /\ holder' = "report"
    <3>1. \A f \in Files : file'[f] = IF f = writer THEN "finished" ELSE file[f]
      BY <1>0, <2>4 DEF VerdictTyped
    <3>2. Ledger!Close(writer)
      BY <1>0, <2>1, <2>2, <2>4, <3>1, ClosesSession
    <3>3. QED
      BY <2>2, <3>2 DEF Ledger!Next
  <2>5. QED
    BY <1>10, <2>3, <2>4 DEF Finish
<1>11. CASE ParseOutcome \/ AnnounceStopping
  <2>1. writer = 0
    BY <1>0, <1>11 DEF WriterShape, Engine, ParseOutcome, AnnounceStopping
  <2>2. LedgerQuiet
    BY <1>11, <2>1 DEF LedgerQuiet, ParseOutcome, AnnounceStopping, engineVars, outcomeVars
  <2>3. QED
    BY <1>1, <2>2
<1>12. CASE ReportError
  <2>1. /\ UNCHANGED <<file, frames>> /\ holder = "error" /\ holder' = "retry" /\ writer = 0
        /\ verdict' = [f \in Files |-> IF file[f] = "unfinished" /\ verdict[f] = "none"
                                       THEN "failed" ELSE verdict[f]]
    BY <1>0, <1>12 DEF ReportError, WriterShape, Engine, engineVars
  <2>2. \A g \in Files : file[g] # "open"
    BY <1>0, <2>1 DEF WriterShape, Files
  <2>3. CASE \E f \in Files : file[f] = "unfinished" /\ verdict[f] = "none"
    <3>1. PICK f \in Files : file[f] = "unfinished" /\ verdict[f] = "none"
      BY <2>3
    <3>2. \A g \in Files : verdict'[g] = IF g = f THEN "failed" ELSE verdict[g]
      BY <2>1, <3>1 DEF LedgerShape
    <3>3. Ledger!Conclude(f)
      BY <1>0, <2>1, <2>2, <3>1, <3>2, ConcludesSession
    <3>4. QED
      BY <3>3 DEF Ledger!Next
  <2>4. CASE ~ \E f \in Files : file[f] = "unfinished" /\ verdict[f] = "none"
    <3>1. verdict' = verdict
      BY <1>0, <2>1, <2>4 DEF VerdictTyped
    <3>2. QED
      BY <1>1, <2>1, <3>1 DEF LedgerQuiet
  <2>5. QED
    BY <2>3, <2>4
<1>13. CASE SendOutcome
  <2>1. UNCHANGED <<file, frames>> /\ holder = "outcome" /\ writer = 0
    BY <1>0, <1>13 DEF SendOutcome, WriterShape, Engine, engineVars
  <2>2. created \in Files /\ file[created] = "finished" /\ verdict[created] = "none"
    BY <1>0, <2>1 DEF WriterShape, VerdictShape, VerdictTyped, Reporting, Files
  <2>3. PICK v \in {"sent", "dropped"} : verdict' = [verdict EXCEPT ![created] = v]
    BY <1>13 DEF SendOutcome
  <2>4. \A g \in Files : verdict'[g] = IF g = created THEN v ELSE verdict[g]
    BY <1>0, <2>3 DEF VerdictTyped
  <2>5. \A g \in Files : file[g] # "open"
    BY <1>0, <2>1 DEF WriterShape, Files
  <2>6. Ledger!Conclude(created)
    BY <1>0, <2>1, <2>2, <2>4, <2>5, ConcludesSession
  <2>7. QED
    BY <2>2, <2>6 DEF Ledger!Next
<1>14. CASE ~Holder
  <2>1. UNCHANGED <<file, verdict, frames, announced, holder>>
    BY <1>14 DEF Next, Controller, Stop, JoinHolder, JoinDashboard, DropController,
      DashboardExit, Caller, RecvStatus, RecvOutcome, DropOutcomeReceiver, Terminated, vars,
      engineVars, outcomeVars, statusVars
  <2>2. QED
    BY <1>1, <2>1 DEF LedgerQuiet
<1>15. QED
  BY <1>2, <1>3, <1>4, <1>5, <1>6, <1>8, <1>9, <1>10, <1>11, <1>12, <1>13, <1>14 DEF Holder

LEMMA LedgerInit == Init => Ledger!Init
  BY DEF Init, Ledger!Init, SessionState

(* What the service promises its owner, for any number of sessions, any     *)
(* channel capacities and whatever may fail: one session after the other,   *)
(* frames only while it is not paused, one verdict each, and down only       *)
(* between two of them.                                                     *)
THEOREM KeepsTheLedger == Spec => ImplementsLedger
<1>1. Init => LedgerShape /\ PauseShape
  BY DEF Init, LedgerShape, PauseShape
<1>2. TypeInv /\ VerdictShape /\ LedgerShape /\ PauseShape /\ [Next]_vars
        => LedgerShape' /\ PauseShape'
  BY LedgerShapeStep, PauseStep
<1>3. TypeInv /\ VerdictShape /\ LedgerShape /\ PauseShape /\ [Next]_vars
        => [Ledger!Next]_(Ledger!vars)
  BY LedgerStep
<1>4. QED
  BY Shapes, LedgerInit, <1>1, <1>2, <1>3, PTL DEF Spec, ImplementsLedger, Ledger!Spec
=============================================================================
