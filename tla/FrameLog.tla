------------------------------ MODULE FrameLog ------------------------------
(***************************************************************************)
(* What a recording file is for: a log of frames.  At every moment a       *)
(* prefix of it has reached the file, and that prefix never shrinks; a     *)
(* reader that comes at that moment sees the prefix, or is refused.  Once  *)
(* the log is sealed every reader sees all of it.                          *)
(***************************************************************************)
EXTENDS Integers, Sequences

CONSTANT Frame

VARIABLES
  log,      \* the frames accepted
  durable,  \* how many of them are in the file
  seen,     \* how many of them a reader is given, or Refused
  sealed    \* "yes" once the file was finished

logVars == <<log, durable, seen, sealed>>

Refused == -1

LogInit == log = << >> /\ durable = 0 /\ seen = Refused /\ sealed = "no"

Accept ==
  /\ sealed = "no"
  /\ \E f \in Frame : log' = Append(log, f)
  /\ UNCHANGED <<durable, seen, sealed>>

Persist ==
  /\ sealed = "no"
  /\ durable' \in durable..Len(log)
  /\ seen' \in {Refused, durable'}
  /\ UNCHANGED <<log, sealed>>

Seal ==
  /\ sealed = "no"
  /\ durable = Len(log) /\ seen = durable
  /\ sealed' = "yes"
  /\ UNCHANGED <<log, durable, seen>>

LogNext == Accept \/ Persist \/ Seal

LogSpec == LogInit /\ [][LogNext]_logVars
=============================================================================
