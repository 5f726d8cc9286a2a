-------------------------- MODULE MCOperationLock --------------------------
(* Small instances of OperationLock for TLC.                               *)
EXTENDS OperationLock, TLC

CONSTANTS worker, heartbeat, command, daemon, doctor

\* A daemon with one project and its heartbeat, and a command beside it.
MCProcessOf == worker :> daemon @@ heartbeat :> daemon @@ command :> doctor
=============================================================================
