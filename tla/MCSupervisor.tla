---------------------------- MODULE MCSupervisor ----------------------------
(***************************************************************************)
(* Supervisor with the values of the code, in seconds.                     *)
(***************************************************************************)
EXTENDS Supervisor
=============================================================================
