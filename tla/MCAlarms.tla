------------------------------ MODULE MCAlarms ------------------------------
(***************************************************************************)
(* Alarms with one kind of alarm of outlet A and two sockets.  B has no    *)
(* alarms: its reports differ from A's only in what they leave behind, and *)
(* no property is about that.                                              *)
(***************************************************************************)
EXTENDS Alarms

MCAlarmValues == [o \in Outlets |-> IF o = "A" THEN {{}, {1}} ELSE {{}}]
MCBodies == AllBodies
=============================================================================
