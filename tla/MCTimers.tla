------------------------------ MODULE MCTimers ------------------------------
(***************************************************************************)
(* Timers with a week of two days of three minutes each: a timer for one   *)
(* day that repeats, and one for every day that is sent once.              *)
(***************************************************************************)
EXTENDS Timers

Weekly == [at |-> 1, days |-> {1}, repeat |-> TRUE, onoff |-> 1]
Once == [at |-> 0, days |-> {0, 1}, repeat |-> FALSE, onoff |-> 0]
MCTimers == {Weekly, Once}
MCLists == {<<Weekly>>, <<Once, Weekly>>}
=============================================================================
