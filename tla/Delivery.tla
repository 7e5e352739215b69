------------------------------ MODULE Delivery ------------------------------
(***************************************************************************)
(* What a report to the cloud promises its caller: the broker gets the     *)
(* message at most once per call; a call that succeeds has delivered it, a *)
(* call that fails may have, and the caller may be gone before it returns. *)
(***************************************************************************)
VARIABLES
  call,    \* "idle", "busy", and then what it returned: "ok" or "failed"
  got      \* did the broker get this call's message?

vars == <<call, got>>

Init == call = "idle" /\ got = FALSE

Call == call = "idle" /\ call' = "busy" /\ UNCHANGED got

Deliver == call = "busy" /\ ~got /\ got' = TRUE /\ UNCHANGED call

Return ==
  /\ call = "busy"
  /\ \/ got /\ call' = "ok"
     \/ call' = "failed"
  /\ UNCHANGED got

Done == call \in {"ok", "failed"} /\ call' = "idle" /\ got' = FALSE

Abandon == call = "busy" /\ call' = "idle" /\ got' = FALSE

Next == Call \/ Deliver \/ Return \/ Done \/ Abandon

Spec == Init /\ [][Next]_vars
=============================================================================
