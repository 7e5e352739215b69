----------------------------- MODULE Supervisor -----------------------------
(***************************************************************************)
(* uart_start_h of uart_socket.c: the task that watches the other two.     *)
(*                                                                         *)
(* The receive task and HAPNotifyHandle each give a binary semaphore once  *)
(* per round of their loops.  The supervisor sleeps for xDelay, then takes *)
(* the receive task's semaphore and after it HAPNotifyHandle's, each with  *)
(* a time limit of its own; the task whose semaphore does not come in time *)
(* is deleted and created again.  A round of either loop may take any      *)
(* time: select and uart_write in one, a push or a report to the cloud in  *)
(* the other, and it may never end (Hang).                                 *)
(*                                                                         *)
(* Time passes in Ticks, and none passes while the supervisor can go on.   *)
(* Its 20 ms in uart_close and xTaskCreate are below one tick, and memory  *)
(* is taken to suffice for xTaskCreate.                                    *)
(***************************************************************************)
EXTENDS Integers

CONSTANTS
  Delay,      \* xDelay, ticks
  UartWait,   \* ticks the receive task's semaphore is waited for
  HapWait     \* ticks HAPNotifyHandle's is

ASSUME TimeAssumption == {Delay, UartWait, HapWait} \subseteq Nat \ {0}

VARIABLES
  sema,    \* is the task's semaphore given?
  task,    \* "runs" or "hangs"
  silent,  \* ticks since the task last gave its semaphore or was created
  slow,    \* history: was the task ever silent for Delay and its wait, since
           \* it was created?
  sup,     \* where the supervisor stands: "delay", "take" or "delete"
  whom,    \* the task it is concerned with
  left     \* ticks it still sleeps or waits

supVars == <<sema, task, silent, slow, sup, whom, left>>

-----------------------------------------------------------------------------
Tasks == {"uart", "hap"}
Wait(t) == IF t = "uart" THEN UartWait ELSE HapWait

\* How long a task that gives its semaphore at every opportunity may be silent.
Patience(t) == Delay + Wait(t)

\* The longest silence: just missed by one round, found given by the next.
Limit(t) == 2 * (Delay + (IF t = "uart" THEN HapWait ELSE UartWait)) + Wait(t)

SupInit ==
  /\ sema = [t \in Tasks |-> TRUE]     \* vSemaphoreCreateBinary gives it
  /\ task = [t \in Tasks |-> "runs"]
  /\ silent = [t \in Tasks |-> 0]
  /\ slow = [t \in Tasks |-> FALSE]
  /\ sup = "delay" /\ whom = "uart" /\ left = Delay

-----------------------------------------------------------------------------
(* The watched tasks.                                                      *)
Beat(t) ==
  /\ task[t] = "runs"
  /\ sema' = [sema EXCEPT ![t] = TRUE]
  /\ silent' = [silent EXCEPT ![t] = 0]
  /\ UNCHANGED <<task, slow, sup, whom, left>>

Hang(t) ==
  /\ task[t] = "runs"
  /\ task' = [task EXCEPT ![t] = "hangs"]
  /\ UNCHANGED <<sema, silent, slow, sup, whom, left>>

-----------------------------------------------------------------------------
(* The supervisor.  It looks at the receive task, then at HAPNotifyHandle, *)
(* then sleeps.                                                            *)
\* Mutant: the second wait gets what the first left over.
MoveOnStale ==
  IF whom = "uart"
  THEN sup' = "take" /\ whom' = "hap" /\ left' = left
  ELSE sup' = "delay" /\ whom' = "uart" /\ left' = Delay

MoveOn ==
  IF whom = "uart"
  THEN sup' = "take" /\ whom' = "hap" /\ left' = HapWait
  ELSE sup' = "delay" /\ whom' = "uart" /\ left' = Delay

Wake ==
  /\ sup = "delay" /\ left = 0
  /\ sup' = "take" /\ left' = Wait(whom)
  /\ UNCHANGED <<sema, task, silent, slow, whom>>

\* Mutant: the semaphore is looked at without being taken.
TakePeek ==
  /\ sup = "take" /\ sema[whom]
  /\ MoveOn
  /\ UNCHANGED <<sema, task, silent, slow>>

Take ==
  /\ sup = "take" /\ sema[whom]
  /\ sema' = [sema EXCEPT ![whom] = FALSE]
  /\ MoveOn
  /\ UNCHANGED <<task, silent, slow>>

GiveUp ==
  /\ sup = "take" /\ left = 0 /\ ~sema[whom]
  /\ sup' = "delete"
  /\ UNCHANGED <<sema, task, silent, slow, whom, left>>

\* vTaskDelete and xTaskCreate; the semaphore stays as it is.
Replace ==
  /\ sup = "delete"
  /\ task' = [task EXCEPT ![whom] = "runs"]
  /\ silent' = [silent EXCEPT ![whom] = 0]
  /\ slow' = [slow EXCEPT ![whom] = FALSE]
  /\ MoveOn
  /\ UNCHANGED sema

Tick ==
  /\ sup # "delete" /\ left > 0
  /\ sup = "take" => ~sema[whom]
  /\ left' = left - 1
  /\ silent' = [t \in Tasks |-> silent[t] + 1]
  /\ slow' = [t \in Tasks |-> slow[t] \/ silent[t] + 1 >= Patience(t)]
  /\ UNCHANGED <<sema, task, sup, whom>>

SupNext == (\E t \in Tasks : Beat(t) \/ Hang(t)) \/ Wake \/ Take \/ GiveUp \/ Replace \/ Tick

SupSpec == SupInit /\ [][SupNext]_supVars

-----------------------------------------------------------------------------
SupTypeOK ==
  /\ sema \in [Tasks -> BOOLEAN]
  /\ task \in [Tasks -> {"runs", "hangs"}]
  /\ silent \in [Tasks -> Nat]
  /\ slow \in [Tasks -> BOOLEAN]
  /\ sup \in {"delay", "take", "delete"} /\ whom \in Tasks
  /\ sup = "delay" => whom = "uart"
  /\ left \in 0 .. (IF sup = "delay" THEN Delay ELSE Wait(whom))

(***************************************************************************)
(* A task is deleted only if it was once silent for at least the           *)
(* supervisor's sleep and the limit of its own semaphore (12 s for the     *)
(* receive task, 14 s for HAPNotifyHandle): however the two watches        *)
(* overlap, and whatever the other task does, a loop whose rounds are      *)
(* shorter keeps what it was doing.                                        *)
(***************************************************************************)
OnlySlowDeleted == sup = "delete" => slow[whom]

(***************************************************************************)
(* No task is ever silent for longer than two sleeps, two waits for the    *)
(* other task and one for itself (30 s and 28 s): so long may an outlet be *)
(* without its loop after uart_write or the network stopped it for good,   *)
(* even when the semaphore was still given as it hung, or was given        *)
(* between the end of the wait and the deletion.                           *)
(***************************************************************************)
SilenceBounded == \A t \in Tasks : silent[t] <= Limit(t)
=============================================================================
