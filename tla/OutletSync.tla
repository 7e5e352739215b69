----------------------------- MODULE OutletSync -----------------------------
(***************************************************************************)
(* Who believes the outlet is on: outlet.c and set_onoff of protocol.c.    *)
(*                                                                         *)
(* Each outlet's switch has four copies: the relay the MCU drives,         *)
(* outletstateX.on, which the MCU's reports and HomeKit's writes set,      *)
(* outletstateX_app.on, what HomeKit is taken to know, and the value of    *)
(* the HAP characteristic, what HomeKit was told.  They are kept in step   *)
(* without a lock by three tasks:                                          *)
(*   - the HAP server's, in write_OutletA_handler or ..B..;                *)
(*   - uart_socket_example, in set_onoff, for every report of the MCU;     *)
(*   - HAPNotifyHandle, a loop that compares on with app.on, tells         *)
(*     HomeKit, asks the MCU for its state now and then, and sends what    *)
(*     timers are due; uart_start_h may delete it and start it again.      *)
(* A step is one access to the shared copies.  Frames travel in order in   *)
(* both directions and may be lost; the MCU answers a command with the     *)
(* state it set, a query with the state of all outlets, and reports its    *)
(* button.                                                                 *)
(***************************************************************************)
EXTENDS Integers, Sequences

CONSTANTS
  Outlets,      \* 1 .. 2 for A and B, in the order the loop looks at them
  SynchPeriod,  \* rounds of the loop between two queries (30*2*4 in the code)
  MaxFrames,    \* bound: frames under way in one direction
  MaxEvents     \* bound: writes, presses, due timers, losses and restarts in all

ASSUME OutletAssumption ==
  /\ Outlets \in {1 .. 1, 1 .. 2}
  /\ SynchPeriod \in Nat /\ MaxFrames \in Nat /\ MaxFrames > 0
  /\ MaxEvents \in Nat

VARIABLES
  relay,    \* the state of the outlets
  on,       \* outletstateX.on
  app,      \* outletstateX_app.on
  hap,      \* the value of the characteristic
  toMcu,    \* frames on their way to the MCU
  toChip,   \* reports on their way from it
  hpc,      \* where the write handler stands
  hreq,     \* what HomeKit writes: outlet and value
  npc,      \* where HAPNotifyHandle stands
  nout,     \* the outlet it is at
  narg,     \* the value handed to HAPoutletNotify
  count,    \* count_synch
  left,     \* events the bound still allows
  raced     \* history: 1 once a write met a report or a notification of the same
            \* outlet half way, or HAPNotifyHandle was deleted amid one or, on
            \* entry, took over a value HomeKit was not told

mcuVars == <<relay, toMcu, toChip>>
writeVars == <<hpc, hreq>>
loopVars == <<npc, nout, narg, count>>
vars == <<mcuVars, on, app, hap, writeVars, loopVars, left, raced>>

-----------------------------------------------------------------------------
Values == {0, 1}
Last == CHOOSE o \in Outlets : \A p \in Outlets : p <= o
SetFrame(o, v) == [do |-> "set", o |-> o, v |-> v]
Query == [do |-> "query"]
Report(o, v) == <<o, v>>

Init ==
  /\ relay \in [Outlets -> Values]
  /\ on = [o \in Outlets |-> 0] /\ app = on /\ hap = on
  /\ toMcu = <<>> /\ toChip = <<>>
  /\ hpc = "idle" /\ hreq = SetFrame(1, 0)
  /\ npc = "ask" /\ nout = 1 /\ narg = 0 /\ count = 0
  /\ left = MaxEvents
  /\ raced = [o \in Outlets |-> 0]

Spend == left > 0 /\ left' = left - 1

\* uart_write: it waits until there is room.
Send(f) == Len(toMcu) < MaxFrames /\ toMcu' = Append(toMcu, f)

\* The loop is between comparing outlet o and having told HomeKit; the write
\* handler is at work on it.
Telling(o) == npc \in {"copy", "arg", "notify"} /\ nout = o
Writing(o) == hpc # "idle" /\ hreq.o = o

-----------------------------------------------------------------------------
(***************************************************************************)
(* The write handler.                                                      *)
(***************************************************************************)

\* outletstateX.on = value.
HWrite(o, v) ==
  /\ hpc = "idle" /\ hpc' = "app" /\ Spend
  /\ hreq' = SetFrame(o, v)
  /\ on' = [on EXCEPT ![o] = v]
  /\ raced' = IF Telling(o) THEN [raced EXCEPT ![o] = 1] ELSE raced
  /\ UNCHANGED <<mcuVars, app, hap, loopVars>>

\* outletstateX_app.on = outletstateX.on.
HApp ==
  /\ hpc = "app" /\ hpc' = "send"
  /\ app' = [app EXCEPT ![hreq.o] = on[hreq.o]]
  /\ raced' = IF on[hreq.o] # hreq.v THEN [raced EXCEPT ![hreq.o] = 1] ELSE raced
  /\ UNCHANGED <<mcuVars, on, hap, hreq, loopVars, left>>

\* app_handle, setOutlet_onoff, uart_write.
HSend ==
  /\ hpc = "send" /\ hpc' = "update"
  /\ Send(hreq)
  /\ UNCHANGED <<relay, toChip, on, app, hap, hreq, loopVars, left, raced>>

\* HAPUpdateServiceCharacteristic with the value written; the handler's
\* variables are gone.
HUpdate ==
  /\ hpc = "update" /\ hpc' = "idle"
  /\ hap' = [hap EXCEPT ![hreq.o] = hreq.v]
  /\ hreq' = SetFrame(1, 0)
  /\ UNCHANGED <<mcuVars, on, app, loopVars, left, raced>>

-----------------------------------------------------------------------------
(***************************************************************************)
(* uart_socket_example: set_onoff.                                         *)
(***************************************************************************)

\* Mutant: the report is taken for HomeKit's own.
SetOnoffApp ==
  /\ toChip # <<>> /\ toChip' = Tail(toChip)
  /\ on' = [on EXCEPT ![Head(toChip)[1]] = Head(toChip)[2]]
  /\ app' = [app EXCEPT ![Head(toChip)[1]] = Head(toChip)[2]]
  /\ UNCHANGED <<relay, toMcu, hap, writeVars, loopVars, left, raced>>

set_onoff ==
  /\ toChip # <<>> /\ toChip' = Tail(toChip)
  /\ on' = [on EXCEPT ![Head(toChip)[1]] = Head(toChip)[2]]
  /\ UNCHANGED <<relay, toMcu, app, hap, writeVars, loopVars, left, raced>>

-----------------------------------------------------------------------------
(***************************************************************************)
(* HAPNotifyHandle.                                                        *)
(***************************************************************************)

NKeep == UNCHANGED <<relay, toChip, on, writeVars>>

\* getMCU_synch, on entry.
NAsk ==
  /\ npc = "ask" /\ npc' = "init" /\ nout' = 1
  /\ Send(Query)
  /\ UNCHANGED <<app, hap, narg, count, left, raced>> /\ NKeep

\* outletstateX_app.on = outletstateX.on, which HomeKit is not told.
NInit ==
  /\ npc = "init"
  /\ app' = [app EXCEPT ![nout] = on[nout]]
  /\ IF nout = Last THEN npc' = "check" /\ nout' = 1
                    ELSE nout' = nout + 1 /\ UNCHANGED npc
  /\ raced' = IF app' # app THEN [raced EXCEPT ![nout] = 1] ELSE raced
  /\ UNCHANGED <<toMcu, hap, narg, count, left>> /\ NKeep

\* On to the next outlet, or to the rest of the round.
NNext == IF nout = Last THEN npc' = "synch" /\ nout' = 1
                        ELSE npc' = "check" /\ nout' = nout + 1

\* if (outletstateX_app.on != outletstateX.on).
NCheck ==
  /\ npc = "check"
  /\ IF app[nout] # on[nout] THEN npc' = "copy" /\ UNCHANGED nout ELSE NNext
  /\ raced' = IF npc' = "copy" /\ Writing(nout) THEN [raced EXCEPT ![nout] = 1] ELSE raced
  /\ UNCHANGED <<toMcu, app, hap, narg, count, left>> /\ NKeep

\* outletstateX_app.on = outletstateX.on.
NCopy ==
  /\ npc = "copy" /\ npc' = "arg"
  /\ app' = [app EXCEPT ![nout] = on[nout]]
  /\ UNCHANGED <<toMcu, hap, nout, narg, count, left, raced>> /\ NKeep

\* HAPoutletNotify(cc, outletstateX_app.on): the argument is read ...
NArg ==
  /\ npc = "arg" /\ npc' = "notify"
  /\ narg' = app[nout]
  /\ UNCHANGED <<toMcu, app, hap, nout, count, left, raced>> /\ NKeep

\* ... and HomeKit is told.
NNotify ==
  /\ npc = "notify" /\ NNext
  /\ hap' = [hap EXCEPT ![nout] = narg]
  /\ narg' = 0
  /\ UNCHANGED <<toMcu, app, count, left, raced>> /\ NKeep

\* Mutant: count_synch is not counted.
NSynchNever ==
  /\ npc = "synch" /\ npc' = "timer"
  /\ UNCHANGED <<toMcu, app, hap, nout, narg, count, left, raced>> /\ NKeep

\* Mutant: count_synch is not set back.
NSynchNoReset ==
  /\ npc = "synch" /\ npc' = "timer" /\ count' = count + 1
  /\ IF count < SynchPeriod THEN UNCHANGED toMcu ELSE Send(Query)
  /\ UNCHANGED <<app, hap, nout, narg, left, raced>> /\ NKeep

\* count_synch++: MCU_meterage_synch every so many rounds.
NSynch ==
  /\ npc = "synch" /\ npc' = "timer"
  /\ IF count < SynchPeriod THEN count' = count + 1 /\ UNCHANGED toMcu
                            ELSE count' = 0 /\ Send(Query)
  /\ UNCHANGED <<app, hap, nout, narg, left, raced>> /\ NKeep

\* timer_handle: a timer that is due switches an outlet, no copy is touched.
NTimer ==
  /\ npc = "timer"
  /\ \/ npc' = "check" /\ UNCHANGED <<toMcu, left>>
     \/ /\ Spend /\ UNCHANGED npc
        /\ \E o \in Outlets, v \in Values : Send(SetFrame(o, v))
  /\ UNCHANGED <<app, hap, nout, narg, count, raced>> /\ NKeep

\* uart_start_h deletes the task and creates it again.
Restart ==
  /\ Spend
  /\ npc' = "ask" /\ nout' = 1 /\ narg' = 0
  /\ raced' = [o \in Outlets |-> IF Telling(o) THEN 1 ELSE raced[o]]
  /\ UNCHANGED <<toMcu, app, hap, count>> /\ NKeep

Loop == NAsk \/ NInit \/ NCheck \/ NCopy \/ NArg \/ NNotify \/ NSynch \/ NTimer

-----------------------------------------------------------------------------
(***************************************************************************)
(* The MCU and the line.                                                   *)
(***************************************************************************)

McuKeep == UNCHANGED <<on, app, hap, writeVars, loopVars, raced>>

AllReports == [o \in Outlets |-> Report(o, relay[o])]

\* The MCU carries out a command and answers with it, or answers a query.
McuServe ==
  /\ toMcu # <<>> /\ toMcu' = Tail(toMcu)
  /\ LET f == Head(toMcu) IN
     IF f.do = "set"
     THEN /\ Len(toChip) < MaxFrames
          /\ relay' = [relay EXCEPT ![f.o] = f.v]
          /\ toChip' = Append(toChip, Report(f.o, f.v))
     ELSE /\ Len(toChip) + Last <= MaxFrames + Last - 1
          /\ toChip' = toChip \o AllReports /\ UNCHANGED relay
  /\ UNCHANGED left /\ McuKeep

\* Somebody presses an outlet's button.
Press(o) ==
  /\ Spend /\ Len(toChip) < MaxFrames
  /\ relay' = [relay EXCEPT ![o] = 1 - @]
  /\ toChip' = Append(toChip, Report(o, relay'[o]))
  /\ UNCHANGED toMcu /\ McuKeep

\* A frame is lost: garbled, cut by a read, or given up by uart_write.
Lose ==
  /\ Spend
  /\ \/ toMcu # <<>> /\ toMcu' = Tail(toMcu) /\ UNCHANGED toChip
     \/ toChip # <<>> /\ toChip' = Tail(toChip) /\ UNCHANGED toMcu
  /\ UNCHANGED relay /\ McuKeep

Handler == HApp \/ HSend \/ HUpdate

Next ==
  \/ \E o \in Outlets : Press(o) \/ \E v \in Values : HWrite(o, v)
  \/ Handler \/ set_onoff \/ Loop \/ Restart \/ McuServe \/ Lose

Spec == Init /\ [][Next]_vars

\* FreeRTOS gives every task its turn and, as tx_sema hands over in the order of
\* asking, nobody waits in uart_write for ever while others pass; the MCU answers.
FairSpec ==
  /\ Spec
  /\ SF_vars(Handler) /\ SF_vars(Loop)
  /\ WF_vars(set_onoff) /\ WF_vars(McuServe)

-----------------------------------------------------------------------------
\* Every variable keeps to its values, and no queue outgrows its bound.
TypeOK ==
  /\ {relay, on, app, hap, raced} \subseteq [Outlets -> Values]
  /\ toMcu \in Seq([do : {"set"}, o : Outlets, v : Values] \cup {Query})
  /\ Len(toMcu) <= MaxFrames
  /\ toChip \in Seq(Outlets \X Values) /\ Len(toChip) < MaxFrames + Last
  /\ hpc \in {"idle", "app", "send", "update"}
  /\ hreq \in [do : {"set"}, o : Outlets, v : Values]
  /\ npc \in {"ask", "init", "check", "copy", "arg", "notify", "synch", "timer"}
  /\ nout \in Outlets /\ narg \in Values
  /\ count \in 0 .. SynchPeriod /\ left \in 0 .. MaxEvents

\* Between two notifications HomeKit has been told exactly what app.on says,
\* unless the two once came apart as raced says.
ToldWhatAppSays ==
  \A o \in Outlets : raced[o] = 0 /\ ~ Telling(o) /\ ~ Writing(o) => hap[o] = app[o]

\* When commands, presses and losses are over the chip and the relay come to
\* agree for good, whatever was lost and in whatever order reports overtook
\* writes: the query of every SynchPeriod rounds heals it.
ChipFollowsRelay == <>[](\A o \in Outlets : on[o] = relay[o] /\ app[o] = relay[o])

\* ... and HomeKit shows what the relay does, unless the copies once came apart
\* that way: as on and app.on then agree, HomeKit is never told again, and what
\* it shows stays wrong until the outlet is switched the next time.
HomeKitFollowsRelay == <>[](\A o \in Outlets : raced[o] = 1 \/ hap[o] = relay[o])
=============================================================================
