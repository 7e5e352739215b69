----------------------------- MODULE UartSocket -----------------------------
(***************************************************************************)
(* The UART driver of component/common/utilities/uart_socket.c: the link   *)
(* between the WiFi chip and the outlet's MCU, dressed up as a socket.     *)
(*                                                                         *)
(* Five kinds of actors share one uart_socket_t, `u':                      *)
(*   - the receive interrupt uart_irq, one call per byte;                  *)
(*   - the task uart_action_handler, which one semaphore (action_sema)     *)
(*     wakes for received bytes and for bytes to send;                     *)
(*   - the tasks that call uart_write, serialised by the permit tx_sema;   *)
(*   - the task uart_socket_example, which select()s, calls uart_read and  *)
(*     answers some frames with uart_write;                                *)
(*   - the supervisor uart_start_h, which deletes and re-creates tasks     *)
(*     that miss their heartbeat and closes the socket.                    *)
(* All the tasks have priority 1 and FreeRTOS slices time among them, so   *)
(* a step below is one access to the shared fields of u and any            *)
(* interleaving may happen; the interrupt is one step.                     *)
(*                                                                         *)
(* Data is abstract: a message is the pair of its sender and a call        *)
(* number, send_buf holds the two halves of a message, and the receive     *)
(* ring is the number of its unread bytes (its indices are module          *)
(* UartRing's).  One life of u is modelled, from uart_open to uart_close.  *)
(***************************************************************************)
EXTENDS Integers, Sequences

CONSTANTS
  Writers,    \* the tasks that call uart_write
  RxTask,     \* uart_socket_example, one of them
  Restarted,  \* those uart_start_h deletes and re-creates (HAPNotifyHandle)
  Closable,   \* whether the supervisor may give up on RxTask and close u
  ReadSize,   \* sizeof(rxbuf): the most bytes one uart_read returns
  MaxWrites,  \* bound: calls of uart_write per task
  MaxBytes    \* bound: bytes the MCU sends, fewer than UART_RECV_BUFFER_LEN

ASSUME ConstantsAssumption ==
  /\ RxTask \in Writers
  /\ Restarted \subseteq Writers \ {RxTask}
  /\ Closable \in BOOLEAN
  /\ ReadSize \in Nat \ {0}
  /\ MaxWrites \in Nat
  /\ MaxBytes \in Nat

VARIABLES
  action_sema,  \* the counting semaphore that wakes uart_action_handler
  tx_sema,      \* the permit to fill send_buf
  rx_start,     \* set by uart_irq, cleared once select() was unblocked
  tx_start,     \* send_buf holds a message to transmit
  send_buf,     \* the two halves of the message in the buffer
  apc,          \* where uart_action_handler stands
  half,         \* the half of send_buf it has put on the line already
  wpc,          \* where each task stands in uart_write
  calls,        \* how many calls of uart_write each task has begun
  tries,        \* i of uart_write: how often it found tx_start set
  unread,       \* bytes in recv_buf that uart_read has not returned
  arrived,      \* bytes received so far (bounds the model)
  quiet,        \* UART_MAX_DELAY_TIME ticks have passed since last_update
  rcvevent,     \* the socket's lwIP receive event
  rpc,          \* where uart_socket_example stands
  snap,         \* read_bytes of the uart_read under way
  cpc,          \* where uart_start_h stands in closing u
  accepted,     \* history: the messages uart_write took, in order
  wire,         \* history: the messages put on the line, in order
  lost,         \* history: a task was deleted while it held the permit
  orphan        \* history: ... after it set tx_start, before RtlUpSema

txVars == <<tx_sema, tx_start, send_buf, half, accepted, wire>>
wrVars == <<wpc, calls, tries>>
rxVars == <<unread, arrived, quiet, rcvevent, rpc, snap>>
delVars == <<lost, orphan>>
vars == <<action_sema, rx_start, apc, cpc, txVars, wrVars, rxVars, delVars>>

-----------------------------------------------------------------------------
Msg == Writers \X (1 .. MaxWrites)
Zero == <<>>                        \* what memset leaves in send_buf

\* The message of task w's current call.
Current(w) == <<w, calls[w]>>

\* Where a task holds the permit: between its RtlDownSema and tx_start = 1.
Holding == {"poll", "copy1", "copy2", "start"}

WriterPC == {"idle", "down", "wake", "dead"} \cup Holding
ActionPC == {"down", "fd", "rx", "wait", "event", "clear", "tx",
             "send1", "send2", "done", "wipe", "up", "exit"}
ReaderPC == {"select", "read", "clear", "advance", "dead"}
ClosePC == {"open", "deleted", "closed", "sleep", "freed"}

\* Nothing below touches u once uart_close has freed it.
Live == cpc # "freed"

Init ==
  /\ action_sema = 0 /\ tx_sema = 1
  /\ rx_start = 0 /\ tx_start = 0
  /\ send_buf = [lo |-> Zero, hi |-> Zero] /\ half = Zero
  /\ apc = "down"
  /\ wpc = [w \in Writers |-> "idle"]
  /\ calls = [w \in Writers |-> 0]
  /\ tries = [w \in Writers |-> 0]
  /\ unread = 0 /\ arrived = 0 /\ quiet = 1
  /\ rcvevent = 0 /\ rpc = "select" /\ snap = 0
  /\ cpc = "open"
  /\ accepted = <<>> /\ wire = <<>>
  /\ lost = 0 /\ orphan = 0

-----------------------------------------------------------------------------
(***************************************************************************)
(* The receive interrupt.                                                  *)
(***************************************************************************)

\* Mutant: uart_irq sets rx_start without waking the action task.
IrqNoWake ==
  /\ Live /\ arrived < MaxBytes
  /\ rx_start' = 1
  /\ unread' = unread + 1 /\ arrived' = arrived + 1
  /\ quiet' = 0
  /\ UNCHANGED <<action_sema, apc, cpc, txVars, wrVars, rcvevent, rpc, snap, delVars>>

\* uart_irq: the first byte since rx_start was cleared wakes the action task.
Irq ==
  /\ Live /\ arrived < MaxBytes
  /\ action_sema' = IF rx_start = 0 THEN action_sema + 1 ELSE action_sema
  /\ rx_start' = 1
  /\ unread' = unread + 1 /\ arrived' = arrived + 1
  /\ quiet' = 0                                    \* last_update = now
  /\ UNCHANGED <<apc, cpc, txVars, wrVars, rcvevent, rpc, snap, delVars>>

\* UART_MAX_DELAY_TIME ticks go by without a byte.
Silence ==
  /\ Live /\ quiet = 0
  /\ quiet' = 1
  /\ UNCHANGED <<action_sema, rx_start, apc, cpc, txVars, wrVars, unread,
                 arrived, rcvevent, rpc, snap, delVars>>

-----------------------------------------------------------------------------
(***************************************************************************)
(* uart_action_handler.                                                    *)
(***************************************************************************)

AGoto(from, to) == Live /\ apc = from /\ apc' = to

\* RtlDownSema(&u->action_sema): sleep until woken.
ADown ==
  /\ AGoto("down", "fd")
  /\ action_sema > 0 /\ action_sema' = action_sema - 1
  /\ UNCHANGED <<rx_start, cpc, txVars, wrVars, rxVars, delVars>>

\* if (u->fd == -1) goto Exit.
ACheckFd ==
  /\ AGoto("fd", IF cpc \in {"closed", "sleep"} THEN "exit" ELSE "rx")
  /\ UNCHANGED <<action_sema, rx_start, cpc, txVars, wrVars, rxVars, delVars>>

ACheckRx ==
  /\ AGoto("rx", IF rx_start = 1 THEN "wait" ELSE "tx")
  /\ UNCHANGED <<action_sema, rx_start, cpc, txVars, wrVars, rxVars, delVars>>

\* uart_wait_rx_complete: until the line has been silent long enough.
AWaitRx ==
  /\ AGoto("wait", "event")
  /\ quiet = 1
  /\ UNCHANGED <<action_sema, rx_start, cpc, txVars, wrVars, rxVars, delVars>>

\* lwip_setsockrcvevent(u->fd, 1); lwip_selectevindicate(u->fd).
AEvent ==
  /\ AGoto("event", "clear")
  /\ rcvevent' = 1
  /\ UNCHANGED <<action_sema, rx_start, cpc, txVars, wrVars, unread, arrived,
                 quiet, rpc, snap, delVars>>

AClearRx ==
  /\ AGoto("clear", "tx")
  /\ rx_start' = 0
  /\ UNCHANGED <<action_sema, cpc, txVars, wrVars, rxVars, delVars>>

\* Mutant: the handler looks for data to send only when nothing was received.
ACheckTxElse ==
  /\ AGoto("tx", IF tx_start = 1 /\ rcvevent = 0 THEN "send1" ELSE "down")
  /\ UNCHANGED <<action_sema, rx_start, cpc, txVars, wrVars, rxVars, delVars>>

ACheckTx ==
  /\ AGoto("tx", IF tx_start = 1 THEN "send1" ELSE "down")
  /\ UNCHANGED <<action_sema, rx_start, cpc, txVars, wrVars, rxVars, delVars>>

\* uart_send_stream: the bytes of send_buf go out one after the other; the
\* first half of the message, then the second.
ASend1 ==
  /\ AGoto("send1", "send2")
  /\ half' = send_buf.lo
  /\ UNCHANGED <<action_sema, rx_start, cpc, tx_sema, tx_start, send_buf,
                 accepted, wire, wrVars, rxVars, delVars>>

\* Mutant: the permit is given back as soon as the last byte is out.
ASend2EarlyUp ==
  /\ AGoto("send2", "done")
  /\ wire' = Append(wire, <<half, send_buf.hi>>) /\ tx_sema' = tx_sema + 1
  /\ UNCHANGED <<action_sema, rx_start, cpc, tx_start, send_buf, half,
                 accepted, wrVars, rxVars, delVars>>

ASend2 ==
  /\ AGoto("send2", "done")
  /\ wire' = Append(wire, <<half, send_buf.hi>>)
  /\ UNCHANGED <<action_sema, rx_start, cpc, tx_sema, tx_start, send_buf,
                 half, accepted, wrVars, rxVars, delVars>>

\* Mutant: tx_start is left set.
ADoneKeep ==
  /\ AGoto("done", "wipe")
  /\ UNCHANGED <<action_sema, rx_start, cpc, txVars, wrVars, rxVars, delVars>>

ADone ==
  /\ AGoto("done", "wipe")
  /\ tx_start' = 0
  /\ UNCHANGED <<action_sema, rx_start, cpc, tx_sema, send_buf, half,
                 accepted, wire, wrVars, rxVars, delVars>>

AWipe ==
  /\ AGoto("wipe", "up")
  /\ send_buf' = [lo |-> Zero, hi |-> Zero]
  /\ UNCHANGED <<action_sema, rx_start, cpc, tx_sema, tx_start, half,
                 accepted, wire, wrVars, rxVars, delVars>>

\* Mutant: RtlUpSema(&u->tx_sema) is forgotten.
ANoUp ==
  /\ AGoto("up", "down")
  /\ UNCHANGED <<action_sema, rx_start, cpc, txVars, wrVars, rxVars, delVars>>

AUp ==
  /\ AGoto("up", "down")
  /\ tx_sema' = tx_sema + 1
  /\ UNCHANGED <<action_sema, rx_start, cpc, tx_start, send_buf, half,
                 accepted, wire, wrVars, rxVars, delVars>>

Action ==
  \/ ADown \/ ACheckFd \/ ACheckRx \/ AWaitRx \/ AEvent \/ AClearRx
  \/ ACheckTx \/ ASend1 \/ ASend2 \/ ADone \/ AWipe \/ AUp

-----------------------------------------------------------------------------
(***************************************************************************)
(* uart_write.                                                             *)
(***************************************************************************)

WGoto(w, from, to) ==
  /\ Live
  /\ wpc[w] = from
  /\ wpc' = [wpc EXCEPT ![w] = to]

\* A task calls uart_write with a message; RxTask does so between two reads.
WCall(w) ==
  /\ WGoto(w, "idle", "down")
  /\ w = RxTask => rpc = "select"
  /\ calls[w] < MaxWrites
  /\ calls' = [calls EXCEPT ![w] = @ + 1]
  /\ UNCHANGED <<action_sema, rx_start, apc, cpc, txVars, tries, rxVars, delVars>>

\* Mutant: the permit is not taken.
WDownFree(w) ==
  /\ WGoto(w, "down", "poll")
  /\ tries' = [tries EXCEPT ![w] = 0]
  /\ UNCHANGED <<action_sema, rx_start, apc, cpc, txVars, calls, rxVars, delVars>>

WDown(w) ==
  /\ WGoto(w, "down", "poll")
  /\ tx_sema > 0 /\ tx_sema' = tx_sema - 1
  /\ tries' = [tries EXCEPT ![w] = 0]
  /\ UNCHANGED <<action_sema, rx_start, apc, cpc, tx_start, send_buf, half,
                 accepted, wire, calls, rxVars, delVars>>

\* while (i < 3) { if (u->tx_start == 0) break; wait_ms(10); i++; }: after
\* three waits the write is dropped, the permit kept and the size returned.
WPoll(w) ==
  /\ WGoto(w, "poll", IF tx_start = 0 THEN "copy1"
                      ELSE IF tries[w] < 3 THEN "poll" ELSE "idle")
  /\ tries' = IF tx_start = 0 THEN tries ELSE [tries EXCEPT ![w] = @ + 1]
  /\ UNCHANGED <<action_sema, rx_start, apc, cpc, txVars, calls, rxVars, delVars>>

\* mymemcpy(u->send_buf, pbuf, size).
WCopy1(w) ==
  /\ WGoto(w, "copy1", "copy2")
  /\ send_buf' = [send_buf EXCEPT !.lo = Current(w)]
  /\ UNCHANGED <<action_sema, rx_start, apc, cpc, tx_sema, tx_start, half,
                 accepted, wire, calls, tries, rxVars, delVars>>

WCopy2(w) ==
  /\ WGoto(w, "copy2", "start")
  /\ send_buf' = [send_buf EXCEPT !.hi = Current(w)]
  /\ UNCHANGED <<action_sema, rx_start, apc, cpc, tx_sema, tx_start, half,
                 accepted, wire, calls, tries, rxVars, delVars>>

\* u->tx_bytes = size; u->tx_start = 1.
WStart(w) ==
  /\ WGoto(w, "start", "wake")
  /\ tx_start' = 1
  /\ accepted' = Append(accepted, Current(w))
  /\ UNCHANGED <<action_sema, rx_start, apc, cpc, tx_sema, send_buf, half,
                 wire, calls, tries, rxVars, delVars>>

\* RtlUpSema(&u->action_sema).
WWake(w) ==
  /\ WGoto(w, "wake", "idle")
  /\ action_sema' = action_sema + 1
  /\ UNCHANGED <<rx_start, apc, cpc, txVars, calls, tries, rxVars, delVars>>

Write(w) ==
  \/ WDown(w) \/ WPoll(w) \/ WCopy1(w) \/ WCopy2(w) \/ WStart(w) \/ WWake(w)

-----------------------------------------------------------------------------
(***************************************************************************)
(* uart_socket_example: select, uart_read, and the frames' handlers (which *)
(* may call uart_write: WCall(RxTask)).                                    *)
(***************************************************************************)

RGoto(from, to) == Live /\ rpc = from /\ rpc' = to

RSelect ==
  /\ RGoto("select", "read")
  /\ wpc[RxTask] = "idle"
  /\ rcvevent = 1
  /\ UNCHANGED <<action_sema, rx_start, apc, cpc, txVars, wrVars, unread,
                 arrived, quiet, rcvevent, snap, delVars>>

\* uart_read reads prxread and prxwrite and copies that much, ReadSize at most.
RCopy ==
  /\ RGoto("read", "clear")
  /\ snap' = IF ReadSize < unread THEN ReadSize ELSE unread
  /\ UNCHANGED <<action_sema, rx_start, apc, cpc, txVars, wrVars, unread,
                 arrived, quiet, rcvevent, delVars>>

\* lwip_setsockrcvevent(u->fd, 0).
RClear ==
  /\ RGoto("clear", "advance")
  /\ rcvevent' = 0
  /\ UNCHANGED <<action_sema, rx_start, apc, cpc, txVars, wrVars, unread,
                 arrived, quiet, snap, delVars>>

\* Mutant: prxread advances by the size asked for.
RAdvanceFull ==
  /\ RGoto("advance", "select")
  /\ unread' = unread - ReadSize /\ snap' = 0
  /\ UNCHANGED <<action_sema, rx_start, apc, cpc, txVars, wrVars, arrived,
                 quiet, rcvevent, delVars>>

\* u->prxread = pread_local + read_bytes.
RAdvance ==
  /\ RGoto("advance", "select")
  /\ unread' = unread - snap /\ snap' = 0
  /\ UNCHANGED <<action_sema, rx_start, apc, cpc, txVars, wrVars, arrived,
                 quiet, rcvevent, delVars>>

Read == RSelect \/ RCopy \/ RClear \/ RAdvance

-----------------------------------------------------------------------------
(***************************************************************************)
(* uart_start_h and uart_close.                                            *)
(***************************************************************************)

\* vTaskDelete takes task w wherever it stands.
Deleted(w) ==
  /\ lost' = IF wpc[w] \in Holding THEN 1 ELSE lost
  /\ orphan' = IF wpc[w] = "wake" THEN 1 ELSE orphan

\* HAPNotifyHandle missed its heartbeat: deleted, and created anew.
Restart(w) ==
  /\ Live /\ w \in Restarted /\ wpc[w] # "idle"
  /\ Deleted(w)
  /\ wpc' = [wpc EXCEPT ![w] = "idle"]
  /\ UNCHANGED <<action_sema, rx_start, apc, cpc, txVars, calls, tries, rxVars>>

\* uart_socket_example missed its heartbeat: deleted, and u is closed.
CDelete ==
  /\ Closable /\ cpc = "open" /\ cpc' = "deleted"
  /\ Deleted(RxTask)
  /\ wpc' = [wpc EXCEPT ![RxTask] = "dead"] /\ rpc' = "dead"
  /\ UNCHANGED <<action_sema, rx_start, apc, txVars, calls, tries, unread,
                 arrived, quiet, rcvevent, snap>>

\* lwip_close(u->fd); u->fd = -1.
CClose ==
  /\ cpc = "deleted" /\ cpc' = "closed"
  /\ UNCHANGED <<action_sema, rx_start, apc, txVars, wrVars, rxVars, delVars>>

CUp ==
  /\ cpc = "closed" /\ cpc' = "sleep"
  /\ action_sema' = action_sema + 1
  /\ UNCHANGED <<rx_start, apc, txVars, wrVars, rxVars, delVars>>

\* RtlMsleepOS(20) is over: the semaphores, the serial port and u are freed.
\* 20 ms let the action task take every step that does not wait: not a pause
\* of the MCU's, nor its own bytes leaving at 9600 baud (about 1 ms each).
CFree ==
  /\ cpc = "sleep" /\ cpc' = "freed"
  /\ apc \in {"exit", "wait", "send1", "send2"}
  /\ UNCHANGED <<action_sema, rx_start, apc, txVars, wrVars, rxVars, delVars>>

Close == CDelete \/ CClose \/ CUp \/ CFree

-----------------------------------------------------------------------------
Next ==
  \/ Irq \/ Silence \/ Action \/ Read \/ Close
  \/ \E w \in Writers : WCall(w) \/ Write(w) \/ Restart(w)

Spec == Init /\ [][Next]_vars

(***************************************************************************)
(* Fairness: FreeRTOS runs every ready task (round robin within a          *)
(* priority) and gives a semaphore to the task that has waited longest, so *)
(* a call waiting for tx_sema is not overtaken forever.  Silence is the    *)
(* MCU's: it pauses after a frame.  Nobody has to call uart_write, to send *)
(* a byte or to miss a heartbeat.                                          *)
(***************************************************************************)
Fairness ==
  /\ WF_vars(Action) /\ WF_vars(Read) /\ WF_vars(Silence)
  /\ \A w \in Writers : WF_vars(Write(w)) /\ SF_vars(WDown(w))

FairSpec == Spec /\ Fairness

-----------------------------------------------------------------------------
(***************************************************************************)
(* Properties.                                                             *)
(***************************************************************************)

TypeOK ==
  /\ action_sema \in Nat /\ tx_sema \in Nat
  /\ rx_start \in {0, 1} /\ tx_start \in {0, 1}
  /\ send_buf \in [lo : Msg \cup {Zero}, hi : Msg \cup {Zero}]
  /\ half \in Msg \cup {Zero}
  /\ apc \in ActionPC
  /\ wpc \in [Writers -> WriterPC]
  /\ calls \in [Writers -> 0 .. MaxWrites]
  /\ tries \in [Writers -> Nat]
  /\ unread \in Nat /\ arrived \in Nat /\ quiet \in {0, 1}
  /\ rcvevent \in {0, 1} /\ rpc \in ReaderPC /\ snap \in Nat
  /\ cpc \in ClosePC
  /\ accepted \in Seq(Msg)
  /\ wire \in Seq((Msg \cup {Zero}) \X (Msg \cup {Zero}))
  /\ lost \in {0, 1} /\ orphan \in {0, 1}

\* Nobody owns the transmitter: no message waits or is being cleaned up.
TxFree == tx_start = 0 /\ apc \notin {"send1", "send2", "done", "wipe", "up"}

\* Only one task at a time is between taking tx_sema and publishing its
\* message, and it never overlaps with a message in flight: send_buf has one
\* user, whatever the interleaving of uart_write, uart_action_handler and
\* the supervisor's deletions.
OneSender ==
  /\ \A v, w \in Writers : wpc[v] \in Holding /\ wpc[w] \in Holding => v = w
  /\ \A w \in Writers : wpc[w] \in Holding => tx_sema = 0 /\ TxFree
  /\ ~TxFree => tx_sema = 0
  /\ tx_sema <= 1

\* The wait loop of uart_write never spins: a task that got the permit finds
\* tx_start clear, so the branch that returns size without sending, and
\* without RtlUpSema, is never taken.
PermitMeansIdle == \A w \in Writers : wpc[w] = "poll" => tx_start = 0 /\ tries[w] = 0

\* The permit is accounted for: it is gone for good only when the supervisor
\* deleted a task inside uart_write, between RtlDownSema and tx_start = 1.
PermitConserved ==
  lost = 1 <=> /\ tx_sema = 0 /\ TxFree
               /\ \A w \in Writers : wpc[w] \notin Holding

\* uart_action_handler never sleeps on work it was told of: when it waits on
\* action_sema although bytes came in, a message was published or the socket
\* was closed, the semaphore is up, or the task that published the message
\* is about to raise it, or was deleted just before it did.
NoLostWakeup ==
  apc = "down" /\ action_sema = 0 =>
    /\ rx_start = 0
    /\ tx_start = 1 => orphan = 1 \/ \E w \in Writers : wpc[w] = "wake"
    /\ cpc \notin {"sleep", "freed"}

\* What the callers of uart_write are promised: module TxChannel.
Whole(m) == IF m[1] = m[2] THEN m[1] ELSE Zero
InFlight == Len(wire) < Len(accepted)

Slot == IF InFlight THEN accepted[Len(accepted)] ELSE Zero
Out == [i \in 1 .. Len(wire) |-> Whole(wire[i])]

Channel == INSTANCE TxChannel WITH
  Messages <- Msg, None <- Zero, slot <- Slot, out <- Out

\* Every message uart_write takes is put on the line whole, once and in the
\* order of acceptance, and the next one is taken only after that.
ImplementsTxChannel == Channel!Spec

\* A published message is sent, unless its writer was deleted before it woke
\* the action task or the socket is being closed.
AcceptedIsSent ==
  \A m \in Msg : (\E i \in DOMAIN accepted : accepted[i] = m) ~>
    (orphan = 1 \/ cpc # "open" \/ \E i \in DOMAIN wire : wire[i] = <<m, m>>)

\* A call of uart_write returns, unless the permit was lost with a deleted
\* task, or the socket is being closed.
WriteReturns ==
  \A w \in Writers : wpc[w] = "down" ~>
    (wpc[w] = "idle" \/ lost = 1 \/ orphan = 1 \/ cpc # "open")

\* Received bytes end up in select(): rx_start leads to the receive event,
\* except for a byte that finds the action task about to clear rx_start (what
\* becomes of that one is UnreadIsIndicated's question).
BytesAreSignalled ==
  rx_start = 1 /\ apc # "clear" ~> (rcvevent = 1 \/ cpc # "open")

\* uart_socket.c's line 44 says that rx_start is set "to indicate data
\* recved".  When everything has come to rest, unread bytes should be
\* indicated by rx_start or by the receive event.
Resting == apc = "down" /\ action_sema = 0 /\ quiet = 1 /\ rpc = "select"
UnreadIsIndicated == Resting /\ unread > 0 => rx_start = 1 \/ rcvevent = 1
=============================================================================
