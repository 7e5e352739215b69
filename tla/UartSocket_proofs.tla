------------------------- MODULE UartSocket_proofs -------------------------
(***************************************************************************)
(* Proofs about the UART driver, for any set of tasks, any number of calls *)
(* and bytes, with and without deletions by the supervisor; and, at the    *)
(* end, about the supervisor's own timing (module Supervisor).             *)
(***************************************************************************)
EXTENDS UartSocket, Supervisor, TLAPS

-----------------------------------------------------------------------------
(***************************************************************************)
(* Type correctness.                                                       *)
(***************************************************************************)

\* The fields of uart_socket_t and the tasks' positions keep their ranges;
\* in particular uart_read never advances prxread past prxwrite.
ReadFits == unread >= snap /\ (snap # 0 => rpc \in {"clear", "advance", "dead"})

LEMMA CurrentIsMsg ==
  ASSUME NEW w \in Writers, TypeOK, calls[w] # 0
  PROVE  Current(w) \in Msg
BY ConstantsAssumption DEF TypeOK, Current, Msg

\* A task inside uart_write has begun a call.
Called == \A w \in Writers : wpc[w] \notin {"idle", "dead"} => calls[w] # 0

TInv == TypeOK /\ ReadFits /\ Called

LEMMA TypeInductive == TInv /\ [Next]_vars => TInv'
<1> SUFFICES ASSUME TInv, [Next]_vars PROVE TInv'
    OBVIOUS
<1> USE ConstantsAssumption DEF TInv, TypeOK, ReadFits, Called, WriterPC,
        Holding, ActionPC, ReaderPC, ClosePC, txVars, wrVars, rxVars, delVars
<1>1. CASE Irq
  BY <1>1 DEF Irq
<1>2. CASE Silence
  BY <1>2 DEF Silence
<1>3. CASE Action
  <2>1. CASE ADown
    BY <2>1 DEF ADown, AGoto
  <2>2. CASE ACheckFd
    BY <2>2 DEF ACheckFd, AGoto
  <2>3. CASE ACheckRx
    BY <2>3 DEF ACheckRx, AGoto
  <2>4. CASE AWaitRx
    BY <2>4 DEF AWaitRx, AGoto
  <2>5. CASE AEvent
    BY <2>5 DEF AEvent, AGoto
  <2>6. CASE AClearRx
    BY <2>6 DEF AClearRx, AGoto
  <2>7. CASE ACheckTx
    BY <2>7 DEF ACheckTx, AGoto
  <2>8. CASE ASend1
    BY <2>8 DEF ASend1, AGoto
  <2>9. CASE ASend2
    BY <2>9 DEF ASend2, AGoto
  <2>10. CASE ADone
    BY <2>10 DEF ADone, AGoto
  <2>11. CASE AWipe
    BY <2>11 DEF AWipe, AGoto
  <2>12. CASE AUp
    BY <2>12 DEF AUp, AGoto
  <2> QED
    BY <1>3, <2>1, <2>2, <2>3, <2>4, <2>5, <2>6, <2>7, <2>8, <2>9, <2>10, <2>11, <2>12 DEF Action
<1>4. CASE Read
  <2>1. CASE RSelect
    BY <2>1 DEF RSelect, RGoto
  <2>2. CASE RCopy
    BY <2>2 DEF RCopy, RGoto
  <2>3. CASE RClear
    BY <2>3 DEF RClear, RGoto
  <2>4. CASE RAdvance
    BY <2>4 DEF RAdvance, RGoto
  <2> QED
    BY <1>4, <2>1, <2>2, <2>3, <2>4 DEF Read
<1>5. CASE Close
  <2>1. CASE CDelete
    BY <2>1 DEF CDelete, Deleted
  <2>2. CASE CClose
    BY <2>2 DEF CClose
  <2>3. CASE CUp
    BY <2>3 DEF CUp
  <2>4. CASE CFree
    BY <2>4 DEF CFree
  <2> QED
    BY <1>5, <2>1, <2>2, <2>3, <2>4 DEF Close
<1>6. ASSUME NEW w \in Writers, WCall(w) \/ Write(w) \/ Restart(w)
      PROVE  TInv'
  <2>1. CASE WCall(w)
    BY <2>1 DEF WCall, WGoto
  <2>2. CASE WDown(w)
    BY <2>2 DEF WDown, WGoto
  <2>3. CASE WPoll(w)
    BY <2>3 DEF WPoll, WGoto
  <2>4. wpc[w] \in Holding => Current(w) \in Msg
    BY CurrentIsMsg
  <2>5. CASE WCopy1(w)
    <3>1. send_buf' \in [lo : Msg \cup {Zero}, hi : Msg \cup {Zero}]
      BY <2>5, <2>4 DEF WCopy1, WGoto
    <3>2. QED
      BY <2>5, <3>1, SMTT(30) DEF WCopy1, WGoto
  <2>6. CASE WCopy2(w)
    <3>1. send_buf' \in [lo : Msg \cup {Zero}, hi : Msg \cup {Zero}]
      BY <2>6, <2>4 DEF WCopy2, WGoto
    <3>2. QED
      BY <2>6, <3>1, SMTT(30) DEF WCopy2, WGoto
  <2>7. CASE WStart(w)
    BY <2>7, <2>4 DEF WStart, WGoto
  <2>8. CASE WWake(w)
    BY <2>8 DEF WWake, WGoto
  <2>9. CASE Restart(w)
    BY <2>9 DEF Restart, Deleted
  <2> QED
    BY <1>6, <2>1, <2>2, <2>3, <2>5, <2>6, <2>7, <2>8, <2>9 DEF Write
<1>7. CASE UNCHANGED vars
  BY <1>7 DEF vars
<1>8. QED
  BY <1>1, <1>2, <1>3, <1>4, <1>5, <1>6, <1>7 DEF Next

LEMMA TypeInit == Init => TInv
BY ConstantsAssumption DEF Init, TInv, TypeOK, ReadFits, Called, WriterPC,
   Holding, ActionPC, ReaderPC, ClosePC

\* The driver's state keeps its type, whatever the tasks, the interrupt and
\* the supervisor do, in any order.
THEOREM TypeCorrect == Spec => []TypeOK
<1>1. TInv => TypeOK
  BY DEF TInv
<1>2. QED
  BY <1>1, TypeInit, TypeInductive, PTL DEF Spec

-----------------------------------------------------------------------------
(***************************************************************************)
(* The permit.  OneSender is not inductive alone: that the permit is free  *)
(* again only after the buffer is clean needs to know what tx_start is     *)
(* while the action task sends, and that a missing permit (lost) stays     *)
(* missing.                                                                *)
(***************************************************************************)

Sending ==
  /\ apc \in {"send1", "send2", "done"} => tx_start = 1
  /\ apc \in {"wipe", "up"} => tx_start = 0

Permit == OneSender /\ PermitMeansIdle /\ PermitConserved /\ Sending

LEMMA PermitInductive == TInv /\ Permit /\ [Next]_vars => Permit'
<1> SUFFICES ASSUME TInv, Permit, [Next]_vars PROVE Permit'
    OBVIOUS
<1> USE ConstantsAssumption DEF TInv, TypeOK, WriterPC, Holding, ActionPC,
        Permit, OneSender, PermitMeansIdle, PermitConserved, Sending, TxFree,
        txVars, wrVars, delVars
<1>1. CASE Irq
  BY <1>1 DEF Irq
<1>2. CASE Silence
  BY <1>2 DEF Silence
<1>3. CASE Action
  <2>1. CASE ADown
    BY <2>1 DEF ADown, AGoto
  <2>2. CASE ACheckFd
    BY <2>2 DEF ACheckFd, AGoto
  <2>3. CASE ACheckRx
    BY <2>3 DEF ACheckRx, AGoto
  <2>4. CASE AWaitRx
    BY <2>4 DEF AWaitRx, AGoto
  <2>5. CASE AEvent
    BY <2>5 DEF AEvent, AGoto
  <2>6. CASE AClearRx
    BY <2>6 DEF AClearRx, AGoto
  <2>7. CASE ACheckTx
    BY <2>7 DEF ACheckTx, AGoto
  <2>8. CASE ASend1
    BY <2>8 DEF ASend1, AGoto
  <2>9. CASE ASend2
    BY <2>9 DEF ASend2, AGoto
  <2>10. CASE ADone
    BY <2>10 DEF ADone, AGoto
  <2>11. CASE AWipe
    BY <2>11 DEF AWipe, AGoto
  <2>12. CASE AUp
    BY <2>12 DEF AUp, AGoto
  <2> QED
    BY <1>3, <2>1, <2>2, <2>3, <2>4, <2>5, <2>6, <2>7, <2>8, <2>9, <2>10, <2>11, <2>12 DEF Action
<1>4. CASE Read
  BY <1>4 DEF Read, RSelect, RCopy, RClear, RAdvance, RGoto
<1>5. CASE Close
  <2>1. CASE CDelete
    BY <2>1 DEF CDelete, Deleted
  <2>2. CASE CClose
    BY <2>2 DEF CClose
  <2>3. CASE CUp
    BY <2>3 DEF CUp
  <2>4. CASE CFree
    BY <2>4 DEF CFree
  <2> QED
    BY <1>5, <2>1, <2>2, <2>3, <2>4 DEF Close
<1>6. ASSUME NEW w \in Writers, WCall(w) \/ Write(w) \/ Restart(w)
      PROVE  Permit'
  <2>1. CASE WCall(w)
    BY <2>1 DEF WCall, WGoto
  <2>2. CASE WDown(w)
    BY <2>2 DEF WDown, WGoto
  <2>3. CASE WPoll(w)
    BY <2>3 DEF WPoll, WGoto
  <2>4. CASE WCopy1(w)
    BY <2>4, SMTT(30) DEF WCopy1, WGoto
  <2>5. CASE WCopy2(w)
    BY <2>5, SMTT(30) DEF WCopy2, WGoto
  <2>6. CASE WStart(w)
    BY <2>6 DEF WStart, WGoto
  <2>7. CASE WWake(w)
    BY <2>7 DEF WWake, WGoto
  <2>8. CASE Restart(w)
    BY <2>8 DEF Restart, Deleted
  <2> QED
    BY <1>6, <2>1, <2>2, <2>3, <2>4, <2>5, <2>6, <2>7, <2>8 DEF Write
<1>7. CASE UNCHANGED vars
  BY <1>7 DEF vars
<1> QED
  BY <1>1, <1>2, <1>3, <1>4, <1>5, <1>6, <1>7 DEF Next

LEMMA PermitInit == Init => Permit
BY ConstantsAssumption DEF Init, Permit, OneSender, PermitMeansIdle,
   PermitConserved, Sending, TxFree, Holding

\* send_buf has one user at a time: one task between RtlDownSema and
\* tx_start = 1, or the action task sending and clearing.
THEOREM SingleSender == Spec => []OneSender
<1>1. Permit => OneSender
  BY DEF Permit
<1>2. QED
  BY <1>1, TypeInit, TypeInductive, PermitInit, PermitInductive, PTL DEF Spec

\* The error branch of uart_write that keeps the permit is never taken.
THEOREM NoSpinning == Spec => []PermitMeansIdle
<1>1. Permit => PermitMeansIdle
  BY DEF Permit
<1>2. QED
  BY <1>1, TypeInit, TypeInductive, PermitInit, PermitInductive, PTL DEF Spec

\* The permit disappears only with a task deleted inside uart_write.
THEOREM PermitAccounted == Spec => []PermitConserved
<1>1. Permit => PermitConserved
  BY DEF Permit
<1>2. QED
  BY <1>1, TypeInit, TypeInductive, PermitInit, PermitInductive, PTL DEF Spec

-----------------------------------------------------------------------------
(***************************************************************************)
(* The action semaphore: every reason to wake the action task is matched   *)
(* by an up of action_sema that is still there, or by an iteration of the  *)
(* handler that has not yet looked for that reason.                        *)
(***************************************************************************)

Wakeups ==
  /\ rx_start = 1 =>
       action_sema > 0 \/ apc \in {"fd", "rx", "wait", "event", "clear", "exit"}
  /\ tx_start = 1 =>
       \/ orphan = 1
       \/ \E w \in Writers : wpc[w] = "wake"
       \/ action_sema > 0
       \/ apc # "down"
  /\ cpc \in {"sleep", "freed"} => action_sema > 0 \/ apc \in {"fd", "exit"}

LEMMA WakeupsInductive == TInv /\ Permit /\ Wakeups /\ [Next]_vars => Wakeups'
<1> SUFFICES ASSUME TInv, Permit, Wakeups, [Next]_vars PROVE Wakeups'
    OBVIOUS
<1> USE ConstantsAssumption DEF TInv, TypeOK, WriterPC, Holding, ActionPC,
        ClosePC, Permit, OneSender, Sending, TxFree, Wakeups, Live, txVars,
        wrVars, delVars
<1>1. CASE Irq
  BY <1>1 DEF Irq
<1>2. CASE Silence
  BY <1>2 DEF Silence
<1>3. CASE Action
  <2>1. CASE ADown
    BY <2>1 DEF ADown, AGoto
  <2>2. CASE ACheckFd
    BY <2>2 DEF ACheckFd, AGoto
  <2>3. CASE ACheckRx
    BY <2>3 DEF ACheckRx, AGoto
  <2>4. CASE AWaitRx
    BY <2>4 DEF AWaitRx, AGoto
  <2>5. CASE AEvent
    BY <2>5 DEF AEvent, AGoto
  <2>6. CASE AClearRx
    BY <2>6 DEF AClearRx, AGoto
  <2>7. CASE ACheckTx
    BY <2>7 DEF ACheckTx, AGoto
  <2>8. CASE ASend1
    BY <2>8 DEF ASend1, AGoto
  <2>9. CASE ASend2
    BY <2>9 DEF ASend2, AGoto
  <2>10. CASE ADone
    BY <2>10 DEF ADone, AGoto
  <2>11. CASE AWipe
    BY <2>11 DEF AWipe, AGoto
  <2>12. CASE AUp
    BY <2>12 DEF AUp, AGoto
  <2> QED
    BY <1>3, <2>1, <2>2, <2>3, <2>4, <2>5, <2>6, <2>7, <2>8, <2>9, <2>10, <2>11, <2>12 DEF Action
<1>4. CASE Read
  BY <1>4 DEF Read, RSelect, RCopy, RClear, RAdvance, RGoto
<1>5. CASE Close
  <2>1. CASE CDelete
    BY <2>1 DEF CDelete, Deleted
  <2>2. CASE CClose
    BY <2>2 DEF CClose
  <2>3. CASE CUp
    BY <2>3 DEF CUp
  <2>4. CASE CFree
    BY <2>4 DEF CFree
  <2> QED
    BY <1>5, <2>1, <2>2, <2>3, <2>4 DEF Close
<1>6. ASSUME NEW w \in Writers, WCall(w) \/ Write(w) \/ Restart(w)
      PROVE  Wakeups'
  <2>1. CASE WCall(w)
    BY <2>1 DEF WCall, WGoto
  <2>2. CASE WDown(w)
    BY <2>2 DEF WDown, WGoto
  <2>3. CASE WPoll(w)
    BY <2>3 DEF WPoll, WGoto
  <2>4. CASE WCopy1(w)
    BY <2>4 DEF WCopy1, WGoto
  <2>5. CASE WCopy2(w)
    BY <2>5 DEF WCopy2, WGoto
  <2>6. CASE WStart(w)
    BY <2>6 DEF WStart, WGoto
  <2>7. CASE WWake(w)
    BY <2>7 DEF WWake, WGoto
  <2>8. CASE Restart(w)
    BY <2>8 DEF Restart, Deleted
  <2> QED
    BY <1>6, <2>1, <2>2, <2>3, <2>4, <2>5, <2>6, <2>7, <2>8 DEF Write
<1>7. CASE UNCHANGED vars
  BY <1>7 DEF vars
<1> QED
  BY <1>1, <1>2, <1>3, <1>4, <1>5, <1>6, <1>7 DEF Next

LEMMA WakeupsInit == Init => Wakeups
BY DEF Init, Wakeups

\* The action task never sleeps on received bytes, on a published message
\* or on a close request it was woken for.
THEOREM EveryWakeupCounts == Spec => []NoLostWakeup
<1>1. TInv /\ Wakeups => NoLostWakeup
  BY DEF TInv, TypeOK, Wakeups, NoLostWakeup
<1>2. QED
  BY <1>1, TypeInit, TypeInductive, PermitInit, PermitInductive,
     WakeupsInit, WakeupsInductive, PTL DEF Spec

-----------------------------------------------------------------------------
(***************************************************************************)
(* The driver implements module TxChannel.  The abstract slot is full from *)
(* the step that sets tx_start to the one that puts the last byte on the   *)
(* line; Content says what the buffer and the two histories hold then.     *)
(***************************************************************************)

Pending == tx_start = 1 /\ apc # "done"
Last == accepted[Len(accepted)]

Content ==
  /\ Len(accepted) = IF Pending THEN Len(wire) + 1 ELSE Len(wire)
  /\ Pending => send_buf.lo = Last /\ send_buf.hi = Last
  /\ apc = "send2" => half = Last
  /\ \A w \in Writers : wpc[w] = "copy2" => send_buf.lo = Current(w)
  /\ \A w \in Writers : wpc[w] = "start" =>
       send_buf.lo = Current(w) /\ send_buf.hi = Current(w)

LEMMA ContentInductive == TInv /\ Permit /\ Content /\ [Next]_vars => Content'
<1> SUFFICES ASSUME TInv, Permit, Content, [Next]_vars PROVE Content'
    OBVIOUS
<1> USE ConstantsAssumption DEF TInv, TypeOK, WriterPC, Holding, ActionPC,
        Permit, OneSender, Sending, TxFree, Content, Pending, Last, Current,
        txVars, wrVars, delVars
<1>1. CASE Irq
  BY <1>1 DEF Irq
<1>2. CASE Silence
  BY <1>2 DEF Silence
<1>3. CASE Action
  <2>1. CASE ADown
    BY <2>1 DEF ADown, AGoto
  <2>2. CASE ACheckFd
    BY <2>2 DEF ACheckFd, AGoto
  <2>3. CASE ACheckRx
    BY <2>3 DEF ACheckRx, AGoto
  <2>4. CASE AWaitRx
    BY <2>4 DEF AWaitRx, AGoto
  <2>5. CASE AEvent
    BY <2>5 DEF AEvent, AGoto
  <2>6. CASE AClearRx
    BY <2>6 DEF AClearRx, AGoto
  <2>7. CASE ACheckTx
    BY <2>7 DEF ACheckTx, AGoto
  <2>8. CASE ASend1
    BY <2>8 DEF ASend1, AGoto
  <2>9. CASE ASend2
    BY <2>9 DEF ASend2, AGoto
  <2>10. CASE ADone
    BY <2>10 DEF ADone, AGoto
  <2>11. CASE AWipe
    BY <2>11 DEF AWipe, AGoto
  <2>12. CASE AUp
    BY <2>12 DEF AUp, AGoto
  <2> QED
    BY <1>3, <2>1, <2>2, <2>3, <2>4, <2>5, <2>6, <2>7, <2>8, <2>9, <2>10, <2>11, <2>12 DEF Action
<1>4. CASE Read
  BY <1>4 DEF Read, RSelect, RCopy, RClear, RAdvance, RGoto
<1>5. CASE Close
  <2>1. CASE CDelete
    BY <2>1 DEF CDelete, Deleted
  <2>2. CASE CClose
    BY <2>2 DEF CClose
  <2>3. CASE CUp
    BY <2>3 DEF CUp
  <2>4. CASE CFree
    BY <2>4 DEF CFree
  <2> QED
    BY <1>5, <2>1, <2>2, <2>3, <2>4 DEF Close
<1>6. ASSUME NEW w \in Writers, WCall(w) \/ Write(w) \/ Restart(w)
      PROVE  Content'
  <2>1. CASE WCall(w)
    BY <2>1 DEF WCall, WGoto
  <2>2. CASE WDown(w)
    BY <2>2 DEF WDown, WGoto
  <2>3. CASE WPoll(w)
    BY <2>3 DEF WPoll, WGoto
  <2>4. CASE WCopy1(w)
    BY <2>4 DEF WCopy1, WGoto
  <2>5. CASE WCopy2(w)
    BY <2>5 DEF WCopy2, WGoto
  <2>6. CASE WStart(w)
    <3>1. Len(accepted) = Len(wire) /\ apc \notin {"send1", "send2", "done"}
      BY <2>6 DEF WStart, WGoto
    <3>2. accepted' = Append(accepted, <<w, calls[w]>>)
      BY <2>6 DEF WStart
    <3>3. <<w, calls[w]>> \in Msg
      BY <2>6, CurrentIsMsg DEF WStart, WGoto, Called
    <3>4. Len(accepted') = Len(accepted) + 1 /\ Last' = <<w, calls[w]>>
      BY <3>2, <3>3
    <3>5. send_buf'.lo = <<w, calls[w]>> /\ send_buf'.hi = <<w, calls[w]>>
      BY <2>6 DEF WStart, WGoto
    <3>6. \A v \in Writers : wpc'[v] \notin {"copy2", "start"}
      BY <2>6 DEF WStart, WGoto
    <3>7. wire' = wire /\ tx_start' = 1 /\ apc' = apc
      BY <2>6 DEF WStart
    <3>8. QED
      BY <3>1, <3>4, <3>5, <3>6, <3>7
  <2>7. CASE WWake(w)
    BY <2>7 DEF WWake, WGoto
  <2>8. CASE Restart(w)
    BY <2>8 DEF Restart, Deleted
  <2> QED
    BY <1>6, <2>1, <2>2, <2>3, <2>4, <2>5, <2>6, <2>7, <2>8 DEF Write
<1>7. CASE UNCHANGED vars
  BY <1>7 DEF vars
<1> QED
  BY <1>1, <1>2, <1>3, <1>4, <1>5, <1>6, <1>7 DEF Next


LEMMA ContentInit == Init => Content
BY DEF Init, Content, Pending

LEMMA ZeroIsNoMsg == Zero \notin Msg
BY DEF Zero, Msg

\* Steps that add to neither history stutter in TxChannel.
LEMMA Stutter ==
  ASSUME UNCHANGED <<accepted, wire>>
  PROVE  UNCHANGED <<Slot, Out>>
BY DEF Slot, Out, InFlight, Whole

LEMMA StartAccepts ==
  ASSUME TInv, Permit, Content, NEW w \in Writers, WStart(w)
  PROVE  Channel!Accept
<1>1. Len(accepted) = Len(wire) /\ accepted \in Seq(Msg)
  BY DEF WStart, WGoto, TInv, TypeOK, Permit, OneSender, Holding, TxFree,
     Content, Pending
<1>2. Current(w) \in Msg
  BY CurrentIsMsg DEF TInv, Called, WStart, WGoto
<1>3. accepted' = Append(accepted, Current(w)) /\ wire' = wire
  BY DEF WStart
<1>4. Len(wire) \in Nat
  BY DEF TInv, TypeOK
<1>5. ~InFlight /\ InFlight' /\ accepted'[Len(accepted')] = Current(w)
  BY <1>1, <1>2, <1>3, <1>4 DEF InFlight
<1>6. Slot = Zero /\ Slot' = Current(w)
  BY <1>5 DEF Slot
<1>7. Out' = Out
  BY <1>3 DEF Out, Whole
<1>8. QED
  BY <1>2, <1>6, <1>7 DEF Channel!Accept

LEMMA SendTransmits ==
  ASSUME TInv, Permit, Content, ASend2
  PROVE  Channel!Transmit
<1>1. Pending /\ accepted \in Seq(Msg) /\ Len(wire) \in Nat
  BY DEF ASend2, AGoto, TInv, TypeOK, Permit, Sending, Pending
<1>2. Len(accepted) = Len(wire) + 1 /\ Last \in Msg
  BY <1>1 DEF Content, Last
<1>3. wire' = Append(wire, <<Last, Last>>) /\ accepted' = accepted
  BY <1>1 DEF ASend2, AGoto, Content
<1>4. Slot = Last /\ Slot # Zero
  BY <1>2, <1>1, ZeroIsNoMsg DEF Slot, InFlight, Last
<1>5. Slot' = Zero
  <2>1. Len(wire') = Len(wire) + 1
    BY <1>3 DEF TInv, TypeOK
  <2>2. QED
    BY <2>1, <1>1, <1>2, <1>3 DEF Slot, InFlight
<1>6. Out' = Append(Out, Last)
  <2>1. Len(wire') = Len(wire) + 1
    BY <1>3 DEF TInv, TypeOK
  <2>2. \A i \in 1 .. Len(wire) : wire'[i] = wire[i]
    BY <1>3 DEF TInv, TypeOK
  <2>3. Whole(wire'[Len(wire) + 1]) = Last
    BY <1>3 DEF Whole, TInv, TypeOK
  <2>4. Out' = [i \in 1 .. Len(wire) + 1 |->
                  IF i \in 1 .. Len(wire) THEN Out[i] ELSE Last]
    BY <1>1, <2>1, <2>2, <2>3 DEF Out, Whole
  <2>5. Len(Out) = Len(wire)
    BY <1>1 DEF Out
  <2>6. QED
    BY <1>1, <2>4, <2>5 DEF Out
<1>7. QED
  BY <1>4, <1>5, <1>6 DEF Channel!Transmit

LEMMA StepSimulation ==
  TInv /\ Permit /\ Content /\ [Next]_vars => [Channel!Next]_<<Slot, Out>>
<1> SUFFICES ASSUME TInv, Permit, Content, [Next]_vars
             PROVE  Channel!Next \/ UNCHANGED <<Slot, Out>>
    OBVIOUS
<1>1. CASE UNCHANGED <<accepted, wire>>
  BY <1>1, Stutter
<1>2. ASSUME NEW w \in Writers, WStart(w)
      PROVE  Channel!Next
  BY <1>2, StartAccepts DEF Channel!Next
<1>3. CASE ASend2
  BY <1>3, SendTransmits DEF Channel!Next
<1>4. ASSUME NEW w \in Writers, WCall(w) \/ Write(w) \/ Restart(w), ~WStart(w)
      PROVE  UNCHANGED <<accepted, wire>>
  BY <1>4 DEF Write, WCall, WDown, WPoll, WCopy1, WCopy2, WWake, Restart, txVars
<1>5. ASSUME Action, ~ASend2
      PROVE  UNCHANGED <<accepted, wire>>
  BY <1>5 DEF Action, ADown, ACheckFd, ACheckRx, AWaitRx, AEvent, AClearRx,
     ACheckTx, ASend1, ADone, AWipe, AUp, txVars
<1>6. ASSUME Irq \/ Silence \/ Read \/ Close \/ UNCHANGED vars
      PROVE  UNCHANGED <<accepted, wire>>
  BY <1>6 DEF Irq, Silence, Read, RSelect, RCopy, RClear, RAdvance, Close,
     CDelete, CClose, CUp, CFree, vars, txVars
<1>7. QED
  BY <1>1, <1>2, <1>3, <1>4, <1>5, <1>6 DEF Next

\* Every message uart_write accepts leaves on the line whole, once and in
\* order, one at a time: the driver implements TxChannel.
THEOREM DriverImplementsTxChannel == Spec => ImplementsTxChannel
<1>1. Init => Channel!Init
  BY DEF Init, Channel!Init, Slot, Out, InFlight
<1>2. QED
  BY <1>1, TypeInit, TypeInductive, PermitInit, PermitInductive, ContentInit,
     ContentInductive, StepSimulation, PTL
     DEF Spec, ImplementsTxChannel, Channel!Spec

-----------------------------------------------------------------------------
(***************************************************************************)
(* The supervisor uart_start_h, for any sleep and any two time limits.     *)
(* The invariant: where the supervisor stands bounds the silence of each   *)
(* task from both sides.                                                   *)
(***************************************************************************)
Other(t) == IF t = "uart" THEN "hap" ELSE "uart"

\* Ticks until the supervisor's wait for t ends, at most.
Due(t) ==
  CASE whom = t /\ sup = "take" -> left
    [] whom = t /\ sup = "delete" -> 0
    [] sup = "delay" -> left + UartWait + (IF t = "hap" THEN HapWait ELSE 0)
    [] whom # t /\ sup = "take" -> left + Wait(t) + (IF t = "uart" THEN Delay ELSE 0)
    [] whom # t /\ sup = "delete" -> Wait(t) + (IF t = "uart" THEN Delay ELSE 0)

\* Ticks since the supervisor was last done with t, at least.
Elapsed(t) ==
  CASE whom = t /\ sup = "take" -> Delay + Wait(t) - left
    [] whom = t /\ sup = "delete" -> 0
    [] sup = "delay" -> Delay - left
    [] whom # t /\ sup # "delay" -> IF t = "hap" THEN Delay ELSE 0

Cycle == Delay + UartWait + HapWait

\* A given semaphore is taken within this cycle, one not given is missed in it.
InTime(t) ==
  /\ sema[t] => silent[t] + Due(t) <= Cycle
  /\ ~sema[t] => silent[t] + Due(t) <= Limit(t)
  /\ sup = "take" /\ whom = t /\ sema[t] => silent[t] <= Delay + Wait(Other(t))

\* A task whose semaphore is not given has not given it since it was taken.
Heard(t) ==
  /\ ~sema[t] => silent[t] >= Elapsed(t)
  /\ silent[t] >= Patience(t) => slow[t]

SupInv == SupTypeOK /\ OnlySlowDeleted /\ \A t \in Tasks : InTime(t) /\ Heard(t)

-----------------------------------------------------------------------------
LEMMA SupTypeInit == SupInit => SupTypeOK
BY TimeAssumption DEF SupInit, SupTypeOK, Tasks

LEMMA SupTypeInductive == SupTypeOK /\ [SupNext]_supVars => SupTypeOK'
<1> SUFFICES ASSUME SupTypeOK, [SupNext]_supVars PROVE SupTypeOK'
    OBVIOUS
<1> USE TimeAssumption DEF Tasks
<1>1. ASSUME NEW t \in Tasks, Beat(t) PROVE SupTypeOK'
  BY <1>1 DEF Beat, SupTypeOK
<1>2. ASSUME NEW t \in Tasks, Hang(t) PROVE SupTypeOK'
  BY <1>2 DEF Hang, SupTypeOK
<1>3. CASE Wake
  BY <1>3 DEF Wake, SupTypeOK, Wait
<1>4. CASE Take
  BY <1>4 DEF Take, MoveOn, SupTypeOK, Wait
<1>5. CASE GiveUp
  BY <1>5 DEF GiveUp, SupTypeOK, Wait
<1>6. CASE Replace
  BY <1>6 DEF Replace, MoveOn, SupTypeOK, Wait
<1>7. CASE Tick
  BY <1>7 DEF Tick, SupTypeOK, Wait
<1>8. CASE UNCHANGED supVars
  BY <1>8 DEF supVars, SupTypeOK, Wait
<1>9. QED
  BY <1>1, <1>2, <1>3, <1>4, <1>5, <1>6, <1>7, <1>8 DEF SupNext

(***************************************************************************)
(* Every variable keeps its type.                                          *)
(***************************************************************************)
THEOREM SupTypeCorrect == SupSpec => []SupTypeOK
BY SupTypeInit, SupTypeInductive, PTL DEF SupSpec

-----------------------------------------------------------------------------
LEMMA SupInvInit == SupInit => SupInv
<1> SUFFICES ASSUME SupInit PROVE SupInv
    OBVIOUS
<1>1. SupTypeOK
  BY SupTypeInit
<1>2. ASSUME NEW t \in Tasks PROVE InTime(t) /\ Heard(t)
  BY TimeAssumption DEF SupInit, InTime, Heard, Due, Elapsed, Cycle, Limit, Patience, Wait, Tasks
<1>3. OnlySlowDeleted
  BY DEF SupInit, OnlySlowDeleted
<1>4. QED
  BY <1>1, <1>2, <1>3 DEF SupInv

LEMMA SupInvStep ==
  ASSUME SupInv, [SupNext]_supVars, NEW u \in Tasks
  PROVE  OnlySlowDeleted' /\ InTime(u)' /\ Heard(u)'
<1>a. SupTypeOK /\ SupTypeOK' /\ InTime(u) /\ Heard(u)
  BY SupTypeInductive DEF SupInv
<1>b. Delay \in Nat \ {0} /\ UartWait \in Nat \ {0} /\ HapWait \in Nat \ {0}
  BY TimeAssumption
<1> DEFINE Kept == OnlySlowDeleted' /\ InTime(u)' /\ Heard(u)'
<1>1. ASSUME NEW t \in Tasks, Beat(t) PROVE Kept
  BY <1>a, <1>b, <1>1 DEF Beat,
     SupInv, SupTypeOK, OnlySlowDeleted, InTime, Heard, Due, Elapsed, Cycle,
     Limit, Patience, Wait, Other, Tasks
<1>2. ASSUME NEW t \in Tasks, Hang(t) PROVE Kept
  BY <1>a, <1>b, <1>2 DEF Hang,
     SupInv, SupTypeOK, OnlySlowDeleted, InTime, Heard, Due, Elapsed, Cycle,
     Limit, Patience, Wait, Other, Tasks
<1>3. CASE Wake
  BY <1>a, <1>b, <1>3 DEF Wake,
     SupInv, SupTypeOK, OnlySlowDeleted, InTime, Heard, Due, Elapsed, Cycle,
     Limit, Patience, Wait, Other, Tasks
<1>4. CASE Take
  BY <1>a, <1>b, <1>4 DEF Take, MoveOn,
     SupInv, SupTypeOK, OnlySlowDeleted, InTime, Heard, Due, Elapsed, Cycle,
     Limit, Patience, Wait, Other, Tasks
<1>5. CASE GiveUp
  BY <1>a, <1>b, <1>5 DEF GiveUp,
     SupInv, SupTypeOK, OnlySlowDeleted, InTime, Heard, Due, Elapsed, Cycle,
     Limit, Patience, Wait, Other, Tasks
<1>6. CASE Replace
  <2>1. OnlySlowDeleted'
    BY <1>6 DEF Replace, MoveOn, OnlySlowDeleted
  <2>2. /\ silent[u] \in Nat /\ silent'[u] = (IF u = whom THEN 0 ELSE silent[u])
        /\ slow'[u] = (IF u = whom THEN FALSE ELSE slow[u])
        /\ sema' = sema
    BY <1>a, <1>6 DEF Replace, SupTypeOK
  <2>3. InTime(u)'
    BY <1>a, <1>b, <1>6, <2>2 DEF Replace, MoveOn, SupTypeOK, InTime, Due, Cycle, Limit, Wait, Other, Tasks
  <2>4. Heard(u)'
    BY <1>a, <1>b, <1>6, <2>2 DEF Replace, MoveOn, SupTypeOK, Heard, Elapsed, Patience, Wait, Tasks
  <2>5. QED
    BY <2>1, <2>3, <2>4
<1>7. CASE Tick
  <2>1. OnlySlowDeleted'
    BY <1>7 DEF Tick, OnlySlowDeleted
  <2>2. /\ silent[u] \in Nat /\ silent'[u] = silent[u] + 1
        /\ slow'[u] = (slow[u] \/ silent[u] + 1 >= Patience(u))
    BY <1>a, <1>7 DEF Tick, SupTypeOK
  <2>3. InTime(u)'
    BY <1>a, <1>b, <1>7, <2>2 DEF Tick, SupTypeOK, InTime, Due, Cycle, Limit, Wait, Other, Tasks
  <2>4. ~sema[u] => silent'[u] >= Elapsed(u)'
    BY <1>a, <1>b, <1>7, <2>2 DEF Tick, SupTypeOK, Heard, Elapsed, Wait, Tasks
  <2>5. Patience(u) \in Nat
    BY <1>b DEF Patience, Wait
  <2>6. silent'[u] >= Patience(u) => slow'[u]
    BY <2>2, <2>5
  <2>7. QED
    BY <1>7, <2>1, <2>3, <2>4, <2>6 DEF Heard, Tick, Patience, Wait
<1>8. CASE UNCHANGED supVars
  BY <1>a, <1>b, <1>8 DEF supVars,
     SupInv, SupTypeOK, OnlySlowDeleted, InTime, Heard, Due, Elapsed, Cycle,
     Limit, Patience, Wait, Other, Tasks
<1>9. QED
  BY <1>1, <1>2, <1>3, <1>4, <1>5, <1>6, <1>7, <1>8 DEF SupNext

LEMMA SupInvInductive == SupInv /\ [SupNext]_supVars => SupInv'
<1> SUFFICES ASSUME SupInv, [SupNext]_supVars PROVE SupInv'
    OBVIOUS
<1>1. SupTypeOK'
  BY SupTypeInductive DEF SupInv
<1>2. OnlySlowDeleted' /\ \A u \in Tasks : InTime(u)' /\ Heard(u)'
  <2>1. \A u \in Tasks : OnlySlowDeleted' /\ InTime(u)' /\ Heard(u)'
    BY SupInvStep
  <2>2. "uart" \in Tasks
    BY DEF Tasks
  <2>3. QED
    BY <2>1, <2>2
<1>3. QED
  BY <1>1, <1>2 DEF SupInv

LEMMA SupInvAlways == SupSpec => []SupInv
BY SupInvInit, SupInvInductive, PTL DEF SupSpec

(***************************************************************************)
(* A task is deleted only after a silence of the supervisor's sleep and    *)
(* the limit of its own semaphore.                                         *)
(***************************************************************************)
THEOREM DeletedOnlyWhenSlow == SupSpec => []OnlySlowDeleted
<1>1. SupInv => OnlySlowDeleted
  BY DEF SupInv
<1>2. QED
  BY <1>1, SupInvAlways, PTL

(***************************************************************************)
(* No task is silent for longer than two rounds of the supervisor allow.   *)
(***************************************************************************)
THEOREM SilenceIsBounded == SupSpec => []SilenceBounded
<1>1. SupInv => SilenceBounded
  BY TimeAssumption DEF SupInv, SupTypeOK, InTime, Due, SilenceBounded, Cycle, Limit, Wait, Tasks
<1>2. QED
  BY <1>1, SupInvAlways, PTL
=============================================================================
