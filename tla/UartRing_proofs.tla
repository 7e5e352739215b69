--------------------------- MODULE UartRing_proofs ---------------------------
(***************************************************************************)
(* Proofs about the receive ring, for any size of recv_buf and of the      *)
(* caller's buffer and any number of bytes.                                *)
(***************************************************************************)
EXTENDS UartRing, SequenceTheorems, TLAPS

-----------------------------------------------------------------------------
(***************************************************************************)
(* Types: these hold whenever the interrupt comes, overrun or not.         *)
(***************************************************************************)

\* A sum of two indices takes the modulus at most one turn back.
LEMMA Wrap ==
  ASSUME NEW p \in 0 .. BufLen - 1, NEW i \in 0 .. BufLen
  PROVE  (p + i) % BufLen = IF p + i < BufLen THEN p + i ELSE p + i - BufLen
BY ConstantsAssumption

LEMMA InRange == ASSUME NEW k \in 0 .. BufLen - 1 PROVE k % BufLen = k
<1>1. ASSUME NEW i \in 0 .. BufLen, i = 0 PROVE k % BufLen = k
  <2>1. (k + i) % BufLen = IF k + i < BufLen THEN k + i ELSE k + i - BufLen
    BY Wrap
  <2>2. k + i = k /\ k < BufLen
    BY <1>1, ConstantsAssumption
  <2>3. QED
    BY <2>1, <2>2
<1>2. 0 \in 0 .. BufLen
  BY ConstantsAssumption
<1>3. QED
  BY <1>1, <1>2

\* So that a cell is found without it.
CellOf(buf, p, i, o) ==
  IF p + i < BufLen THEN buf[p + i] ELSE IF o = 1 THEN buf[p + i - BufLen] ELSE Garbage

LEMMA CellIs ==
  ASSUME NEW p \in 0 .. BufLen - 1, NEW i \in 0 .. BufLen - 1, NEW o
  PROVE  Cell(p, i, o) = CellOf(recv_buf, p, i, o)
<1>1. (p + i) % BufLen = IF p + i < BufLen THEN p + i ELSE p + i - BufLen
  BY Wrap, ConstantsAssumption
<1>2. QED
  BY <1>1 DEF Cell, CellOf

LEMMA CellIsNext ==
  ASSUME NEW i \in 0 .. BufLen - 1, prxread' \in 0 .. BufLen - 1
  PROVE  Cell(prxread, i, Flag)' = CellOf(recv_buf', prxread', i, Flag')
<1>1. PICK p \in 0 .. BufLen - 1 : p = prxread'
  OBVIOUS
<1>2. (p + i) % BufLen = IF p + i < BufLen THEN p + i ELSE p + i - BufLen
  BY Wrap, ConstantsAssumption
<1>3. Cell(prxread, i, Flag)' =
        IF p + i < BufLen THEN recv_buf'[p + i]
        ELSE IF Flag' = 1 THEN recv_buf'[(p + i) % BufLen] ELSE Garbage
  BY <1>1 DEF Cell
<1>4. QED
  BY <1>1, <1>2, <1>3 DEF CellOf

LEMMA CellType ==
  ASSUME TypeOK, NEW p \in 0 .. BufLen - 1, NEW i \in 0 .. ReadSize - 1, NEW o \in {0, 1}
  PROVE  Cell(p, i, o) \in Nat \cup {Garbage}
<1>1. i \in 0 .. BufLen - 1
  BY ConstantsAssumption
<1>2. CellOf(recv_buf, p, i, o) \in Nat \cup {Garbage}
  BY <1>1, ConstantsAssumption DEF CellOf, TypeOK
<1>3. QED
  BY <1>1, <1>2, CellIs

LEMMA TypeInductive == TypeOK /\ [Next]_vars => TypeOK'
<1> SUFFICES ASSUME TypeOK, [Next]_vars PROVE TypeOK'
    OBVIOUS
<1> USE ConstantsAssumption DEF TypeOK, ringVars, localVars, readVars
<1>1. CASE Irq
  <2>1. prxwrite' \in 0 .. BufLen - 1
    <3>1. (prxwrite + 1) % BufLen \in 0 .. BufLen - 1
      OBVIOUS
    <3>2. QED
      BY <1>1, <3>1 DEF Irq
  <2>2. prxread' \in 0 .. BufLen - 1
    BY <1>1, <2>1 DEF Irq
  <2>3. gone' \in Nat
    BY <1>1, <2>2 DEF Irq, Pushed
  <2>4. QED
    BY <1>1, <2>1, <2>2, <2>3 DEF Irq
<1>2. CASE ReadIndex
  BY <1>2 DEF ReadIndex, RGoto
<1>3. CASE ReadLimit
  BY <1>3 DEF ReadLimit, RGoto
<1>4. CASE ReadCount
  <2>1. Unread(pread_local, pwrite_local, rxoverlap) \in Int
    BY DEF Unread
  <2>2. read_bytes' \in 0 .. ReadSize
    BY <1>4, <2>1 DEF ReadCount
  <2>3. QED
    BY <1>4, <2>2 DEF ReadCount, RGoto
<1>5. CASE ReadTest
  BY <1>5 DEF ReadTest, RGoto
<1>6. CASE ReadCopy
  <2>1. Len(chunk) \in 0 .. ReadSize - 1
    BY <1>6 DEF ReadCopy
  <2>2. Cell(pread_local, Len(chunk), through) \in Nat \cup {Garbage}
    BY <2>1, CellType
  <2>3. chunk' \in Seq(Nat \cup {Garbage}) /\ Len(chunk') = Len(chunk) + 1
    BY <1>6, <2>2 DEF ReadCopy
  <2>4. QED
    BY <1>6, <2>1, <2>3 DEF ReadCopy, RGoto
<1>7. CASE ReadAdvance
  <2>1. prxread' \in 0 .. BufLen - 1
    <3>1. (pread_local + read_bytes) % BufLen \in 0 .. BufLen - 1
      OBVIOUS
    <3>2. QED
      BY <1>7, <3>1 DEF ReadAdvance
  <2>2. gone' \in Nat /\ pc' \in {"idle", "clear"}
    BY <1>7 DEF ReadAdvance, RGoto
  <2>3. returned' \in Seq(Nat \cup {Garbage}) /\ chunk' = <<>>
    BY <1>7 DEF ReadAdvance
  <2>4. QED
    BY <1>7, <2>1, <2>2, <2>3 DEF ReadAdvance
<1>8. CASE ReadClear
  BY <1>8 DEF ReadClear, RGoto
<1>9. CASE UNCHANGED vars
  BY <1>9 DEF vars
<1>10. QED
  BY <1>1, <1>2, <1>3, <1>4, <1>5, <1>6, <1>7, <1>8, <1>9 DEF Next, Read

LEMMA TypeInit == Init => TypeOK
BY ConstantsAssumption DEF Init, TypeOK

\* The indices never leave recv_buf and a read never passes the end of rxbuf,
\* even when the ring overruns or wraps during a read.
THEOREM TypeCorrect == Spec => []TypeOK
BY TypeInit, TypeInductive, PTL DEF Spec

-----------------------------------------------------------------------------
(***************************************************************************)
(* The ring as a queue: where the backlog fits in it, and no byte fills    *)
(* its last cell while uart_read runs.                                     *)
(***************************************************************************)
Fits == Preempt = "nowrap" /\ MaxBacklog <= BufLen

\* The indices and the flag tell the backlog.
Counted ==
  /\ Flag = 0 => prxread <= prxwrite
  /\ Flag = 1 => prxwrite <= prxread
  /\ Unread(prxread, prxwrite, Flag) = Backlog

\* The bytes prxread has not passed are in the ring, in order.
Held == \A i \in 0 .. Backlog - 1 : Cell(prxread, i, Flag) = gone + i + 1

\* What uart_read remembers is not outrun by the interrupt.
Remembered ==
  /\ pc \notin {"idle", "clear"} => pread_local = prxread
  /\ pc = "count" => /\ pwrite_local <= prxwrite
                     /\ rxoverlap = 0 => pread_local <= pwrite_local
  /\ pc \in {"test", "copy"} => read_bytes <= Backlog
  /\ pc = "copy" => /\ through = rxoverlap
                    /\ chunk = [i \in 1 .. Len(chunk) |-> gone + i]
  /\ pc = "clear" => rxoverlap = 1

RingInv == TypeOK /\ Counted /\ Held /\ Remembered

LEMMA BacklogType ==
  ASSUME TypeOK, Counted
  PROVE  gone \in Nat /\ Backlog \in 0 .. BufLen /\ Flag \in {0, 1}
BY ConstantsAssumption DEF TypeOK, Counted, Unread, Backlog, Flag

LEMMA RingInit == Init => RingInv
<1> SUFFICES ASSUME Init PROVE RingInv
    OBVIOUS
<1>1. Backlog = 0 /\ Flag = 0
  BY DEF Init, Backlog, Flag
<1>2. QED
  BY <1>1, TypeInit DEF Init, RingInv, Counted, Held, Remembered, Unread

\* The interrupt moves prxwrite alone: prxread is pushed only to where it is.
\* Between the two stores of a read that wrapped it is not: then a byte takes
\* all that is unread with it.
LEMMA IrqMoves ==
  ASSUME Fits, RingInv, Irq
  PROVE  /\ recv_buf' = [recv_buf EXCEPT ![prxwrite] = arrived + 1]
         /\ UNCHANGED readVars /\ Backlog < BufLen
         /\ pc # "clear" => /\ prxread' = prxread /\ gone' = gone
                            /\ Backlog' = Backlog + 1
         /\ pc = "clear" => /\ prxread' = prxwrite' /\ rxoverlap' = 1
                            /\ Backlog' = 0
         /\ \/ /\ prxwrite + 1 < BufLen /\ prxwrite' = prxwrite + 1 /\ rxoverlap' = rxoverlap
            \/ /\ prxwrite + 1 = BufLen /\ prxwrite' = 0
               /\ rxoverlap = 0 /\ rxoverlap' = 1 /\ pc = "idle"
<1> USE ConstantsAssumption DEF RingInv, TypeOK
<1>1. Backlog \in 0 .. BufLen - 1 /\ gone \in Nat
  BY BacklogType DEF Fits, Irq
<1>2. prxwrite' = IF prxwrite + 1 < BufLen THEN prxwrite + 1 ELSE 0
  <2>1. prxwrite \in 0 .. BufLen - 1 /\ 1 \in 0 .. BufLen
    OBVIOUS
  <2>2. (prxwrite + 1) % BufLen = IF prxwrite + 1 < BufLen THEN prxwrite + 1
                                                       ELSE prxwrite + 1 - BufLen
    BY <2>1, Wrap
  <2>3. QED
    BY <2>1, <2>2 DEF Irq
<1>3. pc # "clear" /\ rxoverlap = 1 => prxwrite < prxread
  BY <1>1 DEF Counted, Unread, Flag
<1>4. prxwrite + 1 = BufLen => rxoverlap = 0 /\ pc = "idle"
  BY <1>3 DEF Irq, MayInterrupt, Fits
<1>5. rxoverlap' = IF prxwrite + 1 < BufLen THEN rxoverlap ELSE 1
  BY <1>2 DEF Irq
<1>6. ASSUME pc # "clear" PROVE prxread' = prxread /\ gone' = gone /\ Backlog' = Backlog + 1
  <2>1. prxread' = prxread
    BY <1>2, <1>3, <1>5, <1>6 DEF Irq
  <2>2. Pushed = 0
    BY <2>1 DEF Pushed
  <2>3. gone' = gone /\ arrived' = arrived + 1
    BY <2>2 DEF Irq
  <2>4. QED
    BY <2>1, <2>3 DEF Backlog
<1>7. ASSUME pc = "clear" PROVE prxread' = prxwrite' /\ rxoverlap' = 1 /\ Backlog' = 0
  <2>1. rxoverlap = 1 /\ prxread <= prxwrite /\ Backlog = prxwrite - prxread
    BY <1>7 DEF Remembered, Counted, Flag, Unread
  <2>2. prxwrite + 1 < BufLen
    BY <1>4, <1>7
  <2>3. prxwrite' = prxwrite + 1 /\ rxoverlap' = 1
    BY <1>2, <1>5, <2>1, <2>2
  <2>4. prxread' = prxwrite'
    BY <2>1, <2>3 DEF Irq
  <2>5. Pushed = Backlog + 1
    <3>1. Backlog + 1 \in 0 .. BufLen - 1
      BY <2>1, <2>2
    <3>2. (Backlog + 1) % BufLen = Backlog + 1
      BY <3>1, InRange
    <3>3. prxread' - prxread = Backlog + 1
      BY <2>1, <2>3, <2>4
    <3>4. QED
      BY <3>2, <3>3 DEF Pushed
  <2>6. gone' = gone + Backlog + 1 /\ arrived' = arrived + 1
    BY <1>1, <2>5 DEF Irq
  <2>7. QED
    BY <1>1, <2>3, <2>4, <2>6 DEF Backlog
<1>8. UNCHANGED readVars /\ recv_buf' = [recv_buf EXCEPT ![prxwrite] = arrived + 1]
  BY DEF Irq
<1>9. \/ /\ prxwrite + 1 < BufLen /\ prxwrite' = prxwrite + 1 /\ rxoverlap' = rxoverlap
      \/ /\ prxwrite + 1 = BufLen /\ prxwrite' = 0
         /\ rxoverlap = 0 /\ rxoverlap' = 1 /\ pc = "idle"
  BY <1>2, <1>4, <1>5
<1>10. QED
  BY <1>1, <1>6, <1>7, <1>8, <1>9

LEMMA RingInductive == ASSUME Fits, RingInv, [Next]_vars PROVE RingInv'
<1>0. TypeOK'
  BY TypeInductive DEF RingInv
<1>a. gone \in Nat /\ Backlog \in 0 .. BufLen /\ Flag \in {0, 1}
  BY BacklogType DEF RingInv
<1> USE ConstantsAssumption DEF RingInv, TypeOK
<1>1. CASE Irq /\ pc # "clear"
  <2>0. /\ prxread' = prxread /\ gone' = gone
        /\ recv_buf' = [recv_buf EXCEPT ![prxwrite] = arrived + 1]
        /\ Backlog' = Backlog + 1 /\ Backlog < BufLen
        /\ UNCHANGED readVars
        /\ Flag = rxoverlap /\ Flag' = rxoverlap'
        /\ \/ /\ prxwrite + 1 < BufLen /\ prxwrite' = prxwrite + 1 /\ rxoverlap' = rxoverlap
           \/ /\ prxwrite + 1 = BufLen /\ prxwrite' = 0
              /\ rxoverlap = 0 /\ rxoverlap' = 1 /\ pc = "idle"
    BY <1>1, IrqMoves DEF Flag, readVars
  <2>1. Counted'
    <3>0. Unread(prxread, prxwrite, Flag)' = Unread(prxread', prxwrite', rxoverlap')
      BY <2>0 DEF Unread
    <3>1. CASE prxwrite + 1 < BufLen
      <4>1. prxwrite' = prxwrite + 1 /\ rxoverlap' = rxoverlap
        BY <2>0, <3>1
      <4>2. /\ Unread(prxread, prxwrite, Flag)' = Unread(prxread, prxwrite, Flag) + 1
            /\ rxoverlap = 1 => prxwrite < prxread
        BY <1>a, <2>0, <3>0, <4>1 DEF Counted, Unread
      <4>3. QED
        BY <2>0, <4>1, <4>2 DEF Counted
    <3>2. CASE prxwrite + 1 = BufLen
      BY <1>a, <2>0, <3>0, <3>2 DEF Counted, Unread
    <3>3. QED
      BY <2>0, <3>1, <3>2
  <2>2. ASSUME NEW i \in 0 .. Backlog
        PROVE  Cell(prxread, i, Flag)' = gone + i + 1
    <3>0. i \in 0 .. BufLen - 1
      BY <1>a, <2>0
    <3>a. Cell(prxread, i, Flag)' = CellOf(recv_buf', prxread', i, rxoverlap')
      <4>1. prxread' \in 0 .. BufLen - 1
        BY <1>0
      <4>2. QED
        BY <2>0, <3>0, <4>1, CellIsNext
    <3>1. CASE i < Backlog
      <4>1. Cell(prxread, i, Flag) = gone + i + 1
        BY <1>a, <3>1 DEF Held
      <4>2. Cell(prxread, i, Flag) = CellOf(recv_buf, prxread, i, Flag)
        BY <3>0, CellIs
      <4>3. CellOf(recv_buf', prxread', i, rxoverlap') = CellOf(recv_buf, prxread, i, Flag)
        BY <1>a, <2>0, <3>1 DEF CellOf, Counted, Unread
      <4>4. QED
        BY <3>a, <4>1, <4>2, <4>3
    <3>2. CASE i = Backlog
      <4>1. CellOf(recv_buf', prxread', i, rxoverlap') = arrived + 1
        BY <1>a, <2>0, <3>2 DEF CellOf, Counted, Unread
      <4>2. QED
        BY <1>a, <3>a, <3>2, <4>1 DEF Backlog
    <3>3. QED
      BY <1>a, <3>1, <3>2
  <2>3. Held'
    BY <1>a, <2>0, <2>2 DEF Held
  <2>4. Remembered'
    BY <1>1, <1>a, <2>0 DEF Remembered, readVars, localVars
  <2>5. QED
    BY <1>0, <2>1, <2>3, <2>4
<1>2. CASE Irq /\ pc = "clear"
  <2>1. /\ prxread' = prxwrite' /\ rxoverlap' = 1 /\ Backlog' = 0
        /\ UNCHANGED readVars
    BY <1>2, IrqMoves
  <2>2. pc' = "clear" /\ Flag' = 0 /\ prxwrite' \in Nat
    BY <1>0, <1>2, <2>1 DEF Flag, readVars
  <2>3. Counted' /\ Held'
    <3>1. Unread(prxread, prxwrite, Flag)' = prxwrite' - prxread'
      BY <2>2 DEF Unread
    <3>2. Counted'
      BY <2>1, <2>2, <3>1 DEF Counted
    <3>3. QED
      BY <2>1, <3>2 DEF Held
  <2>4. Remembered'
    BY <1>2, <2>1, <2>2 DEF Remembered, readVars
  <2>5. QED
    BY <1>0, <2>3, <2>4
<1>3. ASSUME ReadIndex \/ ReadLimit \/ ReadCount \/ ReadTest \/ ReadCopy \/ UNCHANGED vars
      PROVE  RingInv'
  <2>1. UNCHANGED <<ringVars, arrived, gone>> /\ Flag' = Flag
    BY <1>3 DEF ReadIndex, ReadLimit, ReadCount, ReadTest, ReadCopy, vars, readVars,
       ringVars, RGoto, Flag
  <2>2. Counted' /\ Held' /\ Backlog' = Backlog
    BY <2>1 DEF ringVars, Counted, Held, Backlog, Cell, Unread
  <2>3. Remembered'
    <3>1. CASE ReadIndex \/ ReadLimit
      BY <2>1, <2>2, <3>1 DEF ReadIndex, ReadLimit, RGoto, Remembered, Counted, ringVars, Flag
    <3>2. CASE ReadCount
      <4>1. Unread(pread_local, pwrite_local, rxoverlap) \in 0 .. Backlog
        BY <3>2 DEF ReadCount, RGoto, Remembered, Counted, Unread, Flag
      <4>2. read_bytes' <= Backlog
        BY <1>a, <3>2, <4>1 DEF ReadCount
      <4>3. QED
        BY <2>1, <2>2, <3>2, <4>2 DEF ReadCount, RGoto, Remembered, ringVars
    <3>3. CASE ReadTest
      <4>1. chunk = <<>> /\ chunk' = <<>>
        BY <3>3 DEF ReadTest, RGoto, Remembered
      <4>2. chunk' = [i \in 1 .. Len(chunk') |-> gone' + i]
        BY <4>1
      <4>3. QED
        BY <2>1, <2>2, <3>3, <4>1, <4>2 DEF ReadTest, RGoto, Remembered, ringVars
    <3>4. CASE ReadCopy
      <4>1. Len(chunk) \in 0 .. Backlog - 1 /\ pread_local = prxread /\ through = Flag
        BY <1>a, <3>4 DEF ReadCopy, RGoto, Remembered, Flag
      <4>2. Cell(pread_local, Len(chunk), through) = gone + Len(chunk) + 1
        BY <4>1 DEF Held
      <4>3. chunk = [i \in 1 .. Len(chunk) |-> gone + i]
        BY <3>4 DEF ReadCopy, RGoto, Remembered
      <4>4. chunk' = [i \in 1 .. Len(chunk') |-> gone' + i]
        <5>1. chunk' = Append(chunk, gone + Len(chunk) + 1)
          BY <3>4, <4>2 DEF ReadCopy
        <5>2. QED
          BY <1>a, <2>1, <4>1, <4>3, <5>1
      <4>5. QED
        BY <2>1, <2>2, <3>4, <4>4 DEF ReadCopy, RGoto, Remembered, ringVars, localVars
    <3>5. CASE UNCHANGED vars
      BY <2>2, <3>5 DEF vars, readVars, localVars, ringVars, Remembered
    <3>6. QED
      BY <1>3, <3>1, <3>2, <3>3, <3>4, <3>5
  <2>4. QED
    BY <1>0, <2>2, <2>3
<1>4. CASE ReadAdvance
  <2>1. /\ pread_local = prxread /\ read_bytes <= Backlog
        /\ Flag = rxoverlap
    BY <1>4 DEF ReadAdvance, RGoto, Remembered, Flag
  <2>2. gone' = gone + read_bytes /\ Backlog' = Backlog - read_bytes
    BY <1>4 DEF ReadAdvance, Backlog
  <2>3. prxread' = IF prxread + read_bytes < BufLen THEN prxread + read_bytes
                                                    ELSE prxread + read_bytes - BufLen
    <3>1. prxread \in 0 .. BufLen - 1 /\ read_bytes \in 0 .. BufLen
      OBVIOUS
    <3>2. (prxread + read_bytes) % BufLen =
            IF prxread + read_bytes < BufLen THEN prxread + read_bytes
                                             ELSE prxread + read_bytes - BufLen
      BY <3>1, Wrap
    <3>3. QED
      BY <1>4, <2>1, <3>2 DEF ReadAdvance
  <2>4. /\ Flag' = IF prxread + read_bytes < BufLen THEN rxoverlap ELSE 0
        /\ UNCHANGED <<prxwrite, recv_buf, rxoverlap>>
    BY <1>4, <2>1 DEF ReadAdvance, RGoto, Flag
  <2>5. Counted'
    BY <1>a, <2>1, <2>2, <2>3, <2>4 DEF Counted, Unread
  <2>6. ASSUME NEW i \in 0 .. Backlog' - 1
        PROVE  Cell(prxread, i, Flag)' = gone' + i + 1
    <3>1. i + read_bytes \in 0 .. Backlog - 1
      BY <1>a, <2>1, <2>2
    <3>2. Cell(prxread, i + read_bytes, Flag) = gone + i + read_bytes + 1
      BY <1>a, <3>1 DEF Held
    <3>3. Cell(prxread, i, Flag)' = Cell(prxread, i + read_bytes, Flag)
      <4>1. Cell(prxread, i + read_bytes, Flag) =
              CellOf(recv_buf, prxread, i + read_bytes, Flag)
        BY <1>a, <3>1, CellIs
      <4>2. i \in 0 .. BufLen - 1
        BY <1>a, <2>2, <3>1
      <4>3. Cell(prxread, i, Flag)' = CellOf(recv_buf', prxread', i, Flag')
        <5>1. prxread' \in 0 .. BufLen - 1
          BY <1>0
        <5>2. QED
          BY <4>2, <5>1, CellIsNext
      <4>4. CellOf(recv_buf', prxread', i, Flag') =
              CellOf(recv_buf, prxread, i + read_bytes, Flag)
        BY <1>a, <2>1, <2>3, <2>4, <3>1, <4>2 DEF CellOf, Counted, Unread
      <4>5. QED
        BY <4>1, <4>3, <4>4
    <3>4. QED
      BY <1>a, <2>2, <3>2, <3>3
  <2>7. Remembered'
    <3>1. pc' = "clear" => rxoverlap' = 1
      BY <1>4, <2>1, <2>4 DEF ReadAdvance, RGoto, Counted, Unread
    <3>2. pc' \in {"idle", "clear"}
      BY <1>4 DEF ReadAdvance, RGoto
    <3>3. QED
      BY <3>1, <3>2 DEF Remembered
  <2>8. QED
    BY <1>0, <2>5, <2>6, <2>7 DEF Held
<1>5. CASE ReadClear
  <2>1. Flag = 0 /\ Flag' = 0
    BY <1>5 DEF ReadClear, RGoto, Flag
  <2>2. Counted' /\ Held'
    BY <1>5, <2>1 DEF ReadClear, Counted, Held, Unread, Cell, Backlog
  <2>3. Remembered'
    BY <1>5 DEF ReadClear, RGoto, Remembered
  <2>4. QED
    BY <1>0, <2>2, <2>3
<1>6. QED
  BY <1>1, <1>2, <1>3, <1>4, <1>5 DEF Next, Read

\* The two indices and the flag tell a full ring from an empty one: between
\* reads they count every byte that arrived and prxread has not passed.
THEOREM BacklogIsCounted == Fits => (Spec => []CountsBacklog)
<1> SUFFICES ASSUME Fits PROVE Spec => []CountsBacklog
    OBVIOUS
<1>1. RingInv => CountsBacklog
  BY DEF RingInv, Counted, CountsBacklog, Flag
<1>2. RingInv /\ [Next]_vars => RingInv'
  BY RingInductive
<1>3. QED
  BY <1>1, <1>2, RingInit, PTL DEF Spec

-----------------------------------------------------------------------------
(***************************************************************************)
(* The ring is a queue.                                                    *)
(***************************************************************************)

\* What is in the ring, in one expression.
From(n, k) == [i \in 1 .. k |-> n + i]

LEMMA ContentIs == RingInv => Content = From(gone, Backlog)
<1> SUFFICES ASSUME RingInv PROVE Content = From(gone, Backlog)
    OBVIOUS
<1>1. gone \in Nat /\ Backlog \in Nat
  BY BacklogType, ConstantsAssumption DEF RingInv
<1>2. ASSUME NEW i \in 1 .. Backlog
      PROVE  Cell(prxread, i - 1, Flag) = gone + i
  <2>1. i - 1 \in 0 .. Backlog - 1 /\ gone + (i - 1) + 1 = gone + i
    BY <1>1
  <2>2. QED
    BY <2>1 DEF RingInv, Held
<1>3. Unread(prxread, prxwrite, Flag) = Backlog
  BY DEF RingInv, Counted
<1>4. QED
  BY <1>2, <1>3 DEF Content, From

LEMMA FromAppend ==
  ASSUME NEW n \in Nat, NEW k \in Nat
  PROVE  From(n, k + 1) = Append(From(n, k), n + k + 1)
BY DEF From

LEMMA FromSplit ==
  ASSUME NEW n \in Nat, NEW k \in Nat, NEW j \in 0 .. k
  PROVE  /\ SubSeq(From(n, k), 1, j) = From(n, j)
         /\ SubSeq(From(n, k), j + 1, k) = From(n + j, k - j)
         /\ Len(From(n, k)) = k
BY DEF From

LEMMA QueueStep ==
  ASSUME Fits, RingInv, RingInv', [Next]_vars
  PROVE  [Queue!Next]_<<Content, returned, pc = "clear">>
<1>1. Content = From(gone, Backlog)
  BY ContentIs
<1>2. (Content = From(gone, Backlog))'
  <2>1. RingInv' => (Content = From(gone, Backlog))'
    BY ContentIs, PTL
  <2>2. QED
    BY <2>1
<1>3. gone \in Nat /\ Backlog \in Nat
  BY BacklogType, ConstantsAssumption DEF RingInv
<1>4. CASE Irq /\ pc # "clear"
  <2>1. /\ gone' = gone /\ Backlog' = Backlog + 1 /\ UNCHANGED <<returned, pc>>
        /\ arrived + 1 = gone + Backlog + 1
    <3>1. gone' = gone /\ Backlog' = Backlog + 1 /\ UNCHANGED <<returned, pc>>
      BY <1>4, IrqMoves DEF readVars
    <3>2. arrived \in Nat
      BY DEF RingInv, TypeOK
    <3>3. QED
      BY <1>3, <3>1, <3>2 DEF Backlog
  <2>2. Content' = Append(Content, arrived + 1)
    <3>1. Content' = From(gone, Backlog + 1)
      BY <1>2, <2>1
    <3>2. From(gone, Backlog + 1) = Append(From(gone, Backlog), gone + Backlog + 1)
      BY <1>3, FromAppend
    <3>3. QED
      BY <1>1, <2>1, <3>1, <3>2
  <2>3. arrived + 1 \in 1 .. MaxBytes
    BY <1>4, ConstantsAssumption DEF Irq, RingInv, TypeOK
  <2>4. QED
    BY <1>4, <2>1, <2>2, <2>3 DEF Queue!Next, Queue!Arrive
<1>5. CASE Irq /\ pc = "clear"
  <2>1. Backlog' = 0 /\ UNCHANGED <<returned, pc>>
    BY <1>5, IrqMoves DEF readVars
  <2>2. Content' = <<>>
    BY <1>2, <2>1 DEF From
  <2>3. QED
    BY <1>5, <2>1, <2>2 DEF Queue!Next, Queue!Lose
<1>6. CASE ReadAdvance
  <2> DEFINE n == read_bytes
  <2>1. /\ n \in 0 .. Backlog /\ chunk = From(gone, n)
        /\ returned' = returned \o chunk
        /\ pc = "copy"
    BY <1>3, <1>6 DEF ReadAdvance, RGoto, RingInv, TypeOK, Remembered, From
  <2>2. gone' = gone + n /\ Backlog' = Backlog - n
    BY <1>3, <1>6 DEF ReadAdvance, Backlog, RingInv, TypeOK
  <2>3. /\ chunk = SubSeq(Content, 1, n) /\ Len(Content) = Backlog
        /\ Content' = SubSeq(Content, n + 1, Backlog)
    <3>1. Content' = From(gone + n, Backlog - n)
      BY <1>2, <2>2
    <3>2. /\ SubSeq(From(gone, Backlog), 1, n) = From(gone, n)
          /\ SubSeq(From(gone, Backlog), n + 1, Backlog) = From(gone + n, Backlog - n)
          /\ Len(From(gone, Backlog)) = Backlog
      <4> DEFINE k == Backlog
      <4>1. k \in Nat /\ n \in 0 .. k
        BY <1>3, <2>1
      <4> HIDE DEF k, n
      <4>2. /\ SubSeq(From(gone, k), 1, n) = From(gone, n)
            /\ SubSeq(From(gone, k), n + 1, k) = From(gone + n, k - n)
            /\ Len(From(gone, k)) = k
        BY <1>3, <4>1, FromSplit
      <4>3. QED
        BY <4>2 DEF k
    <3>3. QED
      BY <1>1, <2>1, <3>1, <3>2
  <2>4. (pc = "clear")' \in BOOLEAN /\ ~(pc = "clear")
    BY <2>1
  <2>5. QED
    BY <2>1, <2>3, <2>4 DEF Queue!Next, Queue!Take
<1>7. CASE ReadClear
  <2>1. pc = "clear" /\ pc' = "idle" /\ UNCHANGED <<returned, gone, arrived>>
    BY <1>7 DEF ReadClear, RGoto
  <2>2. Content' = Content
    BY <1>1, <1>2, <2>1 DEF Backlog
  <2>3. QED
    BY <2>1, <2>2 DEF Queue!Next, Queue!Settle
<1>8. CASE ReadIndex \/ ReadLimit \/ ReadCount \/ ReadTest \/ ReadCopy \/ UNCHANGED vars
  <2>1. UNCHANGED <<returned, gone, arrived>> /\ (pc = "clear") = (pc = "clear")'
    BY <1>8 DEF ReadIndex, ReadLimit, ReadCount, ReadTest, ReadCopy, RGoto, vars, readVars
  <2>2. Content' = Content
    BY <1>1, <1>2, <2>1 DEF Backlog
  <2>3. QED
    BY <2>1, <2>2
<1>9. QED
  BY <1>4, <1>5, <1>6, <1>7, <1>8 DEF Next, Read

\* uart_read returns what the interrupt received in order and none of it
\* twice; and all of it but what is unread when a byte arrives between the two
\* stores that end a read past the end of recv_buf.
THEOREM RingImplementsByteQueue == Fits => (Spec => ImplementsByteQueue)
<1> SUFFICES ASSUME Fits PROVE Spec => Queue!Spec
    BY DEF ImplementsByteQueue
<1>1. Init => Queue!Init
  BY DEF Init, Queue!Init, Content, Unread, Flag
<1>2. RingInv /\ [Next]_vars => RingInv'
  BY RingInductive
<1>3. RingInv /\ RingInv' /\ [Next]_vars => [Queue!Next]_<<Content, returned, pc = "clear">>
  BY QueueStep
<1>4. QED
  BY <1>1, <1>2, <1>3, RingInit, PTL DEF Spec, Queue!Spec
=============================================================================
