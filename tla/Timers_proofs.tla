---------------------------- MODULE Timers_proofs ----------------------------
(***************************************************************************)
(* Proofs about the outlets' timers, for any week, any timers and any      *)
(* number of writes, deletions and power failures.                         *)
(***************************************************************************)
EXTENDS Timers, SequenceTheorems, TLAPS

-----------------------------------------------------------------------------
(***************************************************************************)
(* The invariants.                                                         *)
(***************************************************************************)
\* The table, and its entry, that WHead began and WRest completes.
Filling == IF sector[2] # <<>> THEN 2 ELSE 1
HalfDone(o, i) == wpc = "rest" /\ o = Filling /\ i = Len(sector[o])

\* While the sector is programmed it is the first part of what was read.
ProgramKept ==
  wpc \in {"program", "rest"} =>
    /\ \A o \in Outlets : Len(sector[o]) <= Len(wbuf[o])
    /\ sector[2] # <<>> => Len(sector[1]) = Len(wbuf[1])
    /\ wpc = "rest" => sector[Filling] # <<>>
    /\ \A o \in Outlets : \A i \in DOMAIN sector[o] :
         HalfDone(o, i) \/ sector[o][i] = wbuf[o][i]

\* What was read holds the list the app set last for the other outlet.
BufferKept ==
  /\ wpc \in {"idle", "erase"} => \A o \in Outlets \ lost : sector[o] = last[o]
  /\ wpc # "idle" => \A o \in Outlets \ (lost \cup {wfor}) : wbuf[o] = last[o]

\* Unless tables were mixed, whatever is read was set by the app.
From(table) == \A o \in Outlets : \A i \in DOMAIN table[o] : table[o][i] \in set

ReadWasSet ==
  ~mixed => /\ From(buf)
            /\ wpc \in {"idle", "erase"} => From(sector)
            /\ wpc # "idle" => From(wbuf)

WriteInv == TypeOK /\ ProgramKept

-----------------------------------------------------------------------------
(***************************************************************************)
(* Tables.                                                                 *)
(***************************************************************************)
LEMMA Constant ==
  /\ Days \in Nat \ {0} /\ Minutes \in Nat \ {0} /\ Hour \in Nat \ {0}
  /\ Week \in Nat /\ Ancient \in Int
BY TimerAssumption DEF Week, Ancient, TicksPerMinute

LEMMA EntryType == ASSUME NEW timer \in Timers, NEW t \in Nat PROVE Entry(timer, t) \in Entries
BY TimerAssumption DEF Entry, Entries

LEMMA TornType == ASSUME NEW e \in Entries PROVE Torn(e) \in Entries
BY DEF Entry, Entries, Torn

LEMMA EmptyType == Empty \in Tables
BY DEF Empty, Tables

LEMMA NewList ==
  ASSUME NEW l \in Lists, NEW t \in Nat
  PROVE  [i \in DOMAIN l |-> Entry(l[i], t)] \in Seq(Entries)
<1>1. l \in Seq(Timers)
  BY TimerAssumption
<1>2. \A i \in 1 .. Len(l) : Entry(l[i], t) \in Entries
  BY <1>1, EntryType
<1>3. DOMAIN l = 1 .. Len(l) /\ Len(l) \in Nat
  BY <1>1
<1>4. QED
  BY <1>2, <1>3

\* What the steps of write_timerdata do to the sector and the buffer.
LEMMA ReadStep ==
  ASSUME TypeOK, NEW o \in Outlets, WRead(o)
  PROVE  /\ wbuf' \in Tables /\ set' \subseteq Entries /\ set \subseteq set'
         /\ \A p \in Outlets \ {o} : wbuf'[p] = sector[p]
         /\ \A i \in DOMAIN wbuf'[o] : wbuf'[o][i] \in set'
<1>1. PICK l \in Lists : wbuf' = [sector EXCEPT ![o] = [i \in DOMAIN l |-> Entry(l[i], now)]]
  BY DEF WRead
<1>2. now \in Nat /\ sector \in [Outlets -> Seq(Entries)] /\ set \subseteq Entries
  BY DEF TypeOK, Tables
<1> DEFINE new == [i \in DOMAIN l |-> Entry(l[i], now)]
<1>3. new \in Seq(Entries)
  BY <1>2, NewList
<1> HIDE DEF new
<1>4. wbuf' = [sector EXCEPT ![o] = new]
  BY <1>1 DEF new
<1>5. wbuf' \in [Outlets -> Seq(Entries)] /\ wbuf'[o] = new
      /\ \A p \in Outlets \ {o} : wbuf'[p] = sector[p]
  BY <1>2, <1>3, <1>4
<1>6. set' = set \cup ToSet(new)
  BY <1>5 DEF WRead
<1>7. \A i \in DOMAIN new : new[i] \in ToSet(new) /\ new[i] \in Entries
  BY <1>3 DEF ToSet
<1>8. ToSet(new) \subseteq Entries
  BY <1>7 DEF ToSet
<1>9. QED
  BY <1>2, <1>5, <1>6, <1>7, <1>8 DEF Tables

LEMMA HeadStep ==
  ASSUME TypeOK, ProgramKept, WHead
  PROVE  /\ sector' \in Tables /\ ProgramKept'
<1>1. sector \in [Outlets -> Seq(Entries)] /\ wbuf \in [Outlets -> Seq(Entries)]
  BY DEF TypeOK, Tables
<1> DEFINE o == AtOutlet
           n == Len(sector[o]) + 1
<1>2. /\ wpc = "program" /\ wpc' = "rest" /\ UNCHANGED wbuf
      /\ Len(sector[o]) < Len(wbuf[o]) /\ o \in Outlets
      /\ sector' = [sector EXCEPT ![o] = Append(@, Torn(wbuf[o][Len(@) + 1]))]
  BY DEF WHead, Short, AtOutlet, Outlets
<1>3. Len(sector[1]) = Len(wbuf[1]) \/ (o = 1 /\ sector[2] = <<>>)
  <2>1. Len(sector[1]) <= Len(wbuf[1]) /\ Len(sector[1]) \in Nat /\ Len(wbuf[1]) \in Nat
    BY <1>1, <1>2 DEF ProgramKept, Outlets
  <2>2. CASE Short(1)
    <3>1. o = 1 /\ Len(sector[1]) < Len(wbuf[1])
      BY <2>2 DEF AtOutlet, Short
    <3>2. QED
      BY <1>2, <2>1, <3>1 DEF ProgramKept
  <2>3. CASE ~Short(1)
    BY <2>1, <2>3 DEF Short
  <2>4. QED
    BY <2>2, <2>3
<1>4. CASE o = 1 /\ sector[2] = <<>>
  <2>1. Torn(wbuf[1][Len(sector[1]) + 1]) \in Entries
    BY <1>1, <1>2, <1>4, TornType DEF Outlets
  <2> DEFINE e == Torn(wbuf[1][Len(sector[1]) + 1])
  <2> HIDE DEF e
  <2>2. sector' = [sector EXCEPT ![1] = Append(sector[1], e)]
    BY <1>2, <1>4 DEF e
  <2>3. e \in Entries
    BY <2>1 DEF e
  <2> HIDE DEF o, n
  <2>4. sector'[1] = Append(sector[1], e) /\ sector'[2] = <<>> /\ sector' \in [Outlets -> Seq(Entries)]
    BY <1>1, <1>4, <2>2, <2>3 DEF Outlets
  <2>5. Len(sector'[1]) = Len(sector[1]) + 1 /\ Len(sector[1]) \in Nat
        /\ DOMAIN sector'[1] = 1 .. Len(sector[1]) + 1
        /\ \A i \in 1 .. Len(sector[1]) : sector'[1][i] = sector[1][i]
    BY <1>1, <2>3, <2>4 DEF Outlets
  <2>6. Filling' = 1 /\ sector'[1] # <<>>
    BY <2>4, <2>5 DEF Filling
  <2>7. \A i \in DOMAIN sector[1] : sector[1][i] = wbuf[1][i]
    BY <1>2 DEF ProgramKept, HalfDone, Outlets
  <2>8. \A i \in DOMAIN sector'[1] : i = Len(sector'[1]) \/ sector'[1][i] = wbuf[1][i]
    <3>1. TAKE i \in DOMAIN sector'[1]
    <3>2. CASE i \in 1 .. Len(sector[1])
      BY <1>1, <2>5, <2>7, <3>2, SMTT(30) DEF Outlets
    <3>3. CASE i \notin 1 .. Len(sector[1])
      BY <2>5, <3>3
    <3>4. QED
      BY <3>2, <3>3
  <2>9. Len(sector'[1]) <= Len(wbuf[1]) /\ Len(sector'[2]) <= Len(wbuf[2])
    <3>1. Len(wbuf[1]) \in Nat /\ Len(wbuf[2]) \in Nat
      BY <1>1 DEF Outlets
    <3>2. Len(sector[1]) < Len(wbuf[1])
      BY <1>2, <1>4
    <3>3. QED
      BY <2>4, <2>5, <3>1, <3>2
  <2>10. \A p \in Outlets : \A i \in DOMAIN sector'[p] :
           HalfDone(p, i)' \/ sector'[p][i] = wbuf[p][i]
    <3>1. \A i \in DOMAIN sector'[1] : HalfDone(1, i)' \/ sector'[1][i] = wbuf[1][i]
      BY <1>2, <2>6, <2>8 DEF HalfDone
    <3>2. DOMAIN sector'[2] = {}
      BY <2>4
    <3>3. QED
      BY <3>1, <3>2 DEF Outlets
  <2>11. QED
    BY <1>2, <2>4, <2>6, <2>9, <2>10 DEF ProgramKept, Outlets, Tables
<1>5. CASE o = 2 /\ Len(sector[1]) = Len(wbuf[1])
  <2>1. Torn(wbuf[2][Len(sector[2]) + 1]) \in Entries
    BY <1>1, <1>2, <1>5, TornType DEF Outlets
  <2> DEFINE e == Torn(wbuf[2][Len(sector[2]) + 1])
  <2> HIDE DEF e
  <2>2. sector' = [sector EXCEPT ![2] = Append(sector[2], e)]
    BY <1>2, <1>5 DEF e
  <2>3. e \in Entries
    BY <2>1 DEF e
  <2> HIDE DEF o, n
  <2>4. sector'[2] = Append(sector[2], e) /\ sector'[1] = sector[1] /\ sector' \in [Outlets -> Seq(Entries)]
    BY <1>1, <1>5, <2>2, <2>3 DEF Outlets
  <2>5. Len(sector'[2]) = Len(sector[2]) + 1 /\ Len(sector[2]) \in Nat
        /\ DOMAIN sector'[2] = 1 .. Len(sector[2]) + 1
        /\ \A i \in 1 .. Len(sector[2]) : sector'[2][i] = sector[2][i]
    BY <1>1, <2>3, <2>4 DEF Outlets
  <2>6. Filling' = 2 /\ sector'[2] # <<>>
    <3>1. sector'[2] # <<>>
      BY <2>5
    <3>2. QED
      BY <3>1 DEF Filling
  <2>7. \A p \in Outlets : \A i \in DOMAIN sector[p] : sector[p][i] = wbuf[p][i]
    BY <1>2 DEF ProgramKept, HalfDone
  <2>8. \A i \in DOMAIN sector'[2] : i = Len(sector'[2]) \/ sector'[2][i] = wbuf[2][i]
    <3>1. TAKE i \in DOMAIN sector'[2]
    <3>2. CASE i \in 1 .. Len(sector[2])
      BY <1>1, <2>5, <2>7, <3>2 DEF Outlets
    <3>3. CASE i \notin 1 .. Len(sector[2])
      BY <2>5, <3>3
    <3>4. QED
      BY <3>2, <3>3
  <2>9. Len(sector'[1]) <= Len(wbuf[1]) /\ Len(sector'[2]) <= Len(wbuf[2])
    <3>1. Len(wbuf[1]) \in Nat /\ Len(wbuf[2]) \in Nat
      BY <1>1 DEF Outlets
    <3>2. Len(sector[2]) < Len(wbuf[2])
      BY <1>2, <1>5
    <3>3. QED
      BY <1>5, <2>4, <2>5, <3>1, <3>2
  <2>10. \A p \in Outlets : \A i \in DOMAIN sector'[p] :
           HalfDone(p, i)' \/ sector'[p][i] = wbuf[p][i]
    <3>1. \A i \in DOMAIN sector'[2] : HalfDone(2, i)' \/ sector'[2][i] = wbuf[2][i]
      BY <1>2, <2>6, <2>8 DEF HalfDone
    <3>2. \A i \in DOMAIN sector'[1] : sector'[1][i] = wbuf[1][i]
      BY <2>4, <2>7 DEF Outlets
    <3>3. QED
      BY <3>1, <3>2 DEF Outlets
  <2>11. QED
    BY <1>2, <1>5, <2>4, <2>6, <2>9, <2>10 DEF ProgramKept, Outlets, Tables
<1>6. QED
  BY <1>2, <1>3, <1>4, <1>5 DEF Outlets

LEMMA RestStep ==
  ASSUME TypeOK, ProgramKept, WRest
  PROVE  /\ sector' \in Tables /\ ProgramKept'
<1>1. sector \in [Outlets -> Seq(Entries)] /\ wbuf \in [Outlets -> Seq(Entries)]
  BY DEF TypeOK, Tables
<1> DEFINE o == Filling
           n == Len(sector[o])
<1>2. /\ wpc = "rest" /\ wpc' = "program" /\ UNCHANGED wbuf
      /\ o \in Outlets /\ sector' = [sector EXCEPT ![o][n] = wbuf[o][n]]
  BY DEF WRest, Filling, Outlets
<1>3. sector[o] # <<>> /\ n <= Len(wbuf[o])
  BY <1>2 DEF ProgramKept
<1> HIDE DEF o
<1>4. n \in 1 .. Len(sector[o]) /\ n \in 1 .. Len(wbuf[o]) /\ wbuf[o][n] \in Entries
  <2>1. n \in Nat /\ Len(wbuf[o]) \in Nat /\ n # 0
    BY <1>1, <1>2, <1>3
  <2>2. QED
    BY <1>1, <1>2, <1>3, <2>1
<1>5. /\ sector'[o] = [sector[o] EXCEPT ![n] = wbuf[o][n]]
      /\ \A p \in Outlets \ {o} : sector'[p] = sector[p]
  BY <1>1, <1>2
<1>6. sector'[o] \in Seq(Entries) /\ Len(sector'[o]) = Len(sector[o])
      /\ \A i \in 1 .. Len(sector[o]) : sector'[o][i] = IF i = n THEN wbuf[o][n] ELSE sector[o][i]
  BY <1>1, <1>2, <1>4, <1>5, ExceptSeq
<1>7. sector' \in [Outlets -> Seq(Entries)]
  BY <1>1, <1>2, <1>5, <1>6
<1>8. \A p \in Outlets : Len(sector'[p]) = Len(sector[p]) /\ DOMAIN sector'[p] = DOMAIN sector[p]
  BY <1>1, <1>5, <1>6, <1>7
<1>9. ASSUME NEW p \in Outlets, NEW i \in DOMAIN sector'[p] PROVE sector'[p][i] = wbuf[p][i]
  <2>1. CASE p = o
    <3>1. i \in 1 .. Len(sector[o])
      BY <1>1, <1>8, <2>1
    <3>2. CASE i = n
      BY <1>6, <2>1, <3>1, <3>2
    <3>3. CASE i # n
      BY <1>1, <1>2, <1>6, <2>1, <3>1, <3>3 DEF ProgramKept, HalfDone, o
    <3>4. QED
      BY <3>2, <3>3
  <2>2. CASE p # o
    BY <1>2, <1>5, <1>8, <2>2 DEF ProgramKept, HalfDone, o
  <2>3. QED
    BY <2>1, <2>2
<1>10. sector'[2] # <<>> => sector[2] # <<>>
  BY <1>1, <1>7, <1>8 DEF Outlets
<1>11. QED
  BY <1>2, <1>7, <1>8, <1>9, <1>10 DEF ProgramKept, Tables, Outlets

-----------------------------------------------------------------------------
(***************************************************************************)
(* Types, and the sector while it is programmed.                           *)
(***************************************************************************)
LEMMA WriteStep ==
  ASSUME WriteInv, Write
  PROVE  /\ {sector', wbuf', last'} \subseteq Tables /\ set' \subseteq Entries
         /\ wpc' \in {"idle", "erase", "program", "rest"} /\ wfor' \in Outlets
         /\ lost' \subseteq Outlets /\ left' \in [writes : Nat, breaks : Nat]
         /\ undisturbed' \in BOOLEAN /\ ProgramKept'
         /\ UNCHANGED <<now, clock, loopVars, fired, mixed, looked>>
<1>1. TypeOK /\ ProgramKept
  BY DEF WriteInv
<1>2. /\ sector \in Tables /\ wbuf \in Tables /\ last \in Tables /\ set \subseteq Entries
      /\ wfor \in Outlets /\ lost \subseteq Outlets
      /\ left \in [writes : Nat, breaks : Nat] /\ undisturbed \in BOOLEAN
  BY <1>1 DEF TypeOK
<1>3. ASSUME NEW o \in Outlets, WRead(o)
      PROVE  /\ UNCHANGED <<sector, last, lost, now, clock, loopVars, fired, mixed, looked>>
             /\ wpc' = "erase" /\ wfor' = o /\ undisturbed' = FALSE
             /\ left' \in [writes : Nat, breaks : Nat]
  BY <1>2, <1>3 DEF WRead
<1>4. CASE \E o \in Outlets : WRead(o)
  <2>1. wbuf' \in Tables /\ set' \subseteq Entries
    BY <1>1, <1>4, ReadStep
  <2>2. ProgramKept'
    BY <1>3, <1>4 DEF ProgramKept
  <2>3. QED
    BY <1>2, <1>3, <1>4, <2>1, <2>2
<1>5. CASE WErase
  <2>1. /\ sector' = Empty /\ wpc' = "program" /\ UNCHANGED <<wfor, wbuf, left, last, mixed, lost>>
        /\ UNCHANGED <<undisturbed, now, clock, loopVars, set, fired, looked>>
    BY <1>5 DEF WErase, WKeep
  <2>2. \A o \in Outlets : Len(wbuf[o]) \in Nat /\ sector'[o] = <<>>
    BY <1>2, <2>1 DEF Tables, Empty
  <2>3. ProgramKept'
    BY <2>1, <2>2 DEF ProgramKept, Outlets
  <2>4. QED
    BY <1>2, <2>1, <2>3, EmptyType
<1>6. CASE WHead \/ WRest
  <2>1. /\ wpc' \in {"program", "rest"} /\ UNCHANGED <<wfor, wbuf, left, last, mixed, lost>>
        /\ UNCHANGED <<undisturbed, now, clock, loopVars, set, fired, looked>>
    BY <1>6 DEF WHead, WRest, WKeep
  <2>2. sector' \in Tables /\ ProgramKept'
    BY <1>1, <1>6, HeadStep, RestStep
  <2>3. QED
    BY <1>2, <2>1, <2>2
<1>7. CASE WEnd
  <2>1. /\ wpc' = "idle" /\ UNCHANGED <<sector, wfor, wbuf, left, mixed, undisturbed>>
        /\ UNCHANGED <<now, clock, loopVars, set, fired, looked>> /\ lost' = lost \ {wfor}
        /\ last' = [last EXCEPT ![wfor] = wbuf[wfor]]
    BY <1>7 DEF WEnd, WKeep
  <2>2. last' \in Tables
    BY <1>2, <2>1 DEF Tables
  <2>3. ProgramKept'
    BY <2>1 DEF ProgramKept
  <2>4. QED
    BY <1>2, <2>1, <2>2, <2>3
<1>8. QED
  BY <1>4, <1>5, <1>6, <1>7 DEF Write

LEMMA LoopStep ==
  ASSUME TypeOK, Loop
  PROVE  /\ clock' \in BOOLEAN /\ mixed' \in BOOLEAN /\ buf' \in Tables
         /\ pc' \in {"alarm", "look", "fireA", "fireB", "upload", "sleep"}
         /\ waited' \in {0, 1} /\ minute' \in {NoMinute} \cup 0 .. Hour - 1
         /\ fired' \subseteq [o : Outlets, e : Entries, m : Nat] /\ looked' \in {NoMinute} \cup Nat
         /\ UNCHANGED <<now, writeVars, left, last, set, lost, undisturbed>>
<1>1. /\ clock \in BOOLEAN /\ mixed \in BOOLEAN /\ buf \in Tables /\ sector \in Tables
      /\ pc \in {"alarm", "look", "fireA", "fireB", "upload", "sleep"}
      /\ waited \in {0, 1} /\ minute \in {NoMinute} \cup 0 .. Hour - 1
      /\ fired \subseteq [o : Outlets, e : Entries, m : Nat] /\ now \in Nat
      /\ looked \in {NoMinute} \cup Nat
  BY DEF TypeOK
<1>2. Minute(now) \in Nat /\ tm_min(now) \in 0 .. Hour - 1
  <2>1. Minute(now) \in Nat
    BY <1>1 DEF Minute, TicksPerMinute
  <2>2. QED
    BY <2>1, Constant DEF tm_min
<1>3. CASE LSetClock \/ LAlarm \/ LUpload
  BY <1>1, <1>3 DEF LSetClock, LAlarm, LUpload, LKeep, loopVars
<1>4. CASE LLook
  <2>1. UNCHANGED <<clock, waited, fired, undisturbed, now, writeVars, left, last, set, lost>>
    BY <1>4 DEF LLook, LKeep
  <2>2. /\ minute' \in {minute, tm_min(now)} /\ buf' \in {buf, sector} /\ pc' \in {"fireA", "upload"}
        /\ mixed' \in {mixed, mixed \/ wpc \in {"program", "rest"}}
        /\ looked' \in {looked, Minute(now)}
    BY <1>4 DEF LLook, FirePC
  <2>3. mixed' \in BOOLEAN
    BY <1>1, <2>2
  <2>4. QED
    BY <1>1, <1>2, <2>1, <2>2, <2>3
<1>5. ASSUME NEW o \in Outlets, LFire(o)
      PROVE  /\ fired' \subseteq [o : Outlets, e : Entries, m : Nat]
             /\ pc' \in {"fireB", "upload"} /\ UNCHANGED <<clock, waited, minute, buf, mixed, looked>>
             /\ UNCHANGED <<now, writeVars, left, last, set, lost, undisturbed>>
  <2>1. ToSet(buf[o]) \subseteq Entries
    BY <1>1 DEF Tables, ToSet
  <2>2. \A e \in DueNow(o) : [o |-> o, e |-> e, m |-> Minute(now)] \in [o : Outlets, e : Entries, m : Nat]
    BY <1>2, <2>1 DEF DueNow
  <2>3. fired' \subseteq [o : Outlets, e : Entries, m : Nat]
    BY <1>1, <1>5, <2>2 DEF LFire
  <2>4. QED
    BY <1>5, <2>3 DEF LFire, LKeep, FirePC, Outlets
<1>6. QED
  BY <1>1, <1>3, <1>4, <1>5 DEF Loop

LEMMA BreakStep ==
  ASSUME TypeOK, ProgramKept, Tick \/ Deleted \/ PowerFailure PROVE TypeOK' /\ ProgramKept'
<1>1. /\ now \in Nat /\ clock \in BOOLEAN /\ mixed \in BOOLEAN /\ undisturbed \in BOOLEAN
      /\ left \in [writes : Nat, breaks : Nat]
      /\ sector \in Tables /\ wbuf \in Tables /\ buf \in Tables /\ last \in Tables
  BY DEF TypeOK
<1>2. CASE Tick
  <2>1. /\ now' \in Nat /\ waited' \in {waited, 1} /\ pc' \in {pc, "alarm"}
        /\ UNCHANGED <<clock, writeVars, minute, buf, left, last, set, fired, mixed, lost, looked>>
    BY <1>1, <1>2 DEF Tick
  <2>5. undisturbed' \in BOOLEAN
    <3>1. undisturbed' = (clock /\ wpc = "idle") \/ undisturbed' = undisturbed
      BY <1>2 DEF Tick
    <3>2. QED
      BY <1>1, <3>1
  <2>2. TypeOK'
    BY <2>1, <2>5 DEF TypeOK, writeVars
  <2>3. ProgramKept'
    BY <2>1 DEF ProgramKept, HalfDone, Filling, writeVars
  <2>4. QED
    BY <2>2, <2>3
<1>3. CASE Deleted
  <2>1. /\ left' \in [writes : Nat, breaks : Nat] /\ pc' = "alarm" /\ waited' = 0
        /\ undisturbed' = FALSE
        /\ UNCHANGED <<now, clock, writeVars, minute, buf, last, set, fired, mixed, lost, looked>>
    BY <1>1, <1>3 DEF Deleted
  <2>2. TypeOK'
    BY <2>1 DEF TypeOK, writeVars
  <2>3. ProgramKept'
    BY <2>1 DEF ProgramKept, HalfDone, Filling, writeVars
  <2>4. QED
    BY <2>2, <2>3
<1>4. CASE PowerFailure
  <2>1. /\ left' \in [writes : Nat, breaks : Nat] /\ clock' = FALSE /\ undisturbed' = FALSE
        /\ wpc' = "idle" /\ wbuf' = Empty /\ buf' = Empty
        /\ pc' = "alarm" /\ waited' = 0 /\ minute' = NoMinute
        /\ mixed' = (mixed \/ wpc \in {"program", "rest"}) /\ lost' \in {lost, Outlets}
        /\ looked' = NoMinute /\ UNCHANGED <<now, sector, wfor, last, set, fired>>
    BY <1>1, <1>4 DEF PowerFailure
  <2>2. mixed' \in BOOLEAN
    BY <1>1, <2>1
  <2>3. TypeOK'
    BY <2>1, <2>2, EmptyType DEF TypeOK
  <2>4. ProgramKept'
    BY <2>1 DEF ProgramKept
  <2>5. QED
    BY <2>3, <2>4
<1>5. QED
  BY <1>2, <1>3, <1>4

LEMMA WriteInvStep == ASSUME WriteInv, [Next]_vars PROVE WriteInv'
<1>1. TypeOK /\ ProgramKept
  BY DEF WriteInv
<1>2. CASE Write
  <2>1. TypeOK'
    BY <1>1, <1>2, WriteStep DEF TypeOK, loopVars
  <2>2. QED
    BY <1>2, <2>1, WriteStep DEF WriteInv
<1>3. CASE Loop
  <2>1. TypeOK'
    BY <1>1, <1>3, LoopStep DEF TypeOK, writeVars
  <2>2. ProgramKept'
    BY <1>1, <1>3, LoopStep DEF ProgramKept, HalfDone, Filling, writeVars
  <2>3. QED
    BY <2>1, <2>2 DEF WriteInv
<1>4. CASE Tick \/ Deleted \/ PowerFailure
  BY <1>1, <1>4, BreakStep DEF WriteInv
<1>5. CASE UNCHANGED vars
  BY <1>1, <1>5 DEF WriteInv, TypeOK, ProgramKept, HalfDone, Filling, vars, writeVars, loopVars,
                    historyVars
<1>6. QED
  BY <1>2, <1>3, <1>4, <1>5 DEF Next

LEMMA WriteInvInit == Init => WriteInv
<1> SUFFICES ASSUME Init PROVE WriteInv
    OBVIOUS
<1>1. left \in [writes : Nat, breaks : Nat]
  BY TimerAssumption DEF Init
<1>2. /\ sector = Empty /\ wbuf = Empty /\ buf = Empty /\ last = Empty
      /\ now = 0 /\ clock = FALSE /\ mixed = FALSE /\ undisturbed = FALSE
      /\ wpc = "idle" /\ wfor = 1 /\ pc = "alarm" /\ waited = 0 /\ minute = NoMinute
      /\ set = {} /\ fired = {} /\ lost = {} /\ looked = NoMinute
  BY DEF Init
<1>3. TypeOK
  BY <1>1, <1>2, EmptyType DEF TypeOK, Outlets
<1>4. QED
  BY <1>2, <1>3 DEF WriteInv, ProgramKept

-----------------------------------------------------------------------------
(***************************************************************************)
(* The lists.                                                              *)
(***************************************************************************)
\* When all is programmed the sector is what was read, with the new list.
LEMMA SectorWritten ==
  ASSUME WriteInv, wpc = "program", ~Short(1), ~Short(2), NEW o \in Outlets
  PROVE  sector[o] = wbuf[o]
<1>1. sector[o] \in Seq(Entries) /\ wbuf[o] \in Seq(Entries)
  BY DEF WriteInv, TypeOK, Tables
<1>2. Len(sector[o]) = Len(wbuf[o])
  BY <1>1 DEF WriteInv, ProgramKept, Short, Outlets
<1>3. \A i \in 1 .. Len(sector[o]) : sector[o][i] = wbuf[o][i]
  BY <1>1 DEF WriteInv, ProgramKept, HalfDone
<1>4. QED
  BY <1>1, <1>2, <1>3, SeqEqual

LEMMA BufferStep == ASSUME WriteInv, BufferKept, [Next]_vars PROVE BufferKept'
<1>1. /\ sector \in [Outlets -> Seq(Entries)] /\ last \in [Outlets -> Seq(Entries)]
      /\ wfor \in Outlets /\ TypeOK
  BY DEF WriteInv, TypeOK, Tables
<1>2. ASSUME NEW o \in Outlets, WRead(o) PROVE BufferKept'
  <2>1. wpc = "idle" /\ wpc' = "erase" /\ wfor' = o /\ UNCHANGED <<sector, last, lost>>
    BY <1>2 DEF WRead
  <2>2. \A p \in Outlets \ {o} : wbuf'[p] = sector[p]
    BY <1>1, <1>2, ReadStep
  <2>3. QED
    BY <2>1, <2>2 DEF BufferKept
<1>3. CASE WErase \/ WHead \/ WRest
  <2>1. wpc # "idle" /\ wpc' \in {"program", "rest"} /\ UNCHANGED <<wfor, wbuf, last, lost>>
    BY <1>3 DEF WErase, WHead, WRest
  <2>2. QED
    BY <2>1 DEF BufferKept
<1>4. CASE WEnd
  <2>1. \A o \in Outlets : sector[o] = wbuf[o]
    BY <1>4, SectorWritten DEF WEnd
  <2>2. /\ wpc = "program" /\ wpc' = "idle" /\ lost' = lost \ {wfor} /\ UNCHANGED sector
        /\ last' = [last EXCEPT ![wfor] = wbuf[wfor]]
    BY <1>4 DEF WEnd
  <2>3. \A o \in Outlets : last'[o] = IF o = wfor THEN wbuf[o] ELSE last[o]
    BY <1>1, <2>2
  <2>4. QED
    BY <2>1, <2>2, <2>3 DEF BufferKept
<1>5. CASE PowerFailure
  <2>1. /\ wpc' = "idle" /\ UNCHANGED <<sector, last>>
        /\ lost' = IF wpc \in {"program", "rest"} THEN Outlets ELSE lost
    BY <1>5 DEF PowerFailure
  <2>2. wpc \in {"idle", "erase"} \/ wpc \in {"program", "rest"}
    BY <1>1 DEF TypeOK
  <2>3. QED
    BY <2>1, <2>2 DEF BufferKept
<1>6. CASE Loop \/ Tick \/ Deleted \/ UNCHANGED vars
  <2>1. UNCHANGED <<sector, wpc, wfor, wbuf, last, lost>>
    BY <1>1, <1>6, LoopStep DEF Tick, Deleted, vars, writeVars, historyVars
  <2>2. QED
    BY <2>1 DEF BufferKept
<1>7. QED
  BY <1>2, <1>3, <1>4, <1>5, <1>6 DEF Next, Write

-----------------------------------------------------------------------------
(***************************************************************************)
(* The commands.                                                           *)
(***************************************************************************)
Good(f) == /\ f.e \in set
           /\ f.e.timer.at = f.m % Minutes
           /\ (f.m \div Minutes) % Days \in f.e.timer.days
           /\ \/ f.e.timer.repeat
              \/ f.m - Minute(f.e.since) <= Days * Minutes

\* A week in ticks is a week in minutes.
LEMMA WeekInMinutes ==
  ASSUME NEW t \in Nat, NEW s \in Int, t - s <= Week
  PROVE  Minute(t) - Minute(s) <= Days * Minutes
<1> DEFINE w == Days * Minutes
<1>1. w \in Nat /\ Week = w * 2
  BY Constant DEF Week, TicksPerMinute
<1> HIDE DEF w
<1>2. t <= s + w * 2
  BY <1>1
<1>3. t \div 2 <= s \div 2 + w
  BY <1>1, <1>2
<1>4. Minute(t) - Minute(s) <= w
  BY <1>1, <1>3 DEF Minute, TicksPerMinute
<1>5. QED
  BY <1>4 DEF w

LEMMA DueIsGood ==
  ASSUME TypeOK, NEW o \in Outlets, NEW e \in DueNow(o), ToSet(buf[o]) \subseteq set
  PROVE  Good([o |-> o, e |-> e, m |-> Minute(now)])
<1>1. e \in set /\ Due(e, now) /\ now \in Nat
  BY DEF DueNow, TypeOK
<1>2. e.since \in Int
  <2>1. e \in Entries
    BY <1>1 DEF TypeOK
  <2>2. QED
    BY <2>1, Constant DEF Entries
<1>3. e.timer.repeat \/ Minute(now) - Minute(e.since) <= Days * Minutes
  BY <1>1, <1>2, WeekInMinutes DEF Due
<1>4. (Minute(now) \div Minutes) % Days \in e.timer.days
  BY <1>1 DEF Due, IsOnDay, tm_wday
<1>5. e.timer.at = Minute(now) % Minutes
  BY <1>1 DEF Due
<1>6. QED
  BY <1>1, <1>3, <1>4, <1>5 DEF Good

FiredInv == ReadWasSet /\ (~mixed => \A f \in fired : Good(f))

LEMMA FiredLater ==
  ASSUME \A f \in fired : Good(f), UNCHANGED fired, set \subseteq set'
  PROVE  \A f \in fired' : Good(f)'
BY DEF Good

LEMMA FiredStep == ASSUME WriteInv, FiredInv, [Next]_vars PROVE FiredInv'
<1>1. /\ TypeOK /\ sector \in [Outlets -> Seq(Entries)] /\ mixed \in BOOLEAN
  BY DEF WriteInv, TypeOK, Tables
<1>2. ASSUME NEW o \in Outlets, WRead(o) PROVE FiredInv'
  <2>1. /\ wpc = "idle" /\ wpc' = "erase" /\ UNCHANGED <<sector, buf, fired, mixed>>
    BY <1>2 DEF WRead, loopVars
  <2>2. /\ set \subseteq set' /\ \A p \in Outlets \ {o} : wbuf'[p] = sector[p]
        /\ \A i \in DOMAIN wbuf'[o] : wbuf'[o][i] \in set'
    BY <1>1, <1>2, ReadStep
  <2>3. ReadWasSet'
    BY <2>1, <2>2 DEF FiredInv, ReadWasSet, From
  <2>4. QED
    BY <2>1, <2>2, <2>3, FiredLater DEF FiredInv
<1>3. CASE WErase \/ WHead \/ WRest
  <2>1. wpc # "idle" /\ wpc' \in {"program", "rest"} /\ UNCHANGED <<wbuf, mixed, buf, set, fired>>
    BY <1>3 DEF WErase, WHead, WRest, WKeep, loopVars
  <2>2. ReadWasSet'
    BY <2>1 DEF FiredInv, ReadWasSet, From
  <2>3. QED
    BY <2>1, <2>2, FiredLater DEF FiredInv
<1>4. CASE WEnd
  <2>1. \A o \in Outlets : sector[o] = wbuf[o]
    BY <1>4, SectorWritten DEF WEnd
  <2>2. wpc = "program" /\ wpc' = "idle" /\ UNCHANGED <<sector, mixed, buf, set, fired>>
    BY <1>4 DEF WEnd, WKeep, loopVars
  <2>3. ReadWasSet'
    BY <2>1, <2>2 DEF FiredInv, ReadWasSet, From
  <2>4. QED
    BY <2>2, <2>3, FiredLater DEF FiredInv
<1>5. CASE LLook
  <2>1. /\ UNCHANGED <<wpc, wbuf, sector, set, fired>>
        /\ \/ UNCHANGED <<buf, mixed>>
           \/ buf' = sector /\ mixed' = (mixed \/ wpc \in {"program", "rest"})
    BY <1>5 DEF LLook, LKeep, writeVars
  <2>2. wpc \in {"idle", "erase"} \/ wpc \in {"program", "rest"}
    BY <1>1 DEF TypeOK
  <2>3. ~mixed' => ~mixed
    BY <2>1
  <2>4. ReadWasSet'
    BY <2>1, <2>2 DEF FiredInv, ReadWasSet, From
  <2>5. QED
    BY <2>1, <2>3, <2>4, FiredLater DEF FiredInv
<1>6. ASSUME NEW o \in Outlets, LFire(o) PROVE FiredInv'
  <2>1. UNCHANGED <<wpc, wbuf, sector, set, buf, mixed>>
    BY <1>6 DEF LFire, LKeep, writeVars
  <2>2. ReadWasSet'
    BY <2>1 DEF FiredInv, ReadWasSet, From
  <2>3. ASSUME ~mixed, NEW f \in fired' PROVE Good(f)'
    <3>1. ToSet(buf[o]) \subseteq set
      BY <2>3 DEF FiredInv, ReadWasSet, From, ToSet
    <3>2. f \in fired \/ \E e \in DueNow(o) : f = [o |-> o, e |-> e, m |-> Minute(now)]
      BY <1>6 DEF LFire
    <3>3. Good(f)
      BY <1>1, <2>3, <3>1, <3>2, DueIsGood DEF FiredInv
    <3>4. QED
      BY <2>1, <3>3 DEF Good
  <2>4. QED
    BY <2>1, <2>2, <2>3 DEF FiredInv
<1>7. CASE PowerFailure
  <2>1. /\ wpc' = "idle" /\ buf' = Empty /\ UNCHANGED <<sector, set, fired>>
        /\ mixed' = (mixed \/ wpc \in {"program", "rest"})
    BY <1>7 DEF PowerFailure
  <2>2. wpc \in {"idle", "erase"} \/ wpc \in {"program", "rest"}
    BY <1>1 DEF TypeOK
  <2>3. \A o \in Outlets : DOMAIN Empty[o] = {}
    BY DEF Empty
  <2>4. ~mixed' => ~mixed /\ wpc \in {"idle", "erase"}
    BY <2>1, <2>2
  <2>5. ReadWasSet'
    BY <2>1, <2>3, <2>4 DEF FiredInv, ReadWasSet, From
  <2>6. QED
    BY <2>1, <2>4, <2>5, FiredLater DEF FiredInv
<1>8. CASE LSetClock \/ LAlarm \/ LUpload \/ Tick \/ Deleted \/ UNCHANGED vars
  <2>1. UNCHANGED <<sector, wpc, wbuf, buf, set, fired, mixed>>
    BY <1>8 DEF LSetClock, LAlarm, LUpload, LKeep, Tick, Deleted, vars, writeVars, loopVars,
                historyVars
  <2>2. ReadWasSet'
    BY <2>1 DEF FiredInv, ReadWasSet, From
  <2>3. QED
    BY <2>1, <2>2, FiredLater DEF FiredInv
<1>9. QED
  BY <1>2, <1>3, <1>4, <1>5, <1>6, <1>7, <1>8 DEF Next, Write, Loop

-----------------------------------------------------------------------------
(***************************************************************************)
(* The minutes.                                                            *)
(***************************************************************************)
LEMMA DivMod ==
  ASSUME NEW h \in Nat \ {0}, NEW a \in Nat
  PROVE  a = h * (a \div h) + (a % h) /\ a % h \in 0 .. h - 1 /\ a \div h \in Nat
OBVIOUS

LEMMA NextMultiple ==
  ASSUME NEW h \in Nat \ {0}, NEW p \in Int, NEW q \in Int, p < q PROVE h * q >= h * p + h
<1>1. h * (q - p - 1) \in Nat
  OBVIOUS
<1>2. h * (q - p - 1) = h * q - h * p - h
  OBVIOUS
<1>3. QED
  BY <1>1, <1>2

\* Two minutes with the same tm_min are the same, or an hour or more apart.
LEMMA HoursApart ==
  ASSUME NEW h \in Nat \ {0}, NEW a \in Nat, NEW b \in Nat, a <= b, a % h = b % h
  PROVE  a = b \/ b - a >= h
<1> DEFINE p == a \div h
           q == b \div h
<1>1. a = h * p + (a % h) /\ b = h * q + (b % h) /\ p \in Nat /\ q \in Nat
  BY DivMod
<1> HIDE DEF p, q
<1>2. h * p \in Nat /\ h * q \in Nat /\ a % h \in Int
  BY <1>1
<1>3. b - a = h * q - h * p
  BY <1>1, <1>2
<1>4. CASE p < q
  BY <1>1, <1>2, <1>3, <1>4, NextMultiple
<1>5. CASE p = q
  BY <1>1, <1>5
<1>6. CASE q < p
  BY <1>1, <1>2, <1>3, <1>6, NextMultiple
<1>7. QED
  BY <1>1, <1>4, <1>5, <1>6

\* A minute is two ticks.
LEMMA HalfMinutes ==
  ASSUME NEW t \in Nat
  PROVE  /\ Minute(t) \in Nat /\ t % TicksPerMinute \in {0, 1}
         /\ t % TicksPerMinute = 0 => /\ Minute(t + 1) = Minute(t)
                                      /\ (t + 1) % TicksPerMinute = 1
         /\ t % TicksPerMinute = 1 => /\ Minute(t + 1) = Minute(t) + 1
                                      /\ (t + 1) % TicksPerMinute = 0
BY DEF Minute, TicksPerMinute

\* What is due in the second half of a minute was due in the first.
LEMMA DueBefore ==
  ASSUME NEW e \in Entries, NEW t \in Nat, Minute(t + 1) = Minute(t), Due(e, t + 1)
  PROVE  Due(e, t)
<1>1. e.since \in Int
  BY Constant DEF Entries
<1>2. (t + 1) - e.since <= Week => t - e.since <= Week
  BY <1>1, Constant
<1>3. e.timer.at = Minute(t) % Minutes /\ IsOnDay(e.timer, t)
  BY DEF Due, IsOnDay, tm_wday
<1>4. e.timer.repeat \/ t - e.since <= Week
  <2>1. e.timer.repeat \/ (t + 1) - e.since <= Week
    BY DEF Due
  <2>2. QED
    BY <1>2, <2>1
<1>5. QED
  BY <1>3, <1>4 DEF Due

\* The loop has looked in this minute, or takes it for the one it took up last.
HasLooked == looked = Minute(now) \/ ~TellsMinutes

WhileUndisturbed == undisturbed => clock /\ wpc = "idle"

MinuteIsLooked ==
  /\ minute = IF looked = NoMinute THEN NoMinute ELSE looked % Hour
  /\ looked <= Minute(now)
  /\ pc \in {"fireA", "fireB"} => looked = Minute(now)

\* As long as it has not, it stands where it must look before the minute ends: it
\* can be held up for one tick of the two, and only once.
GetsToLook ==
  undisturbed /\ ~HasLooked =>
    \/ pc = "look"
    \/ pc = "alarm" /\ (waited = 1 \/ now % TicksPerMinute = 0)
    \/ pc = "upload" /\ waited = 1 /\ now % TicksPerMinute = 0

Command(o, e) == [o |-> o, e |-> e, m |-> Minute(now)]
AllSent(o) == \A e \in ToSet(sector[o]) : Due(e, now) => Command(o, e) \in fired

Fires ==
  undisturbed /\ looked = Minute(now) =>
    /\ pc \in {"fireA", "fireB"} => buf = sector
    /\ pc # "fireA" => AllSent(1)
    /\ pc \notin {"fireA", "fireB"} => AllSent(2)

DueInv == WhileUndisturbed /\ MinuteIsLooked /\ GetsToLook /\ Fires

LEMMA SinceType ==
  ASSUME TypeOK, NEW o \in Outlets, NEW e \in ToSet(sector[o]) PROVE e \in Entries
BY DEF TypeOK, Tables, ToSet

\* Where neither the time nor the sector nor fired changes, nothing sent is lost.
LEMMA SentStays ==
  ASSUME UNCHANGED <<now, sector>>, fired \subseteq fired', NEW o \in Outlets, AllSent(o)
  PROVE  AllSent(o)'
BY DEF AllSent, Command

LEMMA LookStep == ASSUME TypeOK, DueInv, LLook PROVE DueInv'
<1>1. /\ pc = "look" /\ now \in Nat /\ looked \in {NoMinute} \cup Nat
      /\ UNCHANGED <<now, sector, wpc, clock, waited, fired, undisturbed>>
  BY DEF LLook, LKeep, writeVars, TypeOK
<1>2. Minute(now) \in Nat /\ tm_min(now) \in Nat
  BY <1>1, HalfMinutes, Constant DEF tm_min
<1>3. CASE clock /\ minute # tm_min(now)
  <2>1. minute' = tm_min(now) /\ buf' = sector /\ pc' = "fireA" /\ looked' = Minute(now)
    BY <1>3 DEF LLook, FirePC
  <2>2. MinuteIsLooked' /\ HasLooked'
    BY <1>1, <1>2, <2>1 DEF MinuteIsLooked, tm_min, HasLooked, NoMinute
  <2>3. QED
    BY <1>1, <2>1, <2>2 DEF DueInv, WhileUndisturbed, GetsToLook, Fires
<1>4. CASE ~ (clock /\ minute # tm_min(now))
  <2>1. pc' = "upload" /\ UNCHANGED <<minute, buf, looked>>
    BY <1>4 DEF LLook
  <2>2. undisturbed => HasLooked
    <3>1. SUFFICES ASSUME undisturbed PROVE HasLooked
      OBVIOUS
    <3>2. minute = tm_min(now)
      BY <1>4, <3>1 DEF DueInv, WhileUndisturbed
    <3>3. looked \in Nat /\ looked % Hour = Minute(now) % Hour /\ looked <= Minute(now)
      BY <1>1, <1>2, <3>2 DEF DueInv, MinuteIsLooked, tm_min, NoMinute
    <3>4. looked = Minute(now) \/ Minute(now) - looked >= Hour
      BY <1>2, <3>3, HoursApart, Constant
    <3>5. QED
      BY <1>2, <3>3, <3>4, Constant DEF HasLooked, TellsMinutes, NoMinute
  <2>3. HasLooked' = HasLooked
    BY <1>1, <2>1 DEF HasLooked, TellsMinutes
  <2>4. MinuteIsLooked' /\ GetsToLook'
    BY <1>1, <2>1, <2>2, <2>3 DEF DueInv, MinuteIsLooked, GetsToLook
  <2>5. Fires'
    BY <1>1, <2>1, SentStays DEF DueInv, Fires, Outlets
  <2>6. QED
    BY <1>1, <2>4, <2>5 DEF DueInv, WhileUndisturbed
<1>5. QED
  BY <1>3, <1>4

LEMMA FireStep == ASSUME TypeOK, DueInv, NEW o \in Outlets, LFire(o) PROVE DueInv'
<1>1. /\ pc = FirePC(o) /\ pc' = IF o = 1 THEN "fireB" ELSE "upload"
      /\ UNCHANGED <<now, sector, wpc, clock, waited, minute, buf, looked, undisturbed>>
      /\ fired' = fired \cup {Command(o, e) : e \in DueNow(o)}
  BY DEF LFire, LKeep, writeVars, FirePC, Command, Outlets
<1>2. looked = Minute(now) /\ FirePC(o) \in {"fireA", "fireB"}
  BY <1>1 DEF DueInv, MinuteIsLooked, FirePC
<1>3. WhileUndisturbed' /\ MinuteIsLooked'
  BY <1>1, <1>2 DEF DueInv, WhileUndisturbed, MinuteIsLooked
<1>4. GetsToLook'
  BY <1>1, <1>2 DEF GetsToLook, HasLooked
<1>5. ASSUME undisturbed PROVE AllSent(o)'
  <2>1. buf = sector
    BY <1>1, <1>2, <1>5 DEF DueInv, Fires
  <2>2. \A e \in ToSet(sector[o]) : Due(e, now) => Command(o, e) \in fired'
    BY <1>1, <2>1 DEF DueNow
  <2>3. QED
    BY <1>1, <2>2 DEF AllSent, Command
<1>6. Fires'
  <2>1. CASE o = 1
    BY <1>1, <1>2, <1>5, <2>1 DEF DueInv, Fires, FirePC
  <2>2. CASE o = 2
    BY <1>1, <1>2, <1>5, <2>2, SentStays DEF DueInv, Fires, FirePC, Outlets
  <2>3. QED
    BY <2>1, <2>2 DEF Outlets
<1>7. QED
  BY <1>3, <1>4, <1>6 DEF DueInv

LEMMA TickStep == ASSUME TypeOK, DueInv, Tick PROVE DueInv'
<1>1. /\ now \in Nat /\ now' = now + 1 /\ Minute(now) \in Nat /\ looked \in {NoMinute} \cup Nat
      /\ UNCHANGED <<clock, sector, wpc, minute, buf, fired, looked>>
      /\ undisturbed' = IF NewMinute THEN clock /\ wpc = "idle" ELSE undisturbed
      /\ pc \notin {"fireA", "fireB", "look"} /\ pc' \notin {"fireA", "fireB", "look"}
  BY HalfMinutes DEF Tick, writeVars, TypeOK
<1>2. \/ pc \in {"alarm", "upload"} /\ waited = 0 /\ waited' = 1 /\ pc' = pc
      \/ pc = "sleep" /\ pc' = "alarm" /\ waited' = waited
  BY DEF Tick
<1>3. CASE now % TicksPerMinute = 0
  <2>1. /\ Minute(now') = Minute(now) /\ now' % TicksPerMinute = 1 /\ undisturbed' = undisturbed
        /\ Minute(now)' = Minute(now)
    BY <1>1, <1>3, HalfMinutes DEF NewMinute
  <2>2. WhileUndisturbed' /\ MinuteIsLooked'
    BY <1>1, <2>1 DEF DueInv, WhileUndisturbed, MinuteIsLooked
  <2>3. HasLooked' = HasLooked
    BY <1>1, <2>1 DEF HasLooked, TellsMinutes
  <2>4. GetsToLook'
    BY <1>1, <1>2, <2>1, <2>3 DEF DueInv, GetsToLook
  <2>5. ASSUME NEW o \in Outlets, AllSent(o) PROVE AllSent(o)'
    <3>1. SUFFICES ASSUME NEW e \in ToSet(sector[o]), Due(e, now')
                   PROVE  [o |-> o, e |-> e, m |-> Minute(now')] \in fired
      BY <1>1 DEF AllSent, Command
    <3>2. Due(e, now)
      BY <1>1, <2>1, <3>1, SinceType, DueBefore
    <3>3. QED
      BY <2>1, <2>5, <3>2 DEF AllSent, Command
  <2>6. Fires'
    BY <1>1, <2>1, <2>5 DEF DueInv, Fires, Outlets
  <2>7. QED
    BY <2>2, <2>4, <2>6 DEF DueInv
<1>4. CASE now % TicksPerMinute = 1
  <2>1. /\ now' % TicksPerMinute = 0 /\ undisturbed' = (clock /\ wpc = "idle")
        /\ Minute(now)' = Minute(now) + 1
    BY <1>1, <1>4, HalfMinutes DEF NewMinute
  <2>2. looked' < Minute(now)' /\ looked' <= Minute(now)'
    BY <1>1, <2>1 DEF DueInv, MinuteIsLooked, NoMinute
  <2>3. WhileUndisturbed' /\ MinuteIsLooked'
    BY <1>1, <2>1, <2>2 DEF DueInv, WhileUndisturbed, MinuteIsLooked
  <2>4. GetsToLook'
    <3>1. HasLooked' \/ ~undisturbed' \/ pc' = "alarm" \/ (pc' = "upload" /\ waited' = 1)
          \/ (pc = "upload" /\ waited' = 1)
      BY <1>2
    <3>2. QED
      BY <1>2, <2>1, <3>1 DEF GetsToLook
  <2>5. Fires'
    BY <1>1, <2>1, <2>2 DEF Fires, NoMinute
  <2>6. QED
    BY <2>3, <2>4, <2>5 DEF DueInv
<1>5. QED
  BY <1>1, <1>3, <1>4, HalfMinutes

LEMMA DueStep == ASSUME WriteInv, DueInv, [Next]_vars PROVE DueInv'
<1>1. TypeOK /\ undisturbed \in BOOLEAN /\ clock \in BOOLEAN
  BY DEF WriteInv, TypeOK
<1>2. CASE Write
  <2>1. UNCHANGED <<now, clock, pc, waited, minute, buf, fired, looked>>
    BY <1>2, WriteStep DEF loopVars
  <2>2. \/ undisturbed' = FALSE
        \/ wpc # "idle" /\ undisturbed' = undisturbed
    BY <1>2 DEF Write, WRead, WErase, WHead, WRest, WEnd
  <2>3. undisturbed' = FALSE
    BY <1>1, <2>2 DEF DueInv, WhileUndisturbed
  <2>4. QED
    BY <2>1, <2>3 DEF DueInv, WhileUndisturbed, MinuteIsLooked, GetsToLook, Fires
<1>3. CASE LSetClock \/ LAlarm \/ LUpload
  <2>1. /\ UNCHANGED <<now, sector, wpc, minute, buf, fired, looked, undisturbed>>
        /\ pc \notin {"fireA", "fireB"} /\ pc' \notin {"fireA", "fireB"}
        /\ clock' = TRUE \/ clock' = clock
    BY <1>3 DEF LSetClock, LAlarm, LUpload, LKeep, writeVars, loopVars
  <2>2. WhileUndisturbed' /\ MinuteIsLooked'
    <3>1. undisturbed' = undisturbed /\ wpc' = wpc
      BY <2>1
    <3>2. undisturbed => clock /\ wpc = "idle"
      BY DEF DueInv, WhileUndisturbed
    <3>3. undisturbed => clock'
      <4>1. CASE clock' = TRUE
        BY <4>1
      <4>2. CASE clock' = clock
        BY <3>2, <4>2
      <4>3. QED
        BY <2>1, <4>1, <4>2
    <3>4. WhileUndisturbed'
      BY <3>1, <3>2, <3>3 DEF WhileUndisturbed
    <3>5. QED
      BY <2>1, <3>4 DEF DueInv, MinuteIsLooked
  <2>3. HasLooked' = HasLooked
    BY <2>1 DEF HasLooked, TellsMinutes
  <2>4. GetsToLook'
    BY <1>3, <2>1, <2>3 DEF DueInv, GetsToLook, LSetClock, LAlarm, LUpload, loopVars
  <2>5. Fires'
    BY <2>1, SentStays DEF DueInv, Fires, Outlets
  <2>6. QED
    BY <2>2, <2>4, <2>5 DEF DueInv
<1>4. CASE LLook
  BY <1>1, <1>4, LookStep
<1>5. CASE \E o \in Outlets : LFire(o)
  BY <1>1, <1>5, FireStep
<1>6. CASE Tick
  BY <1>1, <1>6, TickStep
<1>7. CASE Deleted
  <2>1. undisturbed' = FALSE /\ pc' = "alarm" /\ UNCHANGED <<now, minute, looked>>
    BY <1>7 DEF Deleted
  <2>2. QED
    BY <2>1 DEF DueInv, WhileUndisturbed, MinuteIsLooked, GetsToLook, Fires
<1>8. CASE PowerFailure
  <2>1. /\ undisturbed' = FALSE /\ pc' = "alarm" /\ minute' = NoMinute /\ looked' = NoMinute
        /\ UNCHANGED now
    BY <1>8 DEF PowerFailure
  <2>2. Minute(now) \in Nat
    BY <1>1, HalfMinutes DEF TypeOK
  <2>3. QED
    BY <2>1, <2>2 DEF DueInv, WhileUndisturbed, MinuteIsLooked, GetsToLook, Fires, NoMinute
<1>9. CASE UNCHANGED vars
  BY <1>9 DEF DueInv, WhileUndisturbed, MinuteIsLooked, GetsToLook, HasLooked, TellsMinutes, Fires,
              AllSent, Command, vars, writeVars, loopVars, historyVars
<1>10. QED
  BY <1>2, <1>3, <1>4, <1>5, <1>6, <1>7, <1>8, <1>9 DEF Next, Loop

LEMMA DueInit == Init => DueInv
<1> SUFFICES ASSUME Init PROVE DueInv
    OBVIOUS
<1>1. /\ now = 0 /\ undisturbed = FALSE /\ pc = "alarm" /\ minute = NoMinute /\ looked = NoMinute
  BY DEF Init
<1>2. Minute(now) \in Nat
  BY <1>1, HalfMinutes
<1>3. QED
  BY <1>1, <1>2 DEF DueInv, WhileUndisturbed, MinuteIsLooked, GetsToLook, Fires, NoMinute

-----------------------------------------------------------------------------
LEMMA InvInit == Init => BufferKept /\ FiredInv
<1> SUFFICES ASSUME Init PROVE BufferKept /\ FiredInv
    OBVIOUS
<1>1. sector = Empty /\ buf = Empty /\ last = Empty /\ wpc = "idle" /\ fired = {}
  BY DEF Init
<1>2. \A o \in Outlets : DOMAIN Empty[o] = {}
  BY DEF Empty
<1>3. QED
  BY <1>1, <1>2 DEF BufferKept, FiredInv, ReadWasSet, From

LEMMA Writing == Spec => []WriteInv
BY WriteInvInit, WriteInvStep, PTL DEF Spec

(***************************************************************************)
(* Every variable of the timers keeps its type; a half-programmed sector is*)
(* the first part of what was read (write_timerdata).                      *)
(***************************************************************************)
THEOREM TypeCorrect == Spec => []TypeOK
<1>1. WriteInv => TypeOK
  BY DEF WriteInv
<1>2. QED
  BY <1>1, Writing, PTL

(***************************************************************************)
(* Between two writes each outlet's list is the one set last, unless a     *)
(* power failure broke off a write.                                        *)
(***************************************************************************)
THEOREM ListsAreKept == Spec => []ListsKept
<1>1. BufferKept => ListsKept
  BY DEF BufferKept, ListsKept
<1>2. QED
  BY <1>1, Writing, InvInit, BufferStep, PTL DEF Spec

(***************************************************************************)
(* What timer_handle sends was set for that day and minute, and not longer *)
(* ago than a week unless it repeats, while no table was mixed.            *)
(***************************************************************************)
THEOREM FiredIsDue == Spec => []FiredWasSet
<1>1. FiredInv => FiredWasSet
  BY DEF FiredInv, FiredWasSet, Good
<1>2. QED
  BY <1>1, Writing, InvInit, FiredStep, PTL DEF Spec

(***************************************************************************)
(* When a minute ends in which the clock was set and nothing disturbed the *)
(* loop, the command of every timer due in it has been sent, as long as    *)
(* timer_handle's static minute can tell the minutes apart.                *)
(***************************************************************************)
THEOREM DueIsAlwaysFired == Spec => DueIsFired
<1>1. ASSUME WriteInv, DueInv, [Next]_vars
      PROVE  [now' # now /\ NewMinute /\ undisturbed /\ TellsMinutes =>
                \A o \in Outlets : \A e \in ToSet(sector[o]) :
                  Due(e, now) => [o |-> o, e |-> e, m |-> Minute(now)] \in fired]_vars
  <2>1. SUFFICES ASSUME now' # now, NewMinute, undisturbed, TellsMinutes, NEW o \in Outlets
                 PROVE  AllSent(o)
    BY DEF AllSent, Command
  <2>2. TypeOK /\ now \in Nat
    BY <1>1 DEF WriteInv, TypeOK
  <2>3. Tick
    <3>1. Write \/ Loop \/ Deleted \/ PowerFailure \/ UNCHANGED vars => UNCHANGED now
      BY <1>1, <2>2, WriteStep, LoopStep DEF Deleted, PowerFailure, vars
    <3>2. QED
      BY <1>1, <2>1, <3>1 DEF Next
  <2>4. /\ now % TicksPerMinute = 1 /\ now % TicksPerMinute # 0
        /\ pc \notin {"fireA", "fireB", "look"} /\ (pc = "alarm" => waited # 1)
    BY <2>1, <2>2, <2>3, HalfMinutes DEF Tick, NewMinute
  <2>5. looked = Minute(now)
    BY <1>1, <2>1, <2>4 DEF DueInv, GetsToLook, HasLooked
  <2>6. QED
    BY <1>1, <2>1, <2>4, <2>5 DEF DueInv, Fires, Outlets
<1>2. QED
  BY <1>1, Writing, DueInit, DueStep, PTL DEF Spec, DueIsFired

==============================================================================
