--------------------------- MODULE HisFlash_proofs ---------------------------
(***************************************************************************)
(* Proofs about the energy history, for any number of months, days and     *)
(* quarters of an hour, reports, power failures and deletions of a task.   *)
(***************************************************************************)
EXTENDS HisFlash, TLAPS

-----------------------------------------------------------------------------
(***************************************************************************)
(* Types.  A task that is at work has a report, or a date, to work for.    *)
(***************************************************************************)

Working ==
  /\ wpc # "idle" => wjob \in Jobs
  /\ rpc # "idle" => rnow \in [mon : Months, off : Offsets]

TInv == TypeOK /\ Working

\* The marker, head and cells the writer works on are those of a sector.
LEMMA MineIsSector ==
  ASSUME TInv, wpc # "idle"
  PROVE  wjob \in Jobs /\ wjob.ch \in Channels /\ Mine \in Sectors
BY HisAssumption DEF TInv, TypeOK, Working, Jobs, Mine, Sectors

\* The cells of a sector, before and after one of them is programmed.
LEMMA ProgramType ==
  ASSUME NEW c \in [Sectors -> [Offsets -> SUBSET Bits]], NEW s \in Sectors,
         NEW o \in Offsets, NEW b,
         NEW d, d = [c EXCEPT ![s][o] = Program(@, b)]
  PROVE  d \in [Sectors -> [Offsets -> SUBSET Bits]]
BY DEF Program

LEMMA TypeInit == Init => TInv
<1> SUFFICES ASSUME Init PROVE TInv
    OBVIOUS
<1>1. TypeOK
  BY HisAssumption DEF Init, TypeOK, Marks, WriterPC, ReporterPC, Erased, Bits
<1>2. QED
  BY <1>1 DEF Init, TInv, Working

LEMMA TypeInductive == TInv /\ [Next]_vars => TInv'
<1> SUFFICES ASSUME TInv, [Next]_vars PROVE TInv'
    OBVIOUS
<1> USE HisAssumption DEF TInv, TypeOK, Working, WriterPC, ReporterPC, Marks,
        wVars, rVars
<1>1. ASSUME NEW job \in Jobs, WBegin(job) PROVE TInv'
  BY <1>1 DEF WBegin, WKeep, Jobs, TheActive, Active
<1>2. CASE WRetire
  BY <1>2, MineIsSector DEF WRetire, WGoto, WKeep
<1>3. CASE WErase
  BY <1>3, MineIsSector DEF WErase, WGoto, WKeep, Erased, Bits, Jobs
<1>4. CASE WMark
  BY <1>4 DEF WMark, WGoto, WKeep
<1>5. CASE WHead
  BY <1>5, MineIsSector DEF WHead, WGoto, WKeep, Jobs
<1>6. CASE WHeads
  BY <1>6, MineIsSector DEF WHeads, WGoto, WKeep, Jobs
<1>7. CASE WLook
  BY <1>7 DEF WLook, WriterLocals, WKeep
<1>8. CASE WSlot
  <2>1. cell' \in [Sectors -> [Offsets -> SUBSET Bits]]
    BY <1>8, MineIsSector DEF WSlot, Program, Jobs
  <2>2. QED
    BY <1>8, <2>1, MineIsSector DEF WSlot, WriterLocals, WKeep
<1>9. ASSUME NEW mon \in Months, NEW off \in Offsets, RBegin(mon, off) PROVE TInv'
  BY <1>9 DEF RBegin, RKeep
<1>10. ASSUME NEW ch \in Channels, RFind(ch) PROVE TInv'
  <2>1. rsec' \in [Channels -> {0, 1}] /\ rdata' \in [Channels -> SUBSET Bits]
    BY <1>10 DEF RFind, ReporterLocals, TheActive
  <2>2. rpc' \in ReporterPC /\ (rpc' = "idle" \/ rpc # "idle")
    BY <1>10 DEF RFind, ReporterLocals, Of
  <2>3. ((rnow' = NoDate /\ rpc' = "idle") \/ rnow' = rnow) /\ turned' \subseteq Channels
    BY <1>10 DEF RFind, ReporterLocals
  <2>4. QED
    BY <1>10, <2>1, <2>2, <2>3 DEF RFind, RKeep
<1>11. ASSUME NEW ch \in Channels, RRead(ch) PROVE TInv'
  <2>1. rsec' \in [Channels -> {0, 1}] /\ rdata' \in [Channels -> SUBSET Bits]
    <3>1. rpc = "read1" \/ rpc = "read2"
      BY <1>11 DEF RRead, Of
    <3>2. cell[<<ch, rsec[ch]>>][rnow.off] \in SUBSET Bits
      BY <1>11, <3>1 DEF Sectors
    <3>3. \/ ReporterLocals
          \/ /\ rdata' = [rdata EXCEPT ![ch] = cell[<<ch, rsec[ch]>>][rnow.off]]
             /\ UNCHANGED rsec
      BY <1>11 DEF RRead
    <3>4. QED
      BY <1>11, <3>2, <3>3 DEF ReporterLocals
  <2>2. rpc' \in ReporterPC /\ (rpc' = "idle" \/ rpc # "idle")
    BY <1>11 DEF RRead, ReporterLocals, Of
  <2>3. ((rnow' = NoDate /\ rpc' = "idle") \/ rnow' = rnow) /\ turned' \subseteq Channels
    BY <1>11 DEF RRead, ReporterLocals
  <2>4. QED
    BY <1>11, <2>1, <2>2, <2>3 DEF RRead, RKeep
<1>12. CASE RSend
  <2>1. Message \in [mon : Months, off : Offsets, q : [Channels -> SUBSET LowBits]]
    BY <1>12 DEF RSend, Message, Bits
  <2>2. QED
    BY <1>12, <2>1, ZenonT(30) DEF RSend, RKeep, ReporterLocals
<1>13. ASSUME NEW ch \in Channels, RAck(ch) PROVE TInv'
  <2>1. cell' \in [Sectors -> [Offsets -> SUBSET Bits]]
    BY <1>13 DEF RAck, Program, Sectors
  <2>2. rpc' \in ReporterPC /\ (rpc' = "idle" \/ rpc # "idle")
    BY <1>13 DEF RAck, ReporterLocals, Of
  <2>3. \/ UNCHANGED <<rnow, rsec, rdata, turned>>
        \/ ReporterLocals
    BY <1>13 DEF RAck
  <2>4. QED
    BY <1>13, <2>1, <2>2, <2>3, ZenonT(30) DEF RAck, RKeep, ReporterLocals
<1>14. CASE ReporterDeleted
  BY <1>14 DEF ReporterDeleted, ReporterLocals
<1>15. CASE PowerFailure
  BY <1>15 DEF PowerFailure, WriterLocals, ReporterLocals
<1>16. CASE UNCHANGED vars
  BY <1>16 DEF vars
<1>17. QED
  BY <1>1, <1>2, <1>3, <1>4, <1>5, <1>6, <1>7, <1>8, <1>9, <1>10, <1>11, <1>12,
     <1>13, <1>14, <1>15, <1>16 DEF Next, Writer, Reporter

-----------------------------------------------------------------------------
(***************************************************************************)
(* The strengthening.  OneActive alone is not inductive: what the writer   *)
(* may assume of the markers depends on how far it has come.               *)
(***************************************************************************)

\* Between retiring a sector and marking the next, the channel has no active
\* one; afterwards the writer's sector is the active one.
Markers ==
  /\ OneActive
  /\ wpc = "retire" => mark[Mine] = "active"
  /\ wpc \in {"erase", "mark"} => \A s \in {0, 1} : mark[<<wjob.ch, s>>] # "active"
  /\ wpc = "mark" => mark[Mine] = "erased"
  /\ wpc \in {"head", "heads", "look", "slot"} => mark[Mine] = "active"

\* The reporter has found the sector of a channel, has read a byte of it.
Found(ch) == IF ch = 1 THEN rpc \notin {"idle", "find1"}
                       ELSE rpc \in {"read2", "send", "ack1", "ack2"}
Loaded(ch) == IF ch = 1 THEN rpc \in {"find2", "read2", "send", "ack1"}
                        ELSE rpc \in {"send", "ack1", "ack2"}

\* The sector it found is safe: the channel has changed sectors since and will
\* not do so again, or the sector is active, or it is just retired and the
\* other one is about to be erased.
Safe(ch) ==
  \/ ch \in turned
  \/ mark[<<ch, rsec[ch]>>] = "active"
  \/ wpc = "erase" /\ wjob.ch = ch /\ wsec = 1 - rsec[ch]

FoundIsSafe == \A ch \in Channels : Found(ch) => Safe(ch)

\* So a filed byte it has read is still there.
LoadedIsThere ==
  \A ch \in Channels :
    Loaded(ch) /\ rdata[ch] # Erased => cell[<<ch, rsec[ch]>>][rnow.off] = rdata[ch]

\* What it is about to mark as told was filed and due, and the cloud has got it.
DueAndGot ==
  /\ rpc \in {"send", "ack1", "ack2"} =>
       \A ch \in Channels : Flag \in rdata[ch] /\ rdata[ch] # Erased
  /\ rpc \in {"ack1", "ack2"} => Message \in published

Reading == FoundIsSafe /\ LoadedIsThere /\ DueAndGot

\* A byte's share of RecordsBelong and of ToldWasSent.
Belongs(ch, s, off) ==
  cell[<<ch, s>>][off] # Erased =>
    [ch |-> ch, mon |-> head[<<ch, s>>][1], off |-> off,
     q |-> cell[<<ch, s>>][off] \ {Flag}] \in recorded
Told(ch, s, off) ==
  Flag \notin cell[<<ch, s>>][off] =>
    \E m \in published : m.off = off /\ m.q[ch] = cell[<<ch, s>>][off]

\* What the writer's sector holds on the way, and what every byte does.
Contents ==
  /\ wpc \in {"mark", "head"} => \A off \in Offsets : cell[Mine][off] = Erased
  /\ wpc \in {"heads", "look", "slot"} => head[Mine][1] = wjob.mon
  /\ wpc = "slot" => cell[Mine][wjob.off] = Erased
  /\ \A ch \in Channels, s \in {0, 1}, off \in Offsets :
       Belongs(ch, s, off) /\ Told(ch, s, off)

\* r is in sector s of its channel.
KeptIn(r, s) == /\ head[<<r.ch, s>>][1] = r.mon
                /\ cell[<<r.ch, s>>][r.off] \ {Flag} = r.q

\* The writer is changing the sectors of a channel.
Changing == wpc \in {"retire", "erase", "mark", "head"}

\* Months only grow, and a record of the newest month is in the active sector,
\* so that there is none while the writer makes room for that month.
Newest ==
  /\ wpc # "idle" => mcu[wjob.ch] = wjob.mon
  /\ \A r \in recorded : r.mon <= mcu[r.ch]
  /\ wpc = "retire" => head[Mine][1] # wjob.mon
  /\ Changing => \A r \in recorded : r.ch = wjob.ch => r.mon # wjob.mon
  /\ \A r \in recorded : r.mon = mcu[r.ch] =>
       \E s \in {0, 1} : mark[<<r.ch, s>>] = "active" /\ KeptIn(r, s)

\* As long as nothing broke, the active sector is that of the newest month, and
\* the month before it is in the other one, or on its way there.
Previous ==
  /\ \A ch \in Channels : mcu[ch] # 0 => prev[ch] # mcu[ch]
  /\ breaks = 0 =>
       \A ch \in Channels :
         IF Changing /\ wjob.ch = ch
         THEN \A r \in recorded : (r.ch = ch /\ r.mon = prev[ch]) =>
                KeptIn(r, IF wpc = "retire" THEN wsec ELSE 1 - wsec)
         ELSE /\ mcu[ch] # 0 =>
                   \E s \in {0, 1} : mark[<<ch, s>>] = "active" /\ head[<<ch, s>>][1] = mcu[ch]
              /\ \A r \in recorded : (r.ch = ch /\ r.mon = prev[ch]) =>
                   \A s \in {0, 1} : mark[<<ch, s>>] = "active" => KeptIn(r, 1 - s)

LEMMA ActiveIsActive ==
  ASSUME NEW ch, Active(ch) # {}
  PROVE  TheActive(ch) \in {0, 1} /\ mark[<<ch, TheActive(ch)>>] = "active"
BY DEF Active, TheActive

LEMMA MarkersInit == Init => Markers
BY HisAssumption DEF Init, Markers, OneActive, Sectors

LEMMA MarkersInductive == TInv /\ Markers /\ [Next]_vars => Markers'
<1> SUFFICES ASSUME TInv, Markers, [Next]_vars PROVE Markers'
    OBVIOUS
<1> USE HisAssumption DEF Markers, OneActive, wVars, rVars
<1>1. ASSUME NEW job \in Jobs, WBegin(job) PROVE Markers'
  <2>1. CASE Active(job.ch) = {}
    BY <1>1, <2>1 DEF WBegin, Active
  <2>2. CASE Active(job.ch) # {}
    <3>1. mark'[Mine'] = "active" /\ wpc' \in {"look", "retire"}
      BY <1>1, <2>2, ActiveIsActive DEF WBegin, Mine
    <3>2. QED
      BY <1>1, <3>1 DEF WBegin
  <2>3. QED
    BY <2>1, <2>2
<1>2. CASE WRetire
  <2>1. mark \in [Sectors -> Marks] /\ wsec \in {0, 1} /\ wjob.ch \in Channels
    BY <1>2, MineIsSector DEF WRetire, WGoto, TInv, TypeOK
  <2>2. ASSUME NEW ch \in Channels, NEW s \in {0, 1}
        PROVE  mark'[<<ch, s>>] = IF ch = wjob.ch /\ s = wsec THEN "retired" ELSE mark[<<ch, s>>]
    BY <1>2, <2>1 DEF WRetire, Mine, Sectors
  <2>3. mark[<<wjob.ch, wsec>>] = "active"
    BY <1>2 DEF WRetire, WGoto, Mine
  <2>4. \A s \in {0, 1} : mark'[<<wjob.ch, s>>] # "active"
    BY <2>1, <2>2, <2>3
  <2>5. QED
    BY <1>2, <2>2, <2>4 DEF WRetire, WGoto
<1>3. CASE WErase
  BY <1>3, MineIsSector DEF WErase, WGoto, Mine, TInv, TypeOK
<1>4. CASE WMark
  <2>1. mark \in [Sectors -> Marks] /\ wsec \in {0, 1} /\ wjob.ch \in Channels
    BY <1>4, MineIsSector DEF WMark, WGoto, TInv, TypeOK
  <2>2. ASSUME NEW ch \in Channels, NEW s \in {0, 1}
        PROVE  mark'[<<ch, s>>] = IF ch = wjob.ch /\ s = wsec THEN "active" ELSE mark[<<ch, s>>]
    BY <1>4, <2>1 DEF WMark, WGoto, Mine, Sectors
  <2>3. \A s \in {0, 1} : mark[<<wjob.ch, s>>] # "active"
    BY <1>4 DEF WMark, WGoto
  <2>4. mark'[Mine'] = "active"
    BY <1>4, <2>1, <2>2 DEF WMark, Mine
  <2>5. QED
    BY <1>4, <2>1, <2>2, <2>3, <2>4 DEF WMark, WGoto
<1>5. CASE WHead
  BY <1>5 DEF WHead, WGoto, Mine
<1>6. CASE WHeads
  BY <1>6 DEF WHeads, WGoto, Mine
<1>7. CASE WLook
  BY <1>7 DEF WLook, WriterLocals, Mine
<1>8. CASE WSlot
  BY <1>8 DEF WSlot, WriterLocals, Mine
<1>9. CASE Reporter
  <2>1. UNCHANGED <<mark, wpc, wjob, wsec>>
    BY <1>9 DEF Reporter, RBegin, RFind, RRead, RAck, RSend, RKeep
  <2>2. QED
    BY <2>1 DEF Mine
<1>10. CASE ReporterDeleted
  BY <1>10 DEF ReporterDeleted, Mine
<1>11. CASE PowerFailure
  BY <1>11 DEF PowerFailure, WriterLocals, Mine
<1>12. CASE UNCHANGED vars
  BY <1>12 DEF vars, Mine
<1>13. QED
  BY <1>1, <1>2, <1>3, <1>4, <1>5, <1>6, <1>7, <1>8, <1>9, <1>10, <1>11, <1>12
     DEF Next, Writer

-----------------------------------------------------------------------------
(***************************************************************************)
(* The reporter.                                                           *)
(***************************************************************************)

\* The sector of a byte the reporter has read is not the one erased.
LEMMA SafeFromErase ==
  ASSUME TInv, Markers, FoundIsSafe, WErase, NEW ch \in Channels, Found(ch)
  PROVE  <<ch, rsec[ch]>> # Mine
<1>1. wpc = "erase" /\ wjob.ch \notin turned
  BY DEF WErase, WGoto
<1>2. SUFFICES ASSUME ch = wjob.ch, rsec[ch] = wsec PROVE FALSE
  BY DEF Mine
<1>3. Safe(ch)
  BY DEF FoundIsSafe
<1>4. mark[<<ch, rsec[ch]>>] # "active"
  BY <1>1, <1>2 DEF Markers, TInv, TypeOK
<1>5. wsec # 1 - rsec[ch]
  BY <1>2 DEF TInv, TypeOK
<1>6. QED
  BY <1>1, <1>2, <1>3, <1>4, <1>5 DEF Safe

LEMMA SafeInductive ==
  TInv /\ Markers /\ FoundIsSafe /\ [Next]_vars => FoundIsSafe'
<1> SUFFICES ASSUME TInv, Markers, FoundIsSafe, [Next]_vars,
                    NEW ch \in Channels, Found(ch)'
             PROVE  Safe(ch)'
    BY DEF FoundIsSafe
<1> USE HisAssumption DEF wVars, rVars
<1>0. Found(ch) => Safe(ch)
  BY DEF FoundIsSafe
<1>1. ASSUME NEW job \in Jobs, WBegin(job) PROVE Safe(ch)'
  BY <1>0, <1>1 DEF WBegin, WKeep, Found, Safe
<1>2. CASE WRetire
  <2>1. Safe(ch) /\ wpc = "retire" /\ UNCHANGED <<turned, rsec>>
    BY <1>0, <1>2 DEF WRetire, WGoto, WKeep, Found
  <2>2. CASE ch \in turned
    BY <2>1, <2>2 DEF Safe
  <2>3. CASE ch = wjob.ch /\ rsec[ch] = wsec
    BY <1>2, <2>1, <2>3 DEF WRetire, WGoto, Safe, TInv, TypeOK
  <2>4. CASE ch \notin turned /\ <<ch, rsec[ch]>> # Mine
    <3>1. <<ch, rsec[ch]>> \in Sectors
      BY DEF Sectors, TInv, TypeOK
    <3>2. mark'[<<ch, rsec[ch]>>] = mark[<<ch, rsec[ch]>>]
      BY <1>2, <2>4, <3>1 DEF WRetire, TInv, TypeOK
    <3>3. QED
      BY <2>1, <2>4, <3>2 DEF Safe
  <2>5. QED
    BY <2>2, <2>3, <2>4 DEF Mine
<1>3. CASE WErase
  <2>1. Found(ch) /\ rpc # "idle"
    BY <1>3 DEF WErase, WKeep, Found
  <2>2. turned' = turned \cup {wjob.ch} /\ wpc = "erase" /\ UNCHANGED rsec
    BY <1>3, <2>1 DEF WErase, WGoto, WKeep
  <2>3. CASE ch \in turned \cup {wjob.ch}
    BY <2>2, <2>3 DEF Safe
  <2>4. CASE ch \notin turned \cup {wjob.ch}
    <3>1. <<ch, rsec[ch]>> \in Sectors /\ <<ch, rsec[ch]>> # Mine
      BY <2>4 DEF Sectors, Mine, TInv, TypeOK
    <3>2. mark'[<<ch, rsec[ch]>>] = mark[<<ch, rsec[ch]>>]
      BY <1>3, <3>1 DEF WErase, TInv, TypeOK
    <3>3. QED
      BY <1>0, <2>1, <2>2, <2>4, <3>2 DEF Safe
  <2>5. QED
    BY <2>3, <2>4
<1>4. CASE WMark
  <2>1. Safe(ch) /\ wpc = "mark" /\ UNCHANGED <<turned, rsec>>
    BY <1>0, <1>4 DEF WMark, WGoto, WKeep, Found
  <2>2. <<ch, rsec[ch]>> \in Sectors
    BY DEF Sectors, TInv, TypeOK
  <2>3. mark[<<ch, rsec[ch]>>] = "active" => mark'[<<ch, rsec[ch]>>] = "active"
    BY <1>4, <2>2 DEF WMark, TInv, TypeOK
  <2>4. QED
    BY <2>1, <2>3 DEF Safe
<1>5. CASE WHead \/ WHeads \/ WLook \/ WSlot
  BY <1>0, <1>5 DEF WHead, WHeads, WLook, WSlot, WGoto, WKeep, WriterLocals, Found, Safe
<1>6. ASSUME NEW mon \in Months, NEW off \in Offsets, RBegin(mon, off) PROVE Safe(ch)'
  BY <1>6 DEF RBegin, Found
<1>7. ASSUME NEW c \in Channels, RFind(c) PROVE Safe(ch)'
  <2>1. rpc = Of(c, "find1", "find2") /\ rpc' = Of(c, "read1", "read2")
    BY <1>7 DEF RFind, ReporterLocals, Found
  <2>2. /\ UNCHANGED <<mark, wpc, wjob, wsec, turned>>
        /\ rsec' = [rsec EXCEPT ![c] = TheActive(c)]
        /\ mark[<<c, TheActive(c)>>] = "active"
    BY <1>7, <2>1, ActiveIsActive DEF RFind, RKeep, ReporterLocals, Of
  <2>3. CASE ch = c
    BY <2>2, <2>3 DEF Safe, TInv, TypeOK
  <2>4. CASE ch # c
    <3>1. Found(ch)
      BY <2>1, <2>4 DEF Found, Of
    <3>2. rsec'[ch] = rsec[ch]
      BY <2>2, <2>4 DEF TInv, TypeOK
    <3>3. QED
      BY <1>0, <2>2, <3>1, <3>2 DEF Safe
  <2>5. QED
    BY <2>3, <2>4
<1>8. ASSUME NEW c \in Channels, RRead(c) \/ RAck(c) PROVE Safe(ch)'
  <2>1. rpc' # "idle"
    BY DEF Found
  <2>2. UNCHANGED <<mark, wpc, wjob, wsec, turned, rsec>>
    BY <1>8, <2>1 DEF RRead, RAck, RKeep, ReporterLocals
  <2>3. Found(ch)
    BY <1>8, <2>1 DEF RRead, RAck, ReporterLocals, Of, Found
  <2>4. QED
    BY <1>0, <2>2, <2>3 DEF Safe
<1>9. CASE RSend
  BY <1>0, <1>9 DEF RSend, RKeep, ReporterLocals, Found, Safe
<1>10. CASE ReporterDeleted \/ PowerFailure
  BY <1>10 DEF ReporterDeleted, PowerFailure, ReporterLocals, Found
<1>11. CASE UNCHANGED vars
  BY <1>0, <1>11 DEF vars, Found, Safe
<1>12. QED
  BY <1>1, <1>2, <1>3, <1>4, <1>5, <1>6, <1>7, <1>8, <1>9, <1>10, <1>11
     DEF Next, Writer, Reporter

LEMMA DueInductive ==
  TInv /\ DueAndGot /\ [Next]_vars => DueAndGot'
<1> SUFFICES ASSUME TInv, DueAndGot, [Next]_vars, rpc' # "idle" PROVE DueAndGot'
    BY DEF DueAndGot
<1> USE HisAssumption DEF DueAndGot, wVars, rVars, Message
<1>1. CASE Writer
  <2>1. UNCHANGED rVars
    BY <1>1 DEF Writer, WBegin, WRetire, WErase, WMark, WHead, WHeads, WLook, WSlot, WKeep
  <2>2. QED
    BY <2>1
<1>2. ASSUME NEW mon \in Months, NEW off \in Offsets, RBegin(mon, off) PROVE DueAndGot'
  BY <1>2 DEF RBegin
<1>3. ASSUME NEW ch \in Channels, RFind(ch) PROVE DueAndGot'
  BY <1>3 DEF RFind, ReporterLocals, Of
<1>4. ASSUME NEW ch \in Channels, RRead(ch) PROVE DueAndGot'
  <2>1. CASE ch = 1
    BY <1>4, <2>1 DEF RRead, ReporterLocals, Of
  <2>2. CASE ch = 2
    <3>1. LET b == cell[<<2, rsec[2]>>][rnow.off]
          IN BothDue(b) /\ rdata' = [rdata EXCEPT ![2] = b] /\ rpc' = "send"
      BY <1>4, <2>2 DEF RRead, ReporterLocals, Of
    <3>2. \A c \in Channels : Flag \in rdata'[c] /\ rdata'[c] # Erased
      BY <3>1 DEF BothDue, TInv, TypeOK
    <3>3. QED
      BY <3>1, <3>2
  <2>3. QED
    BY <2>1, <2>2
<1>5. CASE RSend
  BY <1>5 DEF RSend, ReporterLocals
<1>6. ASSUME NEW ch \in Channels, RAck(ch) PROVE DueAndGot'
  BY <1>6 DEF RAck, ReporterLocals, Of
<1>7. CASE ReporterDeleted \/ PowerFailure
  BY <1>7 DEF ReporterDeleted, PowerFailure, ReporterLocals
<1>8. CASE UNCHANGED vars
  BY <1>8 DEF vars
<1>9. QED
  BY <1>1, <1>2, <1>3, <1>4, <1>5, <1>6, <1>7, <1>8 DEF Next, Reporter

\* What the reporter programs: the byte it has read, without bit 7.
LEMMA AckClears ==
  ASSUME TInv, LoadedIsThere, DueAndGot, NEW ch \in Channels, RAck(ch)
  PROVE  /\ <<ch, rsec[ch]>> \in Sectors /\ rnow.off \in Offsets
         /\ rdata[ch] # Erased /\ Flag \in rdata[ch]
         /\ cell[<<ch, rsec[ch]>>][rnow.off] = rdata[ch]
         /\ Message \in published
         /\ \A t \in Sectors, o \in Offsets :
              cell'[t][o] = IF t = <<ch, rsec[ch]>> /\ o = rnow.off
                            THEN cell[t][o] \ {Flag} ELSE cell[t][o]
<1> DEFINE s == <<ch, rsec[ch]>>
<1>1. rpc \in {"ack1", "ack2"} /\ Loaded(ch)
  BY HisAssumption DEF RAck, Of, Loaded
<1>2. s \in Sectors /\ rnow.off \in Offsets
  BY <1>1 DEF TInv, TypeOK, Working, Sectors
<1>3. Flag \in rdata[ch] /\ rdata[ch] # Erased /\ Message \in published
  BY <1>1 DEF DueAndGot
<1>4. cell[s][rnow.off] = rdata[ch]
  BY <1>1, <1>3 DEF LoadedIsThere
<1>5. Program(cell[s][rnow.off], rdata[ch] \ {Flag}) = cell[s][rnow.off] \ {Flag}
  BY <1>4 DEF Program
<1>6. cell' = [cell EXCEPT ![s][rnow.off] = cell[s][rnow.off] \ {Flag}]
  BY <1>5 DEF RAck
<1>7. ASSUME NEW t \in Sectors, NEW o \in Offsets
      PROVE  cell'[t][o] = IF t = s /\ o = rnow.off THEN cell[t][o] \ {Flag}
                                                    ELSE cell[t][o]
  BY <1>2, <1>6 DEF TInv, TypeOK
<1>8. QED
  BY <1>2, <1>3, <1>4, <1>7

\* What the writer programs: a byte that is erased, to the report with bit 7.
LEMMA SlotFiles ==
  ASSUME TInv, Contents, WSlot
  PROVE  /\ Mine \in Sectors /\ wjob \in Jobs /\ wjob.off \in Offsets
         /\ cell[Mine][wjob.off] = Erased
         /\ \A t \in Sectors, o \in Offsets :
              cell'[t][o] = IF t = Mine /\ o = wjob.off THEN wjob.q \cup {Flag}
                                                        ELSE cell[t][o]
<1>1. wpc = "slot"
  BY DEF WSlot
<1>2. Mine \in Sectors /\ wjob \in Jobs /\ wjob.off \in Offsets
  BY <1>1, MineIsSector DEF Jobs
<1>3. cell[Mine][wjob.off] = Erased
  BY <1>1 DEF Contents
<1>4. wjob.q \subseteq LowBits
  BY <1>2, HisAssumption DEF Jobs
<1>5. Program(cell[Mine][wjob.off], wjob.q \cup {Flag}) = wjob.q \cup {Flag}
  BY <1>3, <1>4 DEF Program, Erased, Bits
<1>6. cell' = [cell EXCEPT ![Mine][wjob.off] = wjob.q \cup {Flag}]
  BY <1>5 DEF WSlot
<1>7. ASSUME NEW t \in Sectors, NEW o \in Offsets
      PROVE  cell'[t][o] = IF t = Mine /\ o = wjob.off THEN wjob.q \cup {Flag}
                                                        ELSE cell[t][o]
  BY <1>2, <1>6 DEF TInv, TypeOK
<1>8. QED
  BY <1>2, <1>3, <1>7

\* Erasing touches the writer's sector only.
LEMMA EraseCells ==
  ASSUME TInv, WErase
  PROVE  /\ Mine \in Sectors
         /\ \A t \in Sectors : t # Mine => cell'[t] = cell[t] /\ head'[t] = head[t]
         /\ \A o \in Offsets : cell'[Mine][o] = Erased
<1>1. Mine \in Sectors
  BY MineIsSector DEF WErase, WGoto
<1>2. QED
  BY <1>1 DEF WErase, TInv, TypeOK

LEMMA LoadedInductive ==
  ASSUME TInv, Markers, Reading, Contents, [Next]_vars
  PROVE  LoadedIsThere'
<1> SUFFICES ASSUME NEW ch \in Channels, Loaded(ch)', rdata'[ch] # Erased
             PROVE  cell'[<<ch, rsec'[ch]>>][rnow'.off] = rdata'[ch]
    BY DEF LoadedIsThere, Erased, Bits
<1> USE HisAssumption DEF wVars, rVars
<1> DEFINE s == <<ch, rsec[ch]>>
<1>0. /\ Loaded(ch) /\ rdata[ch] # Erased => cell[s][rnow.off] = rdata[ch]
      /\ s \in Sectors /\ rpc' # "idle"
  BY DEF Reading, LoadedIsThere, Loaded, TInv, TypeOK, Sectors
<1>1. ASSUME UNCHANGED <<cell, rVars>> PROVE cell'[s'][rnow'.off] = rdata'[ch]
  BY <1>0, <1>1 DEF Loaded
<1>2. CASE WErase
  <2>1. UNCHANGED rVars /\ Loaded(ch) /\ Found(ch)
    BY <1>2 DEF WErase, WKeep, Loaded, Found
  <2>2. s # Mine
    BY <1>2, <2>1, SafeFromErase DEF Reading
  <2>3. QED
    BY <1>0, <1>2, <2>1, <2>2, EraseCells
<1>3. CASE WSlot
  <2>1. UNCHANGED rVars /\ Loaded(ch)
    BY <1>3 DEF WSlot, WKeep, Loaded
  <2>2. cell[s][rnow.off] = rdata[ch] /\ rdata[ch] # Erased /\ rnow.off \in Offsets
    BY <1>0, <2>1 DEF TInv, Working
  <2>3. QED
    BY <1>0, <1>3, <2>1, <2>2, SlotFiles
<1>4. CASE Writer
  BY <1>1, <1>2, <1>3, <1>4
     DEF Writer, WBegin, WRetire, WMark, WHead, WHeads, WLook, WKeep
<1>5. ASSUME NEW mon \in Months, NEW off \in Offsets, RBegin(mon, off) PROVE FALSE
  BY <1>5 DEF RBegin, Loaded
<1>6. ASSUME NEW c \in Channels, RFind(c) PROVE cell'[s'][rnow'.off] = rdata'[ch]
  <2>1. /\ rpc = Of(c, "find1", "find2") /\ rpc' = Of(c, "read1", "read2")
        /\ rsec' = [rsec EXCEPT ![c] = TheActive(c)]
        /\ UNCHANGED <<cell, rnow, rdata>>
    BY <1>0, <1>6 DEF RFind, ReporterLocals
  <2>2. ch = 1 /\ c = 2
    BY <2>1 DEF Of, Loaded
  <2>3. Loaded(ch) /\ rsec'[ch] = rsec[ch]
    BY <2>1, <2>2 DEF Of, Loaded, TInv, TypeOK
  <2>4. QED
    BY <1>0, <2>1, <2>3
<1>7. ASSUME NEW c \in Channels, RRead(c) PROVE cell'[s'][rnow'.off] = rdata'[ch]
  <2>1. /\ rpc = Of(c, "read1", "read2") /\ rpc' = Of(c, "find2", "send")
        /\ rdata' = [rdata EXCEPT ![c] = cell[<<c, rsec[c]>>][rnow.off]]
        /\ UNCHANGED <<cell, rnow, rsec>>
    BY <1>0, <1>7 DEF RRead, ReporterLocals
  <2>2. CASE ch = c
    BY <2>1, <2>2 DEF TInv, TypeOK
  <2>3. CASE ch # c
    <3>1. Loaded(ch) /\ rdata'[ch] = rdata[ch]
      BY <2>1, <2>3 DEF Of, Loaded, TInv, TypeOK
    <3>2. QED
      BY <1>0, <2>1, <3>1
  <2>4. QED
    BY <2>2, <2>3
<1>8. CASE RSend
  <2>1. rpc = "send" /\ rpc' = "ack1" /\ UNCHANGED <<cell, rnow, rsec, rdata>>
    BY <1>0, <1>8 DEF RSend, ReporterLocals
  <2>2. QED
    BY <1>0, <2>1 DEF Loaded
<1>9. ASSUME NEW c \in Channels, RAck(c) PROVE cell'[s'][rnow'.off] = rdata'[ch]
  <2>1. /\ rpc = Of(c, "ack1", "ack2") /\ c = 1 /\ rpc' = "ack2"
        /\ UNCHANGED <<rnow, rsec, rdata>>
    BY <1>0, <1>9 DEF RAck, ReporterLocals
  <2>2. ch = 2 /\ Loaded(ch)
    BY <2>1 DEF Of, Loaded
  <2>3. s # <<c, rsec[c]>> /\ rnow.off \in Offsets
    BY <2>1, <2>2 DEF Of, TInv, Working
  <2>4. cell'[s][rnow.off] = cell[s][rnow.off]
    <3>1. /\ <<c, rsec[c]>> \in Sectors
          /\ \A t \in Sectors, o \in Offsets :
               cell'[t][o] = IF t = <<c, rsec[c]>> /\ o = rnow.off
                             THEN cell[t][o] \ {Flag} ELSE cell[t][o]
      BY <1>9, AckClears DEF Reading
    <3>2. QED
      BY <1>0, <2>3, <3>1
  <2>5. QED
    BY <1>0, <2>1, <2>2, <2>4
<1>10. CASE ReporterDeleted \/ PowerFailure
  BY <1>0, <1>10 DEF ReporterDeleted, PowerFailure, ReporterLocals
<1>11. CASE UNCHANGED vars
  BY <1>1, <1>11 DEF vars
<1>12. QED
  BY <1>4, <1>5, <1>6, <1>7, <1>8, <1>9, <1>10, <1>11 DEF Next, Reporter

-----------------------------------------------------------------------------
(***************************************************************************)
(* What the sectors hold.                                                  *)
(***************************************************************************)

LEMMA ContentsInductive ==
  ASSUME TInv, Markers, Reading, Contents, [Next]_vars
  PROVE  Contents'
<1> USE HisAssumption DEF wVars, rVars
<1>0. ASSUME NEW ch \in Channels, NEW s \in {0, 1}
      PROVE  <<ch, s>> \in Sectors
  BY DEF Sectors
<1>1. ASSUME NEW job \in Jobs, WBegin(job) PROVE Contents'
  <2>1. wpc' = "look" => head'[Mine'][1] = wjob'.mon
    BY <1>1 DEF WBegin, Mine
  <2>2. wpc' \in {"look", "erase", "retire"} /\ UNCHANGED <<head, cell, recorded, published>>
    BY <1>1 DEF WBegin, WKeep
  <2>3. QED
    BY <2>1, <2>2 DEF Contents, Belongs, Told
<1>2. CASE WRetire
  BY <1>2 DEF WRetire, WGoto, WKeep, Contents, Belongs, Told
<1>3. CASE WErase
  <2>1. wpc' = "mark" /\ UNCHANGED <<wjob, wsec, recorded, published>>
    BY <1>3 DEF WErase, WGoto, WKeep
  <2>2. \A off \in Offsets : cell'[Mine'][off] = Erased
    BY <1>3, <2>1, EraseCells DEF Mine
  <2>3. ASSUME NEW ch \in Channels, NEW s \in {0, 1}, NEW off \in Offsets
        PROVE  (Belongs(ch, s, off) /\ Told(ch, s, off))'
    <3>1. CASE <<ch, s>> = Mine
      BY <1>3, <3>1, EraseCells DEF Erased, Bits, Belongs, Told
    <3>2. CASE <<ch, s>> # Mine
      BY <1>0, <1>3, <2>1, <3>2, EraseCells DEF Contents, Belongs, Told
    <3>3. QED
      BY <3>1, <3>2
  <2>4. QED
    BY <2>1, <2>2, <2>3 DEF Contents, Erased, Bits
<1>4. CASE WMark
  BY <1>4 DEF WMark, WGoto, WKeep, Contents, Belongs, Told, Mine
<1>5. CASE WHead
  <2>1. wpc = "head" /\ Mine \in Sectors
    BY <1>5, MineIsSector DEF WHead, WGoto
  <2>2. wpc' = "heads" /\ UNCHANGED <<wjob, wsec, cell, recorded, published>>
    BY <1>5 DEF WHead, WGoto, WKeep
  <2>3. head'[Mine'][1] = wjob'.mon
    BY <1>5, <2>1, <2>2 DEF WHead, Mine, TInv, TypeOK
  <2>4. \A t \in Sectors : t # Mine => head'[t] = head[t]
    BY <1>5, <2>1 DEF WHead, TInv, TypeOK
  <2>5. \A off \in Offsets : cell[Mine][off] = Erased
    BY <2>1 DEF Contents
  <2>6. ASSUME NEW ch \in Channels, NEW s \in {0, 1}, NEW off \in Offsets
        PROVE  (Belongs(ch, s, off) /\ Told(ch, s, off))'
    <3>1. CASE <<ch, s>> = Mine
      BY <2>2, <2>5, <3>1 DEF Belongs, Told, Erased, Bits
    <3>2. CASE <<ch, s>> # Mine
      BY <1>0, <2>2, <2>4, <3>2 DEF Contents, Belongs, Told
    <3>3. QED
      BY <3>1, <3>2
  <2>7. QED
    BY <2>2, <2>3, <2>6 DEF Contents
<1>6. CASE WHeads
  <2>1. Mine \in Sectors
    BY <1>6, MineIsSector DEF WHeads, WGoto
  <2>2. /\ wpc = "heads" /\ wpc' = "look"
        /\ UNCHANGED <<wjob, wsec, cell, recorded, published>>
    BY <1>6 DEF WHeads, WGoto, WKeep
  <2>3. \A t \in Sectors : head'[t][1] = head[t][1]
    BY <1>6, <2>1 DEF WHeads, TInv, TypeOK
  <2>4. QED
    BY <1>0, <2>1, <2>2, <2>3 DEF Contents, Belongs, Told, Mine
<1>7. CASE WLook
  BY <1>7 DEF WLook, WKeep, WriterLocals, Contents, Belongs, Told, Mine
<1>8. CASE WSlot
  <2>1. wpc = "slot" /\ wpc' = "idle" /\ recorded' = recorded \cup {wjob} /\ UNCHANGED <<head, published>>
    BY <1>8 DEF WSlot, WriterLocals, WKeep
  <2>2. wjob = [ch |-> wjob.ch, mon |-> head[Mine][1], off |-> wjob.off, q |-> wjob.q]
    BY <1>8, <2>1, SlotFiles DEF Contents, Jobs
  <2>3. Flag \notin wjob.q
    BY <1>8, SlotFiles DEF Jobs
  <2>4. ASSUME NEW ch \in Channels, NEW s \in {0, 1}, NEW off \in Offsets
        PROVE  (Belongs(ch, s, off) /\ Told(ch, s, off))'
    <3>1. CASE <<ch, s>> = Mine /\ off = wjob.off
      <4>1. cell'[<<ch, s>>][off] = wjob.q \cup {Flag} /\ ch = wjob.ch
        BY <1>0, <1>8, <3>1, SlotFiles DEF Mine
      <4>2. cell'[<<ch, s>>][off] \ {Flag} = wjob.q
        BY <2>3, <4>1
      <4>3. QED
        BY <2>1, <2>2, <3>1, <4>1, <4>2 DEF Belongs, Told
    <3>2. CASE ~ (<<ch, s>> = Mine /\ off = wjob.off)
      <4>1. cell'[<<ch, s>>][off] = cell[<<ch, s>>][off]
        BY <1>0, <1>8, <3>2, SlotFiles
      <4>2. QED
        BY <2>1, <4>1 DEF Contents, Belongs, Told
    <3>3. QED
      BY <3>1, <3>2
  <2>5. QED
    BY <2>1, <2>4 DEF Contents
<1>9. ASSUME NEW ch \in Channels, RAck(ch) PROVE Contents'
  <2>1. UNCHANGED <<head, wpc, wjob, wsec, recorded, published>>
    BY <1>9 DEF RAck, RKeep
  <2> DEFINE a == <<ch, rsec[ch]>>
  <2>a. /\ rdata[ch] # Erased /\ cell[a][rnow.off] = rdata[ch] /\ Message \in published
        /\ \A t \in Sectors, o \in Offsets :
             cell'[t][o] = IF t = a /\ o = rnow.off THEN cell[t][o] \ {Flag} ELSE cell[t][o]
    BY <1>9, AckClears DEF Reading
  <2>2. ASSUME wpc # "idle", NEW off \in Offsets, cell[Mine][off] = Erased
        PROVE  cell'[Mine][off] = Erased
    <3>1. Mine \in Sectors
      BY <2>2, MineIsSector
    <3>2. ~ (Mine = a /\ off = rnow.off)
      BY <2>2, <2>a
    <3>3. QED
      BY <2>2, <2>a, <3>1, <3>2
  <2>3. ASSUME NEW c \in Channels, NEW s \in {0, 1}, NEW off \in Offsets
        PROVE  (Belongs(c, s, off) /\ Told(c, s, off))'
    <3>1. CASE <<c, s>> = a /\ off = rnow.off
      <4>0. c = ch /\ <<c, s>> \in Sectors
        BY <1>0, <3>1
      <4>1. /\ cell[<<c, s>>][off] # Erased
            /\ cell'[<<c, s>>][off] = rdata[c] \ {Flag}
            /\ cell'[<<c, s>>][off] \ {Flag} = cell[<<c, s>>][off] \ {Flag}
        <5>1. cell[<<c, s>>][off] = rdata[c]
          BY <2>a, <3>1, <4>0
        <5>2. cell'[<<c, s>>][off] = cell[<<c, s>>][off] \ {Flag}
          BY <2>a, <3>1, <4>0
        <5>3. QED
          BY <2>a, <4>0, <5>1, <5>2
      <4>2. Message.off = off /\ Message.q[c] = rdata[c] \ {Flag}
        BY <3>1 DEF Message
      <4>3. QED
        BY <2>1, <2>a, <4>1, <4>2 DEF Contents, Belongs, Told
    <3>2. CASE ~ (<<c, s>> = a /\ off = rnow.off)
      <4>1. cell'[<<c, s>>][off] = cell[<<c, s>>][off]
        BY <1>0, <2>a, <3>2
      <4>2. QED
        BY <2>1, <4>1 DEF Contents, Belongs, Told
    <3>3. QED
      BY <3>1, <3>2
  <2>4. wpc = "slot" => wjob.off \in Offsets
    BY MineIsSector DEF Jobs
  <2>5. QED
    BY <2>1, <2>2, <2>3, <2>4 DEF Contents, Erased, Bits, Mine
<1>10. CASE \/ \E mon \in Months, off \in Offsets : RBegin(mon, off)
            \/ \E ch \in Channels : RFind(ch) \/ RRead(ch)
            \/ RSend \/ ReporterDeleted \/ PowerFailure \/ UNCHANGED vars
  <2>1. UNCHANGED <<head, cell, recorded>> /\ published \subseteq published'
    BY <1>10 DEF RBegin, RFind, RRead, RSend, RKeep, ReporterDeleted, PowerFailure, vars
  <2>2. UNCHANGED <<wpc, wjob, wsec>> \/ wpc' = "idle"
    BY <1>10 DEF RBegin, RFind, RRead, RSend, RKeep, ReporterDeleted, PowerFailure,
       WriterLocals, vars
  <2>3. ASSUME NEW ch \in Channels, NEW s \in {0, 1}, NEW off \in Offsets
        PROVE  (Belongs(ch, s, off) /\ Told(ch, s, off))'
    BY <2>1 DEF Contents, Belongs, Told, Erased, Bits
  <2>4. QED
    BY <2>1, <2>2, <2>3 DEF Contents, Mine, Erased, Bits
<1>11. QED
  BY <1>1, <1>2, <1>3, <1>4, <1>5, <1>6, <1>7, <1>8, <1>9, <1>10 DEF Next, Writer, Reporter

-----------------------------------------------------------------------------
(***************************************************************************)
(* The history as a whole.                                                 *)
(***************************************************************************)

FlashInv == TInv /\ Markers /\ Reading /\ Contents

LEMMA FlashInit == Init => FlashInv
<1> SUFFICES ASSUME Init PROVE FlashInv
    OBVIOUS
<1>1. Reading
  BY DEF Init, Reading, FoundIsSafe, LoadedIsThere, DueAndGot, Found, Loaded
<1>2. Contents
  BY DEF Init, Contents, Belongs, Told, Sectors, Erased, Bits
<1>3. QED
  BY <1>1, <1>2, TypeInit, MarkersInit DEF FlashInv

LEMMA FlashInductive == FlashInv /\ [Next]_vars => FlashInv'
<1> SUFFICES ASSUME FlashInv, [Next]_vars PROVE FlashInv'
    OBVIOUS
<1>1. TInv' /\ Markers'
  BY TypeInductive, MarkersInductive DEF FlashInv
<1>2. Reading'
  BY SafeInductive, LoadedInductive, DueInductive DEF FlashInv, Reading
<1>3. Contents'
  BY ContentsInductive DEF FlashInv
<1>4. QED
  BY <1>1, <1>2, <1>3 DEF FlashInv

LEMMA FlashAlways == Spec => []FlashInv
BY FlashInit, FlashInductive, PTL DEF Spec

\* Every variable keeps to its values; his_sector never leaves the channel's two
\* sectors, whatever the reports and wherever the power fails.
THEOREM TypeCorrect == Spec => []TypeOK
<1>1. FlashInv => TypeOK
  BY DEF FlashInv, TInv
<1>2. QED
  BY <1>1, FlashAlways, PTL

\* A channel never has two active sectors.
THEOREM AtMostOneActive == Spec => []OneActive
<1>1. FlashInv => OneActive
  BY DEF FlashInv, Markers
<1>2. QED
  BY <1>1, FlashAlways, PTL

\* Every filed byte of a sector was reported for the month in the sector's head.
THEOREM SectorsHoldTheirMonth == Spec => []RecordsBelong
<1>1. FlashInv => RecordsBelong
  BY DEF FlashInv, Contents, Belongs, RecordsBelong
<1>2. QED
  BY <1>1, FlashAlways, PTL

\* Bit 7 is only clear where the cloud got that quantity for that place.
THEOREM ToldOnlyWhenSent == Spec => []ToldWasSent
<1>1. FlashInv => ToldWasSent
  <2>1. FlashInv => \A ch \in Channels, s \in {0, 1}, off \in Offsets : Told(ch, s, off)
    BY DEF FlashInv, Contents
  <2>2. QED
    BY <2>1 DEF Told, ToldWasSent
<1>2. QED
  BY <1>1, FlashAlways, PTL

\* A filed byte only ever loses bit 7, or goes with its whole sector.
THEOREM FirstValueStays == Spec => WriteOnce
<1> DEFINE Keeps(s, off) ==
      cell[s][off] # Erased =>
        \/ cell'[s][off] \in {cell[s][off], cell[s][off] \ {Flag}}
        \/ \A o \in Offsets : cell'[s][o] = Erased
<1>1. ASSUME FlashInv, [Next]_vars
      PROVE  \A s \in Sectors, off \in Offsets : Keeps(s, off)
  <2> SUFFICES ASSUME NEW s \in Sectors, NEW off \in Offsets PROVE Keeps(s, off)
      OBVIOUS
  <2> USE DEF FlashInv
  <2>1. CASE UNCHANGED cell
    BY <2>1
  <2>2. CASE WErase
    <3>1. /\ s # Mine => cell'[s] = cell[s]
          /\ \A o \in Offsets : cell'[Mine][o] = Erased
      BY <1>1, <2>2, EraseCells
    <3>2. QED
      BY <3>1
  <2>3. CASE WSlot
    <3>1. /\ cell[Mine][wjob.off] = Erased
          /\ ~ (s = Mine /\ off = wjob.off) => cell'[s][off] = cell[s][off]
      BY <1>1, <2>3, SlotFiles
    <3>2. QED
      BY <3>1
  <2>4. ASSUME NEW ch \in Channels, RAck(ch) PROVE Keeps(s, off)
    <3>1. \A t \in Sectors, o \in Offsets :
            cell'[t][o] = IF t = <<ch, rsec[ch]>> /\ o = rnow.off
                          THEN cell[t][o] \ {Flag} ELSE cell[t][o]
      BY <1>1, <2>4, AckClears DEF Reading
    <3>2. QED
      BY <3>1
  <2>5. QED
    BY <1>1, <2>1, <2>2, <2>3, <2>4
       DEF Next, Writer, Reporter, WBegin, WRetire, WMark, WHead, WHeads, WLook,
           RBegin, RFind, RRead, RSend, ReporterDeleted, PowerFailure, vars, wVars, rVars
<1>2. QED
  BY <1>1, FlashAlways, PTL DEF Spec, WriteOnce

-----------------------------------------------------------------------------
(***************************************************************************)
(* The records of the newest month, and of the month before it.            *)
(***************************************************************************)

\* What a sector keeps it goes on keeping, unless it is erased or its head is
\* written: bit 7 does not count, and a byte 0xFF keeps nothing.
LEMMA KeptStays ==
  ASSUME FlashInv, [Next]_vars, NEW r \in recorded, NEW s \in {0, 1},
         KeptIn(r, s), (WErase \/ WHead) => <<r.ch, s>> # Mine
  PROVE  KeptIn(r, s)'
<1> DEFINE t == <<r.ch, s>>
<1>0. r \in Jobs /\ t \in Sectors /\ r.off \in Offsets
  BY DEF FlashInv, TInv, TypeOK, Jobs, Sectors
<1>1. head[t][1] = r.mon /\ cell[t][r.off] \ {Flag} = r.q
  BY DEF KeptIn
<1>2. cell[t][r.off] # Erased
  <2>1. Erased \ {Flag} = LowBits
    BY HisAssumption DEF Erased, Bits
  <2>2. r.q # LowBits
    BY <1>0, HisAssumption DEF Jobs
  <2>3. QED
    BY <1>1, <2>1, <2>2
<1>3. SUFFICES head'[t][1] = head[t][1] /\ cell'[t][r.off] \ {Flag} = cell[t][r.off] \ {Flag}
  BY <1>1 DEF KeptIn
<1> USE DEF FlashInv
<1>4. CASE UNCHANGED <<head, cell>>
  BY <1>4
<1>5. CASE WErase
  BY <1>0, <1>5, EraseCells
<1>6. CASE WHead
  BY <1>0, <1>6 DEF WHead, TInv, TypeOK
<1>7. CASE WHeads
  <2>1. Mine \in Sectors
    BY <1>7, MineIsSector DEF WHeads, WGoto
  <2>2. QED
    <3>1. \A u \in Sectors : head'[u][1] = head[u][1]
      BY <1>7, <2>1 DEF WHeads, TInv, TypeOK
    <3>2. UNCHANGED cell
      BY <1>7 DEF WHeads
    <3>3. QED
      BY <1>0, <3>1, <3>2
<1>8. CASE WSlot
  <2>1. /\ UNCHANGED head /\ cell[Mine][wjob.off] = Erased
        /\ ~ (t = Mine /\ r.off = wjob.off) => cell'[t][r.off] = cell[t][r.off]
    BY <1>0, <1>8, SlotFiles DEF WSlot
  <2>2. QED
    BY <1>2, <2>1
<1>9. ASSUME NEW ch \in Channels, RAck(ch)
      PROVE  head'[t][1] = head[t][1] /\ cell'[t][r.off] \ {Flag} = cell[t][r.off] \ {Flag}
  <2>1. \A u \in Sectors, o \in Offsets :
          cell'[u][o] = IF u = <<ch, rsec[ch]>> /\ o = rnow.off
                        THEN cell[u][o] \ {Flag} ELSE cell[u][o]
    BY <1>9, AckClears DEF Reading
  <2>2. cell'[t][r.off] = cell[t][r.off] \/ cell'[t][r.off] = cell[t][r.off] \ {Flag}
    BY <1>0, <2>1
  <2>3. UNCHANGED head
    BY <1>9 DEF RAck, RKeep
  <2>4. QED
    BY <2>2, <2>3
<1>10. QED
  BY <1>4, <1>5, <1>6, <1>7, <1>8, <1>9
     DEF Next, Writer, Reporter, WBegin, WRetire, WMark, WLook, RBegin, RFind, RRead,
         RSend, RKeep, ReporterDeleted, PowerFailure, vars, wVars, rVars

\* A sector stays active unless it is the one retired or erased.
LEMMA ActiveStays ==
  ASSUME FlashInv, [Next]_vars, NEW t \in Sectors, mark[t] = "active",
         (WRetire \/ WErase) => t # Mine
  PROVE  mark'[t] = "active"
<1> USE DEF FlashInv, TInv, TypeOK
<1>1. CASE WRetire
  BY <1>1 DEF WRetire
<1>2. CASE WErase
  BY <1>2 DEF WErase
<1>3. CASE WMark
  BY <1>3 DEF WMark
<1>4. CASE UNCHANGED mark
  BY <1>4
<1>5. QED
  BY <1>1, <1>2, <1>3, <1>4
     DEF Next, Writer, Reporter, WBegin, WHead, WHeads, WLook, WSlot, RBegin, RFind,
         RRead, RAck, RSend, RKeep, ReporterDeleted, PowerFailure, vars, wVars, rVars

\* A report for the month of an active sector goes straight there.
LEMMA BeginFinds ==
  ASSUME FlashInv, NEW job \in Jobs, WBegin(job), NEW s \in {0, 1},
         mark[<<job.ch, s>>] = "active", head[<<job.ch, s>>][1] = job.mon
  PROVE  wpc' = "look"
<1>1. Active(job.ch) # {}
  BY DEF Active
<1>2. TheActive(job.ch) = s
  BY DEF TheActive, FlashInv, Markers, OneActive, Jobs
<1>3. QED
  BY <1>1, <1>2 DEF WBegin

\* How mcu, the job and the records change together.
LEMMA MonthsMove ==
  ASSUME FlashInv, [Next]_vars
  PROVE  \/ \E job \in Jobs : WBegin(job)
         \/ /\ UNCHANGED <<mcu, prev>>
            /\ wpc' = "idle" \/ UNCHANGED <<wjob>>
            /\ recorded' = recorded \/ (WSlot /\ recorded' = recorded \cup {wjob})
BY DEF Next, Writer, Reporter, WRetire, WErase, WMark, WHead, WHeads, WLook, WSlot,
       WGoto, WriterLocals, RBegin, RFind, RRead, RAck, RSend, RKeep,
       ReporterDeleted, PowerFailure, vars, wVars, rVars

\* What a record of the newest month says of the active sector.
NewestHolds(r) ==
  r.mon = mcu[r.ch] =>
    \E s \in {0, 1} : mark[<<r.ch, s>>] = "active" /\ KeptIn(r, s)

LEMMA NewestInductive ==
  ASSUME FlashInv, Newest, [Next]_vars
  PROVE  Newest'
<1> USE HisAssumption
<1>0. ASSUME NEW r \in recorded
      PROVE  /\ r \in Jobs /\ r.ch \in Channels /\ r.mon \in 1 .. MaxMonth
             /\ mcu[r.ch] \in 0 .. MaxMonth
             /\ r.mon <= mcu[r.ch] /\ NewestHolds(r)
  BY DEF FlashInv, TInv, TypeOK, Jobs, Months, Newest, NewestHolds
<1>1. ASSUME NEW job \in Jobs, WBegin(job) PROVE Newest'
  <2>1. /\ job.ch \in Channels /\ job.mon \in 1 .. MaxMonth
        /\ mcu[job.ch] \in 0 .. MaxMonth /\ mcu[job.ch] <= job.mon
        /\ mcu' = [mcu EXCEPT ![job.ch] = job.mon]
        /\ wjob' = job /\ UNCHANGED <<mark, head, cell, recorded>>
    BY <1>1 DEF WBegin, FlashInv, TInv, TypeOK, Jobs, Months
  <2>2. \A ch \in Channels : mcu'[ch] = IF ch = job.ch THEN job.mon ELSE mcu[ch]
    BY <2>1 DEF FlashInv, TInv, TypeOK
  <2>3. ASSUME NEW r \in recorded, r.ch = job.ch, r.mon = job.mon
        PROVE  wpc' = "look"
    <3>1. r.mon = mcu[r.ch]
      BY <1>0, <2>1, <2>3
    <3>2. PICK s \in {0, 1} : mark[<<r.ch, s>>] = "active" /\ head[<<r.ch, s>>][1] = r.mon
      BY <1>0, <3>1 DEF NewestHolds, KeptIn
    <3>3. QED
      BY <1>1, <2>3, <3>2, BeginFinds
  <2>4. wpc' = "retire" => head'[Mine'][1] # wjob'.mon
    BY <1>1, <2>1 DEF WBegin, Mine
  <2>5. ASSUME NEW r \in recorded
        PROVE  r.mon <= mcu'[r.ch] /\ (r.mon = mcu'[r.ch] => r.mon = mcu[r.ch])
    BY <1>0, <2>1, <2>2
  <2>6. ASSUME NEW r \in recorded'
        PROVE  NewestHolds(r)'
    BY <1>0, <2>1, <2>5 DEF NewestHolds, KeptIn
  <2>7. QED
    BY <2>1, <2>2, <2>3, <2>4, <2>5, <2>6 DEF Newest, Changing, NewestHolds
<1>2. ASSUME ~ \E job \in Jobs : WBegin(job) PROVE Newest'
  <2>1. /\ UNCHANGED mcu
        /\ wpc' = "idle" \/ UNCHANGED wjob
        /\ recorded' = recorded \/ (WSlot /\ recorded' = recorded \cup {wjob})
    BY <1>2, MonthsMove
  <2>2. wpc' # "idle" => wpc # "idle" /\ mcu'[wjob'.ch] = wjob'.mon
    BY <1>2, <2>1 DEF Newest, Next, Writer, Reporter, WRetire, WErase, WMark, WHead,
       WHeads, WLook, WSlot, WGoto, WriterLocals, RBegin, RFind, RRead, RAck, RSend, RKeep,
       ReporterDeleted, PowerFailure, vars, wVars
  <2>3. Changing' => Changing /\ ~ WSlot
    BY <1>2 DEF Changing, Next, Writer, Reporter, WRetire, WErase, WMark, WHead,
       WHeads, WLook, WSlot, WGoto, WriterLocals, RBegin, RFind, RRead, RAck, RSend, RKeep,
       ReporterDeleted, PowerFailure, vars, wVars
  <2>4. wpc' = "retire" => wpc = "retire" /\ UNCHANGED <<wjob, wsec, head>>
    BY <1>2 DEF Next, Writer, Reporter, WRetire, WErase, WMark, WHead,
       WHeads, WLook, WSlot, WGoto, WriterLocals, RBegin, RFind, RRead, RAck, RSend, RKeep,
       ReporterDeleted, PowerFailure, vars, wVars
  <2>5. WSlot => wjob \in Jobs /\ wjob.mon = mcu[wjob.ch] /\ wjob.mon \in 1 .. MaxMonth
    BY MineIsSector DEF FlashInv, WSlot, Newest, Jobs, Months
  <2>6. ASSUME NEW r \in recorded, r.mon = mcu[r.ch]
        PROVE  NewestHolds(r)'
    <3>1. PICK s \in {0, 1} : mark[<<r.ch, s>>] = "active" /\ KeptIn(r, s)
      BY <1>0, <2>6 DEF NewestHolds
    <3>2. (WRetire \/ WErase \/ WHead) => r.ch # wjob.ch
      BY <2>6 DEF WRetire, WErase, WHead, WGoto, Newest, Changing
    <3>3. (WRetire \/ WErase \/ WHead) => <<r.ch, s>> # Mine
      BY <3>2 DEF Mine
    <3>4. <<r.ch, s>> \in Sectors
      BY <1>0 DEF Sectors
    <3>5. KeptIn(r, s)'
      BY <3>1, <3>3, KeptStays
    <3>6. mark'[<<r.ch, s>>] = "active"
      BY <3>1, <3>3, <3>4, ActiveStays
    <3>7. QED
      BY <3>5, <3>6 DEF NewestHolds
  <2>7. ASSUME WSlot, NEW r, r = wjob PROVE NewestHolds(r)'
    <3>1. /\ wpc = "slot" /\ UNCHANGED <<mark, head>>
          /\ mark[Mine] = "active" /\ head[Mine][1] = wjob.mon
      BY <2>7 DEF WSlot, FlashInv, Markers, Contents
    <3>2. cell'[Mine][wjob.off] = wjob.q \cup {Flag} /\ wjob.q \subseteq LowBits
      BY <2>7, <2>5, SlotFiles DEF FlashInv, Jobs
    <3>3. cell'[Mine][wjob.off] \ {Flag} = wjob.q
      BY <3>2
    <3>4. wsec \in {0, 1}
      BY DEF FlashInv, TInv, TypeOK
    <3>5. QED
      BY <2>7, <3>1, <3>3, <3>4 DEF NewestHolds, KeptIn, Mine
  <2>8. ASSUME NEW r \in recorded' PROVE NewestHolds(r)' /\ r.mon <= mcu'[r.ch]
    <3>1. CASE r \in recorded
      BY <1>0, <2>1, <2>6, <3>1 DEF NewestHolds
    <3>2. CASE r \notin recorded
      BY <2>1, <2>5, <2>7, <3>2
    <3>3. QED
      BY <3>1, <3>2
  <2>9. Changing' => \A r \in recorded' : r.ch = wjob'.ch => r.mon # wjob'.mon
    BY <2>1, <2>3 DEF Changing, Newest
  <2>10. wpc' = "retire" => head'[Mine'][1] # wjob'.mon
    BY <2>4 DEF Newest, Mine
  <2>11. QED
    BY <2>2, <2>8, <2>9, <2>10 DEF Newest, NewestHolds
<1>3. QED
  BY <1>1, <1>2

\* The records of the month before, as long as nothing broke.
PreviousHolds(ch) ==
  IF Changing /\ wjob.ch = ch
  THEN \A r \in recorded : (r.ch = ch /\ r.mon = prev[ch]) =>
         KeptIn(r, IF wpc = "retire" THEN wsec ELSE 1 - wsec)
  ELSE /\ mcu[ch] # 0 =>
            \E s \in {0, 1} : mark[<<ch, s>>] = "active" /\ head[<<ch, s>>][1] = mcu[ch]
       /\ \A r \in recorded : (r.ch = ch /\ r.mon = prev[ch]) =>
            \A s \in {0, 1} : mark[<<ch, s>>] = "active" => KeptIn(r, 1 - s)

\* Markers and first heads change only in the channel that changes sectors.
LEMMA OthersStay ==
  ASSUME FlashInv, [Next]_vars, NEW ch \in Channels, NEW s \in {0, 1},
         ~ (Changing /\ wjob.ch = ch)
  PROVE  mark'[<<ch, s>>] = mark[<<ch, s>>] /\ head'[<<ch, s>>][1] = head[<<ch, s>>][1]
<1> DEFINE t == <<ch, s>>
<1> USE DEF FlashInv, TInv, TypeOK
<1>1. t \in Sectors
  BY DEF Sectors
<1>2. (WRetire \/ WErase \/ WMark \/ WHead) => t # Mine
  BY DEF WRetire, WErase, WMark, WHead, WGoto, Changing, Mine
<1>3. CASE WRetire
  BY <1>1, <1>2, <1>3 DEF WRetire
<1>4. CASE WErase
  BY <1>1, <1>2, <1>4 DEF WErase
<1>5. CASE WMark
  BY <1>1, <1>2, <1>5 DEF WMark
<1>6. CASE WHead
  BY <1>1, <1>2, <1>6 DEF WHead
<1>7. CASE WHeads
  <2>1. Mine \in Sectors /\ UNCHANGED mark
    BY <1>7, MineIsSector DEF WHeads, WGoto
  <2>2. \A u \in Sectors : head'[u][1] = head[u][1]
    BY <1>7, <2>1 DEF WHeads
  <2>3. QED
    BY <1>1, <2>1, <2>2
<1>8. CASE UNCHANGED <<mark, head>>
  BY <1>8
<1>9. QED
  BY <1>3, <1>4, <1>5, <1>6, <1>7, <1>8
     DEF Next, Writer, Reporter, WBegin, WLook, WSlot, RBegin, RFind,
         RRead, RAck, RSend, RKeep, ReporterDeleted, PowerFailure, vars, wVars, rVars

LEMMA PreviousInductive ==
  ASSUME FlashInv, FlashInv', Newest, Previous, [Next]_vars
  PROVE  Previous'
<1> USE HisAssumption
<1>0. ASSUME NEW r \in recorded
      PROVE  /\ r \in Jobs /\ r.ch \in Channels /\ r.mon \in 1 .. MaxMonth
             /\ mcu[r.ch] \in 0 .. MaxMonth /\ r.mon <= mcu[r.ch]
             /\ r.mon = mcu[r.ch] =>
                  \E s \in {0, 1} : mark[<<r.ch, s>>] = "active" /\ KeptIn(r, s)
  BY DEF FlashInv, TInv, TypeOK, Jobs, Months, Newest
<1>1. ASSUME NEW job \in Jobs, WBegin(job) PROVE Previous'
  <2>1. /\ job.ch \in Channels /\ job.mon \in 1 .. MaxMonth
        /\ mcu[job.ch] \in 0 .. MaxMonth /\ mcu[job.ch] <= job.mon
        /\ mcu' = [mcu EXCEPT ![job.ch] = job.mon]
        /\ wpc = "idle" /\ wjob' = job /\ UNCHANGED <<mark, head, cell, recorded, breaks>>
    BY <1>1 DEF WBegin, WKeep, FlashInv, TInv, TypeOK, Jobs, Months
  <2>2. \A ch \in Channels :
          /\ mcu'[ch] = IF ch = job.ch THEN job.mon ELSE mcu[ch]
          /\ prev'[ch] = IF ch = job.ch /\ job.mon # mcu[ch] THEN mcu[ch] ELSE prev[ch]
    BY <1>1, <2>1 DEF WBegin, FlashInv, TInv, TypeOK
  <2>3. \A ch \in Channels : mcu'[ch] # 0 => prev'[ch] # mcu'[ch]
    BY <2>1, <2>2 DEF Previous
  <2>4. ASSUME breaks' = 0, NEW ch \in Channels, ch # job.ch PROVE PreviousHolds(ch)'
    <3>1. PreviousHolds(ch) /\ ~ Changing
      BY <2>1, <2>4 DEF Previous, PreviousHolds, Changing
    <3>2. QED
      BY <2>1, <2>2, <2>4, <3>1 DEF PreviousHolds, KeptIn
  <2>5. ASSUME breaks' = 0 PROVE PreviousHolds(job.ch)
    BY <2>1, <2>5 DEF Previous, PreviousHolds
  <2>6. ASSUME breaks' = 0, NEW ch, ch = job.ch, job.mon = mcu[ch] PROVE PreviousHolds(ch)'
    <3>1. PICK s \in {0, 1} : mark[<<ch, s>>] = "active" /\ head[<<ch, s>>][1] = job.mon
      BY <2>1, <2>5, <2>6 DEF PreviousHolds, Changing
    <3>2. wpc' = "look"
      BY <1>1, <2>6, <3>1, BeginFinds
    <3>3. QED
      BY <2>1, <2>2, <2>5, <2>6, <3>2 DEF PreviousHolds, KeptIn, Changing
  <2>7. ASSUME breaks' = 0, NEW ch, ch = job.ch, job.mon # mcu[ch] PROVE PreviousHolds(ch)'
    <3>1. ASSUME NEW r \in recorded, r.ch = ch, r.mon = prev'[ch]
          PROVE  /\ Active(ch) # {} /\ KeptIn(r, TheActive(ch))
                 /\ wpc' = "retire" /\ wsec' = TheActive(ch)
      <4>1. r.mon = mcu[r.ch]
        BY <2>1, <2>2, <2>7, <3>1
      <4>2. PICK s \in {0, 1} : mark[<<ch, s>>] = "active" /\ KeptIn(r, s)
        BY <1>0, <3>1, <4>1
      <4>3. Active(ch) # {} /\ TheActive(ch) = s
        BY <2>1, <2>7, <4>2 DEF Active, TheActive, FlashInv, Markers, OneActive
      <4>4. head[<<ch, s>>][1] # job.mon
        BY <2>7, <3>1, <4>1, <4>2 DEF KeptIn
      <4>5. QED
        BY <1>1, <2>7, <4>2, <4>3, <4>4 DEF WBegin
    <3>2. CASE wpc' = "look"
      <4>1. Active(ch) # {} /\ head[<<ch, TheActive(ch)>>][1] = job.mon
        BY <1>1, <2>7, <3>2 DEF WBegin
      <4>2. TheActive(ch) \in {0, 1} /\ mark[<<ch, TheActive(ch)>>] = "active"
        BY <4>1, ActiveIsActive
      <4>3. \A r \in recorded : ~ (r.ch = ch /\ r.mon = prev'[ch])
        BY <3>1, <3>2
      <4>4. QED
        BY <2>1, <2>2, <2>7, <3>2, <4>1, <4>2, <4>3 DEF PreviousHolds, Changing
    <3>3. CASE wpc' # "look"
      <4>1. Changing'
        BY <1>1, <3>3 DEF WBegin, Changing
      <4>2. QED
        BY <2>1, <2>7, <3>1, <4>1 DEF PreviousHolds, KeptIn
    <3>4. QED
      BY <3>2, <3>3
  <2>8. breaks' = 0 => \A ch \in Channels : PreviousHolds(ch)'
    BY <2>4, <2>6, <2>7
  <2>9. QED
    BY <2>3, <2>8 DEF Previous, PreviousHolds
<1>2. ASSUME ~ \E job \in Jobs : WBegin(job) PROVE Previous'
  <2>1. /\ UNCHANGED <<mcu, prev>>
        /\ recorded' = recorded \/ (WSlot /\ recorded' = recorded \cup {wjob})
    BY <1>2, MonthsMove
  <2>2. ASSUME breaks' = 0
        PROVE  breaks = 0 /\ ~ ReporterDeleted /\ ~ PowerFailure
    BY <2>2, <1>2 DEF Next, Writer, Reporter, WRetire, WErase, WMark, WHead,
       WHeads, WLook, WSlot, WKeep, RBegin, RFind, RRead, RAck, RSend, RKeep,
       ReporterDeleted, PowerFailure, vars, FlashInv, TInv, TypeOK
  <2>3. WSlot => wjob \in Jobs /\ wjob.mon = mcu[wjob.ch] /\ wjob.mon \in 1 .. MaxMonth
    BY MineIsSector DEF FlashInv, WSlot, Newest, Jobs, Months
  <2>4. ASSUME NEW r \in recorded', r.mon = prev'[r.ch]
        PROVE  r \in recorded /\ r.mon = prev[r.ch]
    BY <2>1, <2>3, <2>4 DEF Previous, Jobs
  <2>5. wsec \in {0, 1}
    BY DEF FlashInv, TInv, TypeOK
  <2>6. ASSUME breaks' = 0, NEW ch \in Channels, ~ (Changing /\ wjob.ch = ch)
        PROVE  PreviousHolds(ch)'
    <3>1. PreviousHolds(ch)
      BY <2>2, <2>6 DEF Previous, PreviousHolds
    <3>2. ~ (Changing /\ wjob.ch = ch)'
      BY <1>2, <2>6 DEF Changing, Next, Writer, Reporter, WRetire, WErase, WMark, WHead,
         WHeads, WLook, WSlot, WGoto, WriterLocals, RBegin, RFind, RRead, RAck, RSend, RKeep,
         ReporterDeleted, PowerFailure, vars, wVars
    <3>3. mcu'[ch] # 0 =>
            \E s \in {0, 1} : mark'[<<ch, s>>] = "active" /\ head'[<<ch, s>>][1] = mcu'[ch]
      BY <2>1, <2>6, <3>1, OthersStay DEF PreviousHolds
    <3>4. ASSUME NEW r \in recorded', r.ch = ch, r.mon = prev'[ch],
                 NEW s \in {0, 1}, mark'[<<ch, s>>] = "active"
          PROVE  KeptIn(r, 1 - s)'
      <4>1. r \in recorded /\ r.mon = prev[ch]
        BY <2>4, <3>4
      <4>2. mark[<<ch, s>>] = "active"
        BY <2>6, <3>4, OthersStay
      <4>3. KeptIn(r, 1 - s) /\ 1 - s \in {0, 1}
        BY <2>6, <3>1, <3>4, <4>1, <4>2 DEF PreviousHolds
      <4>4. (WErase \/ WHead) => <<r.ch, 1 - s>> # Mine
        BY <2>6, <3>4 DEF WErase, WHead, WGoto, Changing, Mine
      <4>5. QED
        BY <4>1, <4>3, <4>4, KeptStays
    <3>5. QED
      BY <3>2, <3>3, <3>4 DEF PreviousHolds
  <2>7. ASSUME breaks' = 0, NEW ch \in Channels, Changing, wjob.ch = ch
        PROVE  PreviousHolds(ch)'
    <3> DEFINE At == IF wpc = "retire" THEN wsec ELSE 1 - wsec
    <3>1. PreviousHolds(ch) /\ At \in {0, 1}
      BY <2>2, <2>5, <2>7 DEF Previous, PreviousHolds
    <3>2. ASSUME NEW r \in recorded', r.ch = ch, r.mon = prev'[ch], NEW p, p = At
          PROVE  KeptIn(r, p)'
      <4>1. r \in recorded /\ KeptIn(r, p) /\ p \in {0, 1}
        BY <2>4, <2>7, <3>1, <3>2 DEF PreviousHolds
      <4>2. (WErase \/ WHead) => <<r.ch, p>> # Mine
        BY <2>5, <3>2 DEF WErase, WHead, WGoto, Mine
      <4>3. QED
        BY <4>1, <4>2, KeptStays
    <3>3. CASE WRetire
      <4>1. wpc' = "erase" /\ wjob' = wjob /\ 1 - wsec' = At
        BY <2>5, <3>3 DEF WRetire, WGoto
      <4>2. QED
        BY <2>7, <3>2, <4>1 DEF PreviousHolds, Changing
    <3>4. CASE WErase \/ WMark
      <4>1. wpc' \in {"mark", "head"} /\ wjob' = wjob /\ 1 - wsec' = At
        BY <3>4 DEF WErase, WMark, WGoto
      <4>2. QED
        BY <2>7, <3>2, <4>1 DEF PreviousHolds, Changing
    <3>5. CASE WHead
      <4>1. /\ wpc' = "heads" /\ UNCHANGED <<wjob, wsec, mark>> /\ 1 - wsec = At
            /\ head' = [head EXCEPT ![Mine][1] = wjob.mon]
        BY <3>5 DEF WHead, WGoto
      <4>2. Mine \in Sectors /\ mark[Mine] = "active" /\ wjob.mon = mcu[ch]
        BY <2>7, <3>5, MineIsSector DEF WHead, WGoto, FlashInv, Markers, Newest
      <4>3. head'[<<ch, wsec>>][1] = mcu'[ch] /\ mark'[<<ch, wsec>>] = "active"
        BY <2>1, <2>7, <4>1, <4>2 DEF Mine, FlashInv, TInv, TypeOK
      <4>4. \A s \in {0, 1} : mark'[<<ch, s>>] = "active" => s = wsec
        BY <2>5, <4>3 DEF FlashInv, Markers, OneActive
      <4>5. QED
        BY <2>5, <3>2, <4>1, <4>3, <4>4 DEF PreviousHolds, Changing
    <3>6. CASE UNCHANGED <<wpc, wjob, wsec>>
      <4>1. QED
        BY <2>7, <3>2, <3>6 DEF PreviousHolds, Changing
    <3>7. QED
      BY <1>2, <2>2, <2>7, <3>3, <3>4, <3>5, <3>6
         DEF Changing, Next, Writer, Reporter, WHeads, WLook, WSlot, WGoto,
             RBegin, RFind, RRead, RAck, RSend, RKeep, vars, wVars
  <2>8. breaks' = 0 => \A ch \in Channels : PreviousHolds(ch)'
    BY <2>6, <2>7
  <2>9. QED
    BY <2>1, <2>8 DEF Previous, PreviousHolds
<1>3. QED
  BY <1>1, <1>2

HisInv == FlashInv /\ Newest /\ Previous

LEMMA HisAlways == Spec => []HisInv
<1>1. Init => HisInv
  <2>1. Init => Newest /\ Previous
    BY DEF Init, Newest, Previous, Changing
  <2>2. QED
    BY <2>1, FlashInit DEF HisInv
<1>2. HisInv /\ [Next]_vars => HisInv'
  BY FlashInductive, NewestInductive, PreviousInductive DEF HisInv
<1>3. QED
  BY <1>1, <1>2, PTL DEF Spec

\* What was filed for the month being filed is not lost, wherever the power fails.
THEOREM NewestIsKept == Spec => []NewestKept
<1>1. HisInv => NewestKept
  BY DEF HisInv, Newest, KeptIn, NewestKept, Kept
<1>2. QED
  BY <1>1, HisAlways, PTL

\* As long as nothing broke, the month before is there as well.
THEOREM PreviousIsKept == Spec => []PreviousKept
<1>1. ASSUME HisInv, breaks = 0, NEW r \in recorded, r.mon = prev[r.ch] PROVE Kept(r)
  <2>1. /\ r.ch \in Channels /\ r.mon \in 1 .. MaxMonth /\ r.mon <= mcu[r.ch]
        /\ mcu[r.ch] \in 0 .. MaxMonth /\ wsec \in {0, 1}
    <3>1. r.ch \in Channels /\ r.mon \in 1 .. MaxMonth
      BY <1>1 DEF HisInv, FlashInv, TInv, TypeOK, Jobs, Months
    <3>2. mcu[r.ch] \in 0 .. MaxMonth /\ wsec \in {0, 1}
      <4>1. mcu \in [Channels -> {0} \cup Months] /\ wsec \in {0, 1}
        BY <1>1 DEF HisInv, FlashInv, TInv, TypeOK
      <4>2. QED
        BY <3>1, <4>1, HisAssumption DEF Months
    <3>3. r.mon <= mcu[r.ch]
      BY <1>1 DEF HisInv, Newest
    <3>4. QED
      BY <3>1, <3>2, <3>3
  <2>2. PreviousHolds(r.ch)
    BY <1>1, <2>1 DEF HisInv, Previous, PreviousHolds
  <2>3. PICK s \in {0, 1} : KeptIn(r, s)
    <3>1. CASE Changing /\ wjob.ch = r.ch
      BY <1>1, <2>1, <2>2, <3>1 DEF PreviousHolds
    <3>2. CASE ~ (Changing /\ wjob.ch = r.ch)
      <4>1. PICK s \in {0, 1} : mark[<<r.ch, s>>] = "active"
        BY <2>1, <2>2, <3>2 DEF PreviousHolds
      <4>2. KeptIn(r, 1 - s) /\ 1 - s \in {0, 1}
        BY <1>1, <2>2, <3>2, <4>1 DEF PreviousHolds
      <4>3. QED
        BY <4>2
    <3>3. QED
      BY <3>1, <3>2
  <2>4. QED
    BY <2>3 DEF Kept, KeptIn
<1>2. HisInv => PreviousKept
  BY <1>1 DEF PreviousKept
<1>3. QED
  BY <1>2, HisAlways, PTL
-----------------------------------------------------------------------------
(***************************************************************************)
(* A place has the day and the quarter of an hour in it.                   *)
(***************************************************************************)
LEMMA PlaceParts ==
  ASSUME NEW d \in 1 .. 31, NEW q \in 0 .. 95
  PROVE  \E a \in 0 .. 3, b \in 0 .. 7 :
           /\ Offset(d, q) = a * 1024 + 3 + b * 96 + q
           /\ d = IF b = 7 THEN 8 * a ELSE 8 * a + b + 1
<1>1. d \div 8 = IF d < 8 THEN 0 ELSE IF d < 16 THEN 1 ELSE IF d < 24 THEN 2 ELSE 3
  OBVIOUS
<1>2. PICK c \in 0 .. 30 : c = d - 1
  OBVIOUS
<1>3. c % 8 = IF c < 8 THEN c ELSE IF c < 16 THEN c - 8 ELSE IF c < 24 THEN c - 16 ELSE c - 24
  OBVIOUS
<1> DEFINE a == d \div 8
           b == (d - 1) % 8
<1>4. a \in 0 .. 3 /\ b \in 0 .. 7 /\ d = IF b = 7 THEN 8 * a ELSE 8 * a + b + 1
  BY <1>1, <1>2, <1>3
<1>5. Offset(d, q) = a * 1024 + 3 + b * 96 + q
  BY DEF Offset
<1>6. QED
  <2> HIDE DEF a, b
  <2>1. QED
    BY <1>4, <1>5

(***************************************************************************)
(* No two days share a byte of a month's sector, nor two quarters of an    *)
(* hour of a day, although the 8th, 16th and 24th lie in the block after   *)
(* their own; and no place is the sector's last byte, its marker           *)
(* (wirte_hisdata2flash).                                                  *)
(***************************************************************************)
THEOREM PlacesDiffer ==
  ASSUME NEW d \in 1 .. 31, NEW q \in 0 .. 95, NEW e \in 1 .. 31, NEW r \in 0 .. 95
  PROVE  /\ Offset(d, q) \in 3 .. 4094
         /\ Offset(d, q) = Offset(e, r) => d = e /\ q = r
<1>1. PICK a \in 0 .. 3, b \in 0 .. 7 :
        /\ Offset(d, q) = a * 1024 + 3 + b * 96 + q
        /\ d = IF b = 7 THEN 8 * a ELSE 8 * a + b + 1
  BY PlaceParts
<1>2. PICK f \in 0 .. 3, g \in 0 .. 7 :
        /\ Offset(e, r) = f * 1024 + 3 + g * 96 + r
        /\ e = IF g = 7 THEN 8 * f ELSE 8 * f + g + 1
  BY PlaceParts
<1>3. b * 96 + q \in 0 .. 767 /\ g * 96 + r \in 0 .. 767
  OBVIOUS
<1>4. Offset(d, q) \in 3 .. 4094
  BY <1>1, <1>3
<1>5. ASSUME Offset(d, q) = Offset(e, r) PROVE d = e /\ q = r
  <2>1. a = f /\ b * 96 + q = g * 96 + r
    BY <1>1, <1>2, <1>3, <1>5
  <2>2. b = g /\ q = r
    BY <2>1
  <2>3. QED
    BY <1>1, <1>2, <2>1, <2>2
<1>6. QED
  BY <1>4, <1>5

=============================================================================
