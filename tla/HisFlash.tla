------------------------------ MODULE HisFlash ------------------------------
(***************************************************************************)
(* The energy history in flash (outlet.c): every quarter of an hour the    *)
(* MCU reports what each outlet consumed; wirte_hisdata2flash files it     *)
(* under its month, and hisdata2iot_handle later sends it to the cloud.    *)
(*                                                                         *)
(* Each channel owns two sectors of 4096 bytes used in turn.  The last     *)
(* byte of a sector marks it: 0x5A while it is the active one, 0x00 once   *)
(* it is retired.  Each of its four blocks of 1024 bytes starts with the   *)
(* (year, mon) it belongs to, and has one byte per quarter of an hour,     *)
(* whose bit 7 tells whether the cloud still has to be told.               *)
(*                                                                         *)
(* Two tasks work on the flash without a lock: the writer is called from   *)
(* uart_socket_example, the reporter from HAPNotifyHandle.  A step is one  *)
(* flash operation; the power may fail between any two, and uart_start_h   *)
(* may delete and re-create HAPNotifyHandle.                               *)
(*                                                                         *)
(* Flash can only clear bits, and erasing a sector sets them all: a byte   *)
(* is the set of its 1 bits and programming it is an intersection.  A pair *)
(* (year, mon) is a number that grows with time, 0 standing for the pair   *)
(* (0xFF, 0xFF) of an erased block.  Erasing a sector, writing the         *)
(* three bytes of a block's head, and the heads of the last three blocks   *)
(* are taken as indivisible.                                               *)
(***************************************************************************)
EXTENDS Integers, FiniteSets

CONSTANTS
  Channels,       \* the outlets A and B: {1, 2}
  MaxMonth,       \* bound: months that pass
  Days, Quarters, \* days of the month and quarters of an hour in use
  LowBits,        \* the bits of a byte below bit 7
  Flag,           \* bit 7
  Quantities,     \* what the MCU reports: values of the low bits
  MaxReports,     \* bound: calls of wirte_hisdata2flash
  MaxPublished,   \* bound: messages the cloud gets
  MaxBreaks       \* bound: power failures and deletions of a task

ASSUME HisAssumption ==
  /\ Channels = {1, 2}
  /\ MaxMonth \in Nat /\ MaxReports \in Nat /\ MaxPublished \in Nat /\ MaxBreaks \in Nat
  /\ Days \subseteq 1 .. 31 /\ Quarters \subseteq 0 .. 95
  /\ Flag \notin LowBits
  \* 0x7F would be 1.27 kWh in a quarter of an hour, more than a socket gives.
  /\ Quantities \subseteq (SUBSET LowBits) \ {LowBits}

VARIABLES
  mark,       \* the last byte of every sector
  head,       \* the heads of its four blocks
  cell,       \* its bytes, one per quarter of an hour
  wpc,        \* where the writer stands
  wjob,       \* report_hisdata, what it is to file
  wsec,       \* his_sector: 0 or 1
  rpc,        \* where the reporter stands
  rnow,       \* timeinfo: the date the reporter works for
  rsec,       \* hisaddr1, hisaddr2
  rdata,      \* data1[0], data2[0]
  turned,     \* channels that changed sectors while the reporter was at work
  mcu,        \* the month of the MCU's last report, per channel
  prev,       \* the month it reported for before that one
  breaks,     \* how many times the power failed or a task was deleted
  reports,    \* how many reports came in
  recorded,   \* history: what was filed
  published   \* history: what the cloud got

wVars == <<mark, head, cell, wpc, wjob, wsec, mcu, prev, reports, recorded>>
rVars == <<rpc, rnow, rsec, rdata, published>>
vars == <<wVars, rVars, turned, breaks>>

-----------------------------------------------------------------------------
Months == 1 .. MaxMonth
Sectors == Channels \X {0, 1}
Bits == LowBits \cup {Flag}
Erased == Bits                    \* 0xFF

\* Where a quarter of an hour is kept: q is hour*4 + min/15.
Offset(day, q) == (day \div 8) * 1024 + 3 + ((day - 1) % 8) * 96 + q
Offsets == {Offset(d, q) : d \in Days, q \in Quarters}

Active(ch) == {s \in {0, 1} : mark[<<ch, s>>] = "active"}
TheActive(ch) == IF mark[<<ch, 0>>] = "active" THEN 0 ELSE 1

\* Programming a byte can only clear bits.
Program(old, new) == old \cap new

WriterPC == {"idle", "retire", "erase", "mark", "head", "heads", "look",
             "slot"}
ReporterPC == {"idle", "find1", "read1", "find2", "read2", "send", "ack1", "ack2"}

NoJob == [ch |-> 1, mon |-> 0, off |-> 0, q |-> {}]
NoDate == [mon |-> 0, off |-> 0]
Jobs == [ch : Channels, mon : Months, off : Offsets, q : Quantities]

Init ==
  /\ mark = [s \in Sectors |-> "erased"]
  /\ head = [s \in Sectors |-> [b \in 1 .. 4 |-> 0]]
  /\ cell = [s \in Sectors |-> [o \in Offsets |-> Erased]]
  /\ wpc = "idle" /\ wjob = NoJob /\ wsec = 0
  /\ rpc = "idle" /\ rnow = NoDate
  /\ rsec = [ch \in Channels |-> 0] /\ rdata = [ch \in Channels |-> {}]
  /\ turned = {}
  /\ mcu = [ch \in Channels |-> 0] /\ prev = [ch \in Channels |-> 0]
  /\ breaks = 0 /\ reports = 0
  /\ recorded = {} /\ published = {}

\* The locals of a function that has returned.
WriterLocals == wpc' = "idle" /\ wjob' = NoJob /\ wsec' = 0
ReporterLocals ==
  /\ rpc' = "idle" /\ rnow' = NoDate /\ turned' = {}
  /\ rsec' = [ch \in Channels |-> 0] /\ rdata' = [ch \in Channels |-> {}]

-----------------------------------------------------------------------------
(***************************************************************************)
(* The writer: wirte_hisdata2flash.  Only this task writes markers and     *)
(* heads, so what it reads of them on entry is read in one step.           *)
(***************************************************************************)

Mine == <<wjob.ch, wsec>>
WGoto(from, to) == wpc = from /\ wpc' = to
WKeep == UNCHANGED <<rVars, breaks>>

\* Mutant: the head of the active sector is not compared with the report.
WBeginAnyMonth(job) ==
  /\ wpc = "idle" /\ reports < MaxReports /\ reports' = reports + 1
  /\ job.mon >= mcu[job.ch]
  /\ wjob' = job
  /\ IF Active(job.ch) = {} THEN wsec' = 0 /\ wpc' = "erase"
                            ELSE wsec' = TheActive(job.ch) /\ wpc' = "look"
  /\ mcu' = [mcu EXCEPT ![job.ch] = job.mon]
  /\ prev' = IF job.mon = mcu[job.ch] THEN prev
                                      ELSE [prev EXCEPT ![job.ch] = mcu[job.ch]]
  /\ UNCHANGED <<mark, head, cell, recorded, turned>> /\ WKeep

\* Mutant: the months are taken for different whatever they are.
WBeginAfresh(job) ==
  /\ wpc = "idle" /\ reports < MaxReports /\ reports' = reports + 1
  /\ job.mon >= mcu[job.ch]
  /\ wjob' = job
  /\ IF Active(job.ch) = {} THEN wsec' = 0 /\ wpc' = "erase"
                            ELSE wsec' = TheActive(job.ch) /\ wpc' = "retire"
  /\ mcu' = [mcu EXCEPT ![job.ch] = job.mon]
  /\ prev' = IF job.mon = mcu[job.ch] THEN prev
                                      ELSE [prev EXCEPT ![job.ch] = mcu[job.ch]]
  /\ UNCHANGED <<mark, head, cell, recorded, turned>> /\ WKeep

\* A report comes in, of the month of the last one or of a later month.  With
\* no sector active the first one is started afresh; with the active one of
\* another month, that one is retired; else the report goes straight there.
WBegin(job) ==
  /\ wpc = "idle" /\ reports < MaxReports /\ reports' = reports + 1
  /\ job.mon >= mcu[job.ch]
  /\ wjob' = job
  /\ IF Active(job.ch) = {} THEN wsec' = 0 /\ wpc' = "erase"
     ELSE /\ wsec' = TheActive(job.ch)
          /\ wpc' = IF head[<<job.ch, TheActive(job.ch)>>][1] = job.mon
                    THEN "look" ELSE "retire"
  /\ mcu' = [mcu EXCEPT ![job.ch] = job.mon]
  /\ prev' = IF job.mon = mcu[job.ch] THEN prev
                                      ELSE [prev EXCEPT ![job.ch] = mcu[job.ch]]
  /\ UNCHANGED <<mark, head, cell, recorded, turned>> /\ WKeep

\* Mutant: the old sector is not retired.
WRetireNot ==
  /\ WGoto("retire", "erase")
  /\ wsec' = 1 - wsec
  /\ UNCHANGED <<mark, head, cell, wjob, mcu, prev, reports, recorded, turned>> /\ WKeep

\* Mutant: the sector that was active is the one started afresh.
WRetireStay ==
  /\ WGoto("retire", "erase")
  /\ mark' = [mark EXCEPT ![Mine] = "retired"]
  /\ UNCHANGED <<head, cell, wjob, wsec, mcu, prev, reports, recorded, turned>> /\ WKeep

\* Mutant: the next sector is always 4096 bytes further on.
WRetireUp ==
  /\ WGoto("retire", "erase")
  /\ mark' = [mark EXCEPT ![Mine] = "retired"]
  /\ wsec' = wsec + 1
  /\ UNCHANGED <<head, cell, wjob, mcu, prev, reports, recorded, turned>> /\ WKeep

\* 0x00 over the marker; the other sector is next.
WRetire ==
  /\ WGoto("retire", "erase")
  /\ mark' = [mark EXCEPT ![Mine] = "retired"]
  /\ wsec' = 1 - wsec
  /\ UNCHANGED <<head, cell, wjob, mcu, prev, reports, recorded, turned>> /\ WKeep

\* flash_erase_sector.  A report to the cloud takes seconds: a channel does not
\* change months twice while one is under way.
WErase ==
  /\ WGoto("erase", "mark")
  /\ wjob.ch \notin turned
  /\ turned' = IF rpc = "idle" THEN {} ELSE turned \cup {wjob.ch}
  /\ mark' = [mark EXCEPT ![Mine] = "erased"]
  /\ head' = [head EXCEPT ![Mine] = [b \in 1 .. 4 |-> 0]]
  /\ cell' = [cell EXCEPT ![Mine] = [o \in Offsets |-> Erased]]
  /\ UNCHANGED <<wjob, wsec, mcu, prev, reports, recorded>> /\ WKeep

\* 0x5A over the marker: over 0x00 it would have no effect.
WMark ==
  /\ WGoto("mark", "head")
  /\ mark' = [mark EXCEPT ![Mine] = IF @ = "erased" THEN "active" ELSE @]
  /\ UNCHANGED <<head, cell, wjob, wsec, mcu, prev, reports, recorded, turned>> /\ WKeep

\* The head of the first block, the one compared with the next report.
WHead ==
  /\ WGoto("head", "heads")
  /\ head' = [head EXCEPT ![Mine][1] = wjob.mon]
  /\ UNCHANGED <<mark, cell, wjob, wsec, mcu, prev, reports, recorded, turned>> /\ WKeep

\* The heads of the other three, which nothing tells apart, in one step.
WHeads ==
  /\ WGoto("heads", "look")
  /\ head' = [head EXCEPT ![Mine] = [b \in 1 .. 4 |-> IF b = 1 THEN @[b] ELSE wjob.mon]]
  /\ UNCHANGED <<mark, cell, wjob, wsec, mcu, prev, reports, recorded, turned>> /\ WKeep

\* Mutant: the byte is programmed whatever it holds.
WLookAlways ==
  /\ WGoto("look", "slot")
  /\ UNCHANGED <<mark, head, cell, wjob, wsec, mcu, prev, reports, recorded, turned>> /\ WKeep

\* if (data[0] == 0xFF): a byte filed already is left alone.
WLook ==
  /\ wpc = "look"
  /\ IF cell[Mine][wjob.off] = Erased
     THEN wpc' = "slot" /\ UNCHANGED <<wjob, wsec>>
     ELSE WriterLocals
  /\ UNCHANGED <<mark, head, cell, mcu, prev, reports, recorded, turned>> /\ WKeep

\* quantity | 0x80: the report is filed, the cloud is still to be told.
WSlot ==
  /\ wpc = "slot" /\ WriterLocals
  /\ cell' = [cell EXCEPT ![Mine][wjob.off] = Program(@, wjob.q \cup {Flag})]
  /\ recorded' = recorded \cup {wjob}
  /\ UNCHANGED <<mark, head, mcu, prev, reports, turned>> /\ WKeep

Writer ==
  \/ \E job \in Jobs : WBegin(job)
  \/ WRetire \/ WErase \/ WMark \/ WHead \/ WHeads \/ WLook \/ WSlot

-----------------------------------------------------------------------------
(***************************************************************************)
(* The reporter: hisdata2iot_handle.                                       *)
(***************************************************************************)

RKeep == UNCHANGED <<mark, head, wpc, wjob, wsec, mcu, prev, reports, recorded,
                     breaks>>

\* The step of the first channel or of the second.
Of(ch, one, two) == IF ch = 1 THEN one ELSE two

\* The date is read: the month, no earlier than the MCU's, and some day and
\* quarter of an hour.
RBegin(mon, off) ==
  /\ rpc = "idle" /\ rpc' = "find1" /\ Cardinality(published) < MaxPublished
  /\ \A ch \in Channels : mon >= mcu[ch]
  /\ rnow' = [mon |-> mon, off |-> off]
  /\ UNCHANGED <<cell, rsec, rdata, published, turned>> /\ RKeep

\* Find the active sector of a channel by its marker; its head is not looked at.
RFind(ch) ==
  /\ rpc = Of(ch, "find1", "find2")
  /\ IF Active(ch) = {} THEN ReporterLocals
     ELSE /\ rpc' = Of(ch, "read1", "read2")
          /\ rsec' = [rsec EXCEPT ![ch] = TheActive(ch)]
          /\ UNCHANGED <<rnow, rdata, turned>>
  /\ UNCHANGED <<cell, published>> /\ RKeep

\* Whether both bytes, the second of them b, are filed and still due.
BothDue(b) == \A c \in {rdata[1], b} : Flag \in c /\ c # Erased

RRead(ch) ==
  /\ rpc = Of(ch, "read1", "read2")
  /\ LET b == cell[<<ch, rsec[ch]>>][rnow.off] IN
     IF ch = 2 /\ ~ BothDue(b) THEN ReporterLocals
     ELSE /\ rdata' = [rdata EXCEPT ![ch] = b]
          /\ rpc' = Of(ch, "find2", "send")
          /\ UNCHANGED <<rnow, rsec, turned>>
  /\ UNCHANGED <<cell, published>> /\ RKeep

Message ==
  [mon |-> rnow.mon, off |-> rnow.off, q |-> [ch \in Channels |-> rdata[ch] \ {Flag}]]

\* Mutant: the bytes are marked as told although the cloud did not answer.
RSendFails ==
  /\ rpc = "send" /\ rpc' = "ack1"
  /\ published' \in {published, published \cup {Message}}
  /\ UNCHANGED <<cell, rnow, rsec, rdata, turned>> /\ RKeep

\* report_hisdata_to_iot: the cloud gets the message and answers; or it gets
\* it and the answer is lost; or it gets nothing.
RSend ==
  /\ rpc = "send"
  /\ \/ /\ published' = published \cup {Message} /\ rpc' = "ack1"
        /\ UNCHANGED <<rnow, rsec, rdata, turned>>
     \/ published' \in {published, published \cup {Message}} /\ ReporterLocals
  /\ UNCHANGED cell /\ RKeep

\* Bit 7 of the byte is cleared where it was read, one channel at a time.
RAck(ch) ==
  /\ rpc = Of(ch, "ack1", "ack2")
  /\ cell' = [cell EXCEPT ![<<ch, rsec[ch]>>][rnow.off] =
                Program(@, rdata[ch] \ {Flag})]
  /\ IF ch = 1 THEN rpc' = "ack2" /\ UNCHANGED <<rnow, rsec, rdata, turned>>
               ELSE ReporterLocals
  /\ UNCHANGED published /\ RKeep

Reporter ==
  \/ \E mon \in Months, off \in Offsets : RBegin(mon, off)
  \/ \E ch \in Channels : RFind(ch) \/ RRead(ch) \/ RAck(ch)
  \/ RSend

-----------------------------------------------------------------------------
(***************************************************************************)
(* The surroundings.                                                       *)
(***************************************************************************)

\* uart_start_h deletes HAPNotifyHandle, silent for too long, and starts it again.
ReporterDeleted ==
  /\ rpc # "idle" /\ ReporterLocals
  /\ breaks < MaxBreaks /\ breaks' = breaks + 1
  /\ UNCHANGED <<wVars, published>>

\* The power fails while the writer is at work: both tasks start again, the
\* flash stays as it is.
PowerFailure ==
  /\ wpc # "idle" /\ WriterLocals /\ ReporterLocals
  /\ breaks < MaxBreaks /\ breaks' = breaks + 1
  /\ UNCHANGED <<mark, head, cell, mcu, prev, reports, recorded, published>>

Next == Writer \/ Reporter \/ ReporterDeleted \/ PowerFailure

Spec == Init /\ [][Next]_vars

-----------------------------------------------------------------------------
(***************************************************************************)
(* What holds of the history.                                              *)
(***************************************************************************)

Marks == {"erased", "active", "retired"}

\* Every variable keeps to its values; in particular his_sector never leaves
\* the two sectors of its channel.
TypeOK ==
  /\ mark \in [Sectors -> Marks]
  /\ head \in [Sectors -> [1 .. 4 -> {0} \cup Months]]
  /\ cell \in [Sectors -> [Offsets -> SUBSET Bits]]
  /\ wpc \in WriterPC /\ wjob \in Jobs \cup {NoJob} /\ wsec \in {0, 1}
  /\ rpc \in ReporterPC /\ rnow \in [mon : Months, off : Offsets] \cup {NoDate}
  /\ rsec \in [Channels -> {0, 1}] /\ rdata \in [Channels -> SUBSET Bits]
  /\ turned \subseteq Channels
  /\ mcu \in [Channels -> {0} \cup Months] /\ prev \in [Channels -> {0} \cup Months]
  /\ breaks \in Nat /\ reports \in Nat
  /\ recorded \subseteq Jobs
  /\ published \subseteq [mon : Months, off : Offsets,
                       q : [Channels -> SUBSET LowBits]]

\* A channel never has two active sectors, whenever the power fails: which one
\* is read and extended never depends on the order the markers are looked at.
OneActive == \A ch \in Channels : ~ (mark[<<ch, 0>>] = "active" /\ mark[<<ch, 1>>] = "active")

\* What a sector holds was reported for the month in its head: no quarter of
\* an hour of one month ever shows up in another, however the change of month,
\* a power failure and the reporter's late write of bit 7 fall together.
RecordsBelong ==
  \A ch \in Channels, s \in {0, 1}, off \in Offsets :
    cell[<<ch, s>>][off] # Erased =>
      [ch |-> ch, mon |-> head[<<ch, s>>][1], off |-> off,
       q |-> cell[<<ch, s>>][off] \ {Flag}] \in recorded

Kept(r) ==
  \E s \in {0, 1} : /\ head[<<r.ch, s>>][1] = r.mon
                    /\ cell[<<r.ch, s>>][r.off] \ {Flag} = r.q

\* What was filed for the month being filed is not lost, not even by a power
\* failure at any point of the change of sectors.
NewestKept == \A r \in recorded : r.mon = mcu[r.ch] => Kept(r)

\* Without a power failure the month before it, which read_hisdata serves as
\* the 1st to 4th Hisdata, is there as well while the new one is filed.
PreviousKept == breaks = 0 => \A r \in recorded : r.mon = prev[r.ch] => Kept(r)

\* Bit 7 is clear only where the cloud got that very quantity for that place
\* of the month: what failed to be sent is still due.
ToldWasSent ==
  \A ch \in Channels, s \in {0, 1}, off \in Offsets :
    Flag \notin cell[<<ch, s>>][off] =>
      \E m \in published : m.off = off /\ m.q[ch] = cell[<<ch, s>>][off]

\* A byte once filed changes only by losing bit 7 or with its whole sector: a
\* quarter of an hour reported twice keeps its first value.
WriteOnce ==
  [][\A s \in Sectors, off \in Offsets :
       cell[s][off] # Erased =>
         \/ cell'[s][off] \in {cell[s][off], cell[s][off] \ {Flag}}
         \/ \A o \in Offsets : cell'[s][o] = Erased]_vars

\* outlet.c:1609: "bit7 means haven't reported to Iot".  So a byte without it,
\* filed for a month, was reported to the cloud for that month.  (It need not
\* be: the reporter does not look at the head of the sector, and files last
\* month's byte under today's date until this month's first report is in.)
Bit7MeansNotReported ==
  \A ch \in Channels, s \in {0, 1}, off \in Offsets :
    Flag \notin cell[<<ch, s>>][off] =>
      \E m \in published : m.off = off /\ m.mon = head[<<ch, s>>][1]
=============================================================================
