------------------------------- MODULE Timers -------------------------------
(***************************************************************************)
(* The outlets' timers: write_timerdata, timer_handle and                  *)
(* outlet_timer_handle of outlet.c.                                        *)
(*                                                                         *)
(* One sector of flash holds the timer tables of both outlets.  The task   *)
(* of the HomeKit server, in write_timerdata, reads both, erases the       *)
(* sector and programs both again, a few bytes at a time.  The loop of     *)
(* HAPNotifyHandle looks at the sector in every minute it has not seen     *)
(* yet and sends the command of each timer that is due.  Nothing keeps     *)
(* the two tasks apart.  A round of the loop may be held up by the network *)
(* before timer_handle (alarm_handle) and after it (hisdata2iot_handle);   *)
(* the supervisor deletes a loop that hangs and starts it again.  After    *)
(* a power failure the clock is unset until the NTP server answers.        *)
(*                                                                         *)
(* Time passes in ticks of half a minute.  What the supervisor guarantees  *)
(* (module Supervisor) appears as the bound on a stay in the network: it   *)
(* ends before the second tick, or with the loop's deletion.               *)
(***************************************************************************)
EXTENDS Integers, Sequences, SequencesExt

CONSTANTS
  Days,       \* days of a week; day 0 is Sunday
  Minutes,    \* minutes of a day
  Hour,       \* minutes of an hour
  Timers,     \* what the app may set: [at, days, repeat, onoff]
  Lists,      \* the lists of timers it may set for an outlet
  MaxTime,    \* bound: ticks
  WriteTimes, \* bound: the ticks in which the app sends lists
  MaxWrites,  \* bound: lists the app sends
  MaxBreaks   \* bound: power failures and deletions of the loop

ASSUME TimerAssumption ==
  /\ Days \in Nat \ {0} /\ Minutes \in Nat \ {0} /\ Hour \in Nat \ {0}
  /\ MaxTime \in Nat /\ WriteTimes \subseteq Nat /\ MaxWrites \in Nat /\ MaxBreaks \in Nat
  /\ Timers \subseteq [at : 0 .. Minutes - 1, days : SUBSET (0 .. Days - 1),
                       repeat : BOOLEAN, onoff : {0, 1}]
  /\ Lists \subseteq Seq(Timers)

VARIABLES
  now,      \* the time
  clock,    \* does the real-time clock show it?
  sector,   \* each outlet's table in flash
  wpc,      \* where write_timerdata stands
  wfor,     \* the outlet it writes for
  wbuf,     \* timerdatabuf
  pc,       \* where the loop of HAPNotifyHandle stands
  waited,   \* ticks the network has held it up
  minute,   \* the static minute of timer_handle
  buf,      \* timerdatabuf of timer_handle
  left,     \* what the bounds leave: writes and breaks
  last,     \* history: the table the app last set for each outlet
  set,      \* history: all timers it ever set
  fired,    \* history: the commands sent, with their outlet, timer and minute
  mixed,    \* history: was a write broken off by a power failure, or looked
            \* into, between the erasure and the end?
  lost,     \* history: outlets without a list since a write was broken off
  undisturbed, \* history: in this minute the clock was set, and no break and
               \* no write met the loop
  looked       \* history: when timer_handle last took up a new minute since
               \* the power came on, in minutes

writeVars == <<sector, wpc, wfor, wbuf>>
loopVars == <<pc, waited, minute, buf>>
historyVars == <<last, set, fired, mixed, lost, undisturbed, looked>>
vars == <<now, clock, writeVars, loopVars, left, historyVars>>

-----------------------------------------------------------------------------
Outlets == {1, 2}    \* A and B
Empty == [o \in Outlets |-> <<>>]
NoMinute == -1
TicksPerMinute == 2
Week == Days * Minutes * TicksPerMinute
Ancient == -1 - Week      \* how old four erased bytes are taken to be

Minute(t) == t \div TicksPerMinute
tm_min(t) == Minute(t) % Hour
tm_wday(t) == (Minute(t) \div Minutes) % Days

\* An entry of a table: a timer with the time the app set it.
Entry(timer, t) == [timer |-> timer, since |-> t]
Entries == [timer : [at : 0 .. Minutes - 1, days : SUBSET (0 .. Days - 1),
                     repeat : BOOLEAN, onoff : {0, 1}],
            since : {Ancient} \cup Nat]

\* An entry of which only the first two bytes are programmed.
Torn(e) == Entry([e.timer EXCEPT !.days = 0 .. Days - 1], Ancient)

\* The bit tested for Sunday is not among the seven kept in weekday.
IsOnDay(timer, t) == tm_wday(t) # 0 /\ tm_wday(t) \in timer.days

\* Mutant: a timer that does not repeat is due again in the next week.
DueAgain(e, t) == e.timer.at = Minute(t) % Minutes /\ IsOnDay(e.timer, t)

\* Does outlet_timer_handle send e's command at time t?
Due(e, t) ==
  /\ e.timer.at = Minute(t) % Minutes
  /\ IsOnDay(e.timer, t)
  /\ e.timer.repeat \/ t - e.since <= Week

Init ==
  /\ now = 0 /\ clock = FALSE
  /\ sector = Empty /\ wpc = "idle" /\ wfor = 1 /\ wbuf = Empty
  /\ pc = "alarm" /\ waited = 0 /\ minute = NoMinute /\ buf = Empty
  /\ left = [writes |-> MaxWrites, breaks |-> MaxBreaks]
  /\ last = Empty /\ set = {} /\ fired = {}
  /\ mixed = FALSE /\ lost = {} /\ undisturbed = FALSE /\ looked = NoMinute

-----------------------------------------------------------------------------
(* write_timerdata.                                                        *)
WKeep == UNCHANGED <<now, clock, loopVars, set, fired, looked>>

\* Mutant: only the table of the outlet itself is written back.
WReadOne(o) ==
  /\ wpc = "idle" /\ left.writes > 0 /\ now \in WriteTimes
  /\ \E l \in Lists : wbuf' = [Empty EXCEPT ![o] = [i \in DOMAIN l |-> Entry(l[i], now)]]
  /\ wpc' = "erase" /\ wfor' = o
  /\ left' = [left EXCEPT !.writes = @ - 1]
  /\ set' = set \cup ToSet(wbuf'[o])
  /\ undisturbed' = FALSE
  /\ UNCHANGED <<now, clock, sector, loopVars, last, fired, mixed, lost, looked>>

WRead(o) ==
  /\ wpc = "idle" /\ left.writes > 0 /\ now \in WriteTimes
  /\ \E l \in Lists : wbuf' = [sector EXCEPT ![o] = [i \in DOMAIN l |-> Entry(l[i], now)]]
  /\ wpc' = "erase" /\ wfor' = o
  /\ left' = [left EXCEPT !.writes = @ - 1]
  /\ set' = set \cup ToSet(wbuf'[o])
  /\ undisturbed' = FALSE
  /\ UNCHANGED <<now, clock, sector, loopVars, last, fired, mixed, lost, looked>>

WErase ==
  /\ wpc = "erase"
  /\ sector' = Empty /\ wpc' = "program"
  /\ WKeep /\ UNCHANGED <<wfor, wbuf, left, last, mixed, lost, undisturbed>>

\* The tables are programmed in order, each entry in (at least) two parts.
Short(o) == Len(sector[o]) < Len(wbuf[o])
AtOutlet == IF Short(1) THEN 1 ELSE 2

WHead ==
  /\ wpc = "program" /\ Short(AtOutlet)
  /\ LET o == AtOutlet
     IN  sector' = [sector EXCEPT ![o] = Append(@, Torn(wbuf[o][Len(@) + 1]))]
  /\ wpc' = "rest" /\ WKeep
  /\ UNCHANGED <<wfor, wbuf, left, last, mixed, lost, undisturbed>>

WRest ==
  /\ wpc = "rest"
  /\ LET o == IF sector[2] # <<>> THEN 2 ELSE 1
         n == Len(sector[o])
     IN  sector' = [sector EXCEPT ![o][n] = wbuf[o][n]]
  /\ wpc' = "program" /\ WKeep
  /\ UNCHANGED <<wfor, wbuf, left, last, mixed, lost, undisturbed>>

WEnd ==
  /\ wpc = "program" /\ ~Short(1) /\ ~Short(2)
  /\ wpc' = "idle"
  /\ last' = [last EXCEPT ![wfor] = wbuf[wfor]]
  /\ lost' = lost \ {wfor}
  /\ WKeep /\ UNCHANGED <<sector, wfor, wbuf, left, mixed, undisturbed>>

Write == (\E o \in Outlets : WRead(o)) \/ WErase \/ WHead \/ WRest \/ WEnd

-----------------------------------------------------------------------------
(* The loop.                                                               *)
LKeep == UNCHANGED <<now, writeVars, left, last, set, lost>>

\* init_time: the NTP server answers, at last.
LSetClock ==
  /\ pc = "alarm" /\ ~clock /\ clock' = TRUE
  /\ LKeep /\ UNCHANGED <<loopVars, fired, mixed, undisturbed, looked>>

LAlarm ==
  /\ pc = "alarm" /\ pc' = "look" /\ waited' = 0
  /\ LKeep /\ UNCHANGED <<clock, minute, buf, fired, mixed, undisturbed, looked>>

FirePC(o) == IF o = 1 THEN "fireA" ELSE "fireB"

\* timer_handle as far as the read of the sector.
\* Mutant: it looks once an hour.
LLookHourly ==
  /\ pc = "look"
  /\ IF clock /\ minute # Minute(now) \div Hour
     THEN /\ minute' = Minute(now) \div Hour /\ buf' = sector /\ pc' = FirePC(1) /\ looked' = Minute(now)
          /\ mixed' = (mixed \/ wpc \in {"program", "rest"})
     ELSE pc' = "upload" /\ UNCHANGED <<minute, buf, mixed, looked>>
  /\ LKeep /\ UNCHANGED <<clock, waited, fired, undisturbed>>

LLook ==
  /\ pc = "look"
  /\ IF clock /\ minute # tm_min(now)
     THEN /\ minute' = tm_min(now) /\ buf' = sector /\ pc' = FirePC(1) /\ looked' = Minute(now)
          /\ mixed' = (mixed \/ wpc \in {"program", "rest"})
     ELSE pc' = "upload" /\ UNCHANGED <<minute, buf, mixed, looked>>
  /\ LKeep /\ UNCHANGED <<clock, waited, fired, undisturbed>>

\* outlet_timer_handle.
DueNow(o) == {e \in ToSet(buf[o]) : Due(e, now)}

LFire(o) ==
  /\ pc = FirePC(o)
  /\ fired' = fired \cup {[o |-> o, e |-> e, m |-> Minute(now)] : e \in DueNow(o)}
  /\ pc' = IF o = 1 THEN FirePC(2) ELSE "upload"
  /\ LKeep /\ UNCHANGED <<clock, waited, minute, buf, mixed, undisturbed, looked>>

\* hisdata2iot_handle, and the next round if it held up the loop.
LUpload ==
  /\ pc = "upload" /\ pc' = (IF waited = 0 THEN "sleep" ELSE "alarm") /\ waited' = 0
  /\ LKeep /\ UNCHANGED <<clock, minute, buf, fired, mixed, undisturbed, looked>>

Loop == LSetClock \/ LAlarm \/ LLook \/ (\E o \in Outlets : LFire(o)) \/ LUpload

-----------------------------------------------------------------------------
(* Time and breaks.                                                        *)
NewMinute == Minute(now + 1) # Minute(now)

Tick ==
  /\ now < MaxTime /\ now' = now + 1
  /\ \/ pc \in {"alarm", "upload"} /\ waited = 0 /\ waited' = 1 /\ UNCHANGED pc
     \/ pc = "sleep" /\ pc' = "alarm" /\ UNCHANGED waited
  /\ undisturbed' = IF NewMinute THEN clock /\ wpc = "idle" ELSE undisturbed
  /\ UNCHANGED <<clock, writeVars, minute, buf, left, last, set, fired, mixed, lost, looked>>

\* The supervisor deletes the loop and starts it again.
Deleted ==
  /\ left.breaks > 0 /\ left' = [left EXCEPT !.breaks = @ - 1]
  /\ pc \in {"fireA", "fireB"} \/ waited = 1
  /\ pc' = "alarm" /\ waited' = 0 /\ undisturbed' = FALSE
  /\ UNCHANGED <<now, clock, writeVars, minute, buf, last, set, fired, mixed, lost, looked>>

PowerFailure ==
  /\ left.breaks > 0 /\ left' = [left EXCEPT !.breaks = @ - 1]
  /\ clock' = FALSE
  /\ wpc' = "idle" /\ wbuf' = Empty
  /\ pc' = "alarm" /\ waited' = 0 /\ minute' = NoMinute /\ buf' = Empty
  /\ mixed' = (mixed \/ wpc \in {"program", "rest"})
  /\ lost' = IF wpc \in {"program", "rest"} THEN Outlets ELSE lost
  /\ undisturbed' = FALSE /\ looked' = NoMinute
  /\ UNCHANGED <<now, sector, wfor, last, set, fired>>

Next == Write \/ Loop \/ Tick \/ Deleted \/ PowerFailure

Spec == Init /\ [][Next]_vars

-----------------------------------------------------------------------------
Tables == [Outlets -> Seq(Entries)]

TypeOK ==
  /\ now \in Nat /\ {clock, mixed, undisturbed} \subseteq BOOLEAN
  /\ {sector, wbuf, buf, last} \subseteq Tables
  /\ wpc \in {"idle", "erase", "program", "rest"} /\ wfor \in Outlets
  /\ pc \in {"alarm", "look", "fireA", "fireB", "upload", "sleep"}
  /\ waited \in {0, 1} /\ minute \in {NoMinute} \cup 0 .. Hour - 1
  /\ left \in [writes : Nat, breaks : Nat]
  /\ set \subseteq Entries /\ lost \subseteq Outlets
  /\ fired \subseteq [o : Outlets, e : Entries, m : Nat]
  /\ looked \in {NoMinute} \cup Nat

(***************************************************************************)
(* Between two writes the sector holds, for each outlet, the list the app  *)
(* set last, although every write erases and rewrites both: only a power   *)
(* failure between the erasure and the end loses a list, and with it the   *)
(* other outlet's, until the app sends it again.                           *)
(***************************************************************************)
ListsKept == wpc = "idle" => \A o \in Outlets \ lost : sector[o] = last[o]

(***************************************************************************)
(* Every command sent is that of a timer the app set for a day of the week *)
(* and a minute that it is, within a week unless it repeats -- except      *)
(* after a write that was broken off or looked into: an entry of which     *)
(* only two bytes are programmed stands for every day but Sunday.          *)
(***************************************************************************)
FiredWasSet ==
  ~mixed => \A f \in fired : /\ f.e \in set
                             /\ f.e.timer.at = f.m % Minutes
                             /\ (f.m \div Minutes) % Days \in f.e.timer.days
                             /\ \/ f.e.timer.repeat
                                \/ f.m - Minute(f.e.since) <= Days * Minutes

\* The static minute tells this minute from the one it last took up: less than
\* an hour lies between them.
TellsMinutes == looked = NoMinute \/ Minute(now) - looked < Hour

(***************************************************************************)
(* When a minute ends, every timer due in it has had its command sent,     *)
(* though the network may hold up the loop before and after each look:     *)
(* what excuses a timer is a deletion, a power failure or a write within   *)
(* the minute, a clock that was not set by then, or that the loop had not  *)
(* got as far as a look for an hour.  Timers for Sunday are never due.     *)
(***************************************************************************)
DueIsFired ==
  [][now' # now /\ NewMinute /\ undisturbed /\ TellsMinutes =>
       \A o \in Outlets : \A e \in ToSet(sector[o]) :
         Due(e, now) => [o |-> o, e |-> e, m |-> Minute(now)] \in fired]_vars
=============================================================================
