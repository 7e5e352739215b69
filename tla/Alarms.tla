------------------------------- MODULE Alarms -------------------------------
(***************************************************************************)
(* alarm_handle of outlet.c and the talks with the network it holds, in    *)
(* the loop of HAPNotifyHandle that also reports the history.              *)
(*                                                                         *)
(* The MCU reports an outlet's alarm, a set of bits, with every metering   *)
(* (set_meter).  When it differs from what alarm_handle saw last, the      *)
(* phone is notified and the cloud told; report_alarm_to_iot reads the     *)
(* alarm once more when it makes the message.  After a failed report       *)
(* alarm_handle forgets what it saw of outlet A, so that it is reported    *)
(* again, but not what it saw of B.                                        *)
(***************************************************************************)
EXTENDS IotSession

CONSTANTS
  AlarmValues,  \* values of each outlet's alarm: sets of 0 .. 3, for BIT0, BIT1,
                \* BIT2, and BIT3 or BIT4; {} is no alarm
  MaxDeleted    \* bound: deletions of the loop

VARIABLES
  alarm,   \* outletstateX.alarm
  memo,    \* the static alarmA and alarmB
  at,      \* what the loop is at: "A", "B" or "his"
  left,    \* deletions the bound still allows
  heard,   \* history: the types of alarm the cloud was told of for outlet A
           \* since alarm_handle last took its alarm
  spoilt   \* history: did A's alarm change between being taken and being put
           \* into the message, or was its report cut short by a deletion?

alarmVars == <<alarm, memo, at, left, heard, spoilt>>
vars == <<sessionVars, alarmVars>>

-----------------------------------------------------------------------------
Outlets == {"A", "B"}
NoAlarm == {}
HisBody == [o |-> "both", type |-> 0]

\* The type report_alarm_to_iot gives an alarm.
Type(v) == CASE 0 \in v -> 1
             [] 0 \notin v /\ 1 \in v -> 2
             [] 0 \notin v /\ 1 \notin v /\ 2 \in v -> 3
             [] v = {3} -> 4
             [] OTHER -> 0
AlarmBody(o) == [o |-> o, type |-> Type(alarm[o])]
AllBodies == [o : Outlets, type : 0 .. 4] \cup {HisBody}

ASSUME AlarmAssumption ==
  /\ AlarmValues \in [Outlets -> SUBSET SUBSET (0 .. 3)]
  /\ \A o \in Outlets : NoAlarm \in AlarmValues[o]
  /\ Bodies = AllBodies
  /\ MaxDeleted \in Nat

Init ==
  /\ SInit
  /\ alarm = [o \in Outlets |-> NoAlarm] /\ memo = alarm
  /\ at = "A" /\ left = MaxDeleted
  /\ heard = {} /\ spoilt = FALSE

\* Is the alarm of o taken, and its message not made yet?
Taking(o) ==
  /\ at = o
  /\ \/ job = "push"
     \/ job = "alarm" /\ spc \in {"socket", "dial", "connack", "publish"}

McuReport(o) ==
  /\ \E v \in AlarmValues[o] \ {alarm[o]} : alarm' = [alarm EXCEPT ![o] = v]
  /\ spoilt' = (spoilt \/ (o = "A" /\ Taking(o)))
  /\ UNCHANGED <<sessionVars, memo, at, left, heard>>

-----------------------------------------------------------------------------
(* alarm_handle.                                                           *)
After(o) == IF o = "A" THEN "B" ELSE "his"

Notice(o) ==
  /\ at = o /\ job = "none" /\ memo[o] # alarm[o]
  /\ memo' = [memo EXCEPT ![o] = alarm[o]]
  /\ IF o = "A" THEN heard' = {} /\ spoilt' = FALSE ELSE UNCHANGED <<heard, spoilt>>
  /\ IF alarm[o] = NoAlarm
     THEN at' = After(o) /\ UNCHANGED sessionVars
     ELSE Start("push") /\ UNCHANGED at
  /\ UNCHANGED <<alarm, left>>

NothingNew(o) ==
  /\ at = o /\ job = "none" /\ memo[o] = alarm[o]
  /\ at' = After(o)
  /\ UNCHANGED <<sessionVars, alarm, memo, left, heard, spoilt>>

Report(o) ==
  /\ at = o /\ job = "push" /\ spc = "returned"
  /\ Start("alarm") /\ UNCHANGED alarmVars

End ==
  /\ job' = "none" /\ spc' = "idle"
  /\ wild' = FALSE /\ result' = "none" /\ got' = FALSE
  /\ UNCHANGED <<fd, connVars, stray, socketVars>>

\* Mutant: A's alarm is remembered although the report failed.
ReportedKeep(o) ==
  /\ at = o /\ job = "alarm" /\ spc = "returned" /\ End
  /\ at' = After(o)
  /\ UNCHANGED <<alarm, memo, left, heard, spoilt>>

Reported(o) ==
  /\ at = o /\ job = "alarm" /\ spc = "returned" /\ End
  /\ memo' = IF o = "A" /\ result # "ok" THEN [memo EXCEPT ![o] = NoAlarm] ELSE memo
  /\ at' = After(o)
  /\ UNCHANGED <<alarm, left, heard, spoilt>>

\* hisdata2iot_handle, when a quarter of an hour is due.
History ==
  /\ at = "his"
  /\ \/ job = "none" /\ Start("his") /\ UNCHANGED at
     \/ job = "none" /\ at' = "A" /\ UNCHANGED sessionVars
     \/ job = "his" /\ spc = "returned" /\ End /\ at' = "A"
  /\ UNCHANGED <<alarm, memo, left, heard, spoilt>>

Handle(o) == Notice(o) \/ NothingNew(o) \/ Report(o) \/ Reported(o)

-----------------------------------------------------------------------------
(* The talks, and what the cloud hears.                                    *)
Saying == IF at \in Outlets THEN AlarmBody(at) ELSE HisBody

Talking == Talk(Saying) /\ UNCHANGED alarmVars

Hears(b) ==
  /\ heard' = IF b.o = "A" THEN heard \cup {b.type} ELSE heard
  /\ UNCHANGED <<alarm, memo, at, left, spoilt>>

Cloud ==
  \/ \E b \in Bodies : (BPublish(b) \/ BStray(b)) /\ Hears(b)
  \/ \E b \in Bodies : BStray(b) /\ UNCHANGED alarmVars
  \/ Network /\ UNCHANGED alarmVars

Server == Hap /\ UNCHANGED alarmVars

\* The supervisor finds the loop silent: it starts afresh, the statics stay.
Deleted ==
  /\ left > 0 /\ left' = left - 1
  /\ SDeleted /\ at' = "A"
  /\ spoilt' = (spoilt \/ at = "A")
  /\ UNCHANGED <<alarm, memo, heard>>

\* The chip comes up without alarms until the MCU reports them.
Crash ==
  /\ SCrash /\ at' = "A"
  /\ alarm' = [o \in Outlets |-> NoAlarm] /\ memo' = alarm'
  /\ heard' = {} /\ spoilt' = FALSE
  /\ UNCHANGED left

Next ==
  \/ \E o \in Outlets : McuReport(o) \/ Handle(o)
  \/ History \/ Talking \/ Cloud \/ Server \/ Deleted \/ Crash

(***************************************************************************)
(* Fairness: the loop goes on; and a network that is tried again and again *)
(* lets each stage of A's report through some time: there is a socket, the *)
(* connection comes up, the broker accepts while the loop waits for it,    *)
(* the connection is still up for the message, and the message arrives.    *)
(***************************************************************************)
TellsA(Step) == at = "A" /\ job = "alarm" /\ Step /\ UNCHANGED alarmVars

Fairness ==
  /\ WF_vars((\E o \in Outlets : Handle(o)) \/ History \/ Talking)
  /\ SF_vars(TellsA(SSocket)) /\ SF_vars(TellsA(SDial))
  /\ SF_vars(TellsA(spc = "connack" /\ BAccept))
  /\ SF_vars(TellsA(login /\ SConnack /\ in # in'))
  /\ SF_vars(TellsA(login /\ SPublish(Saying)))
  /\ SF_vars(\E b \in Bodies : at = "A" /\ BPublish(b) /\ Hears(b))

Spec == Init /\ [][Next]_vars
FairSpec == Spec /\ Fairness

-----------------------------------------------------------------------------
TypeOK ==
  /\ SessionTypeOK
  /\ \A o \in Outlets : {alarm[o], memo[o]} \subseteq AlarmValues[o]
  /\ DOMAIN alarm = Outlets /\ DOMAIN memo = Outlets
  /\ at \in Outlets \cup {"his"}
  /\ job # "none" => (job = "his" <=> at = "his")
  /\ left \in 0 .. MaxDeleted
  /\ heard \subseteq 0 .. 4 /\ spoilt \in BOOLEAN

(***************************************************************************)
(* While alarm_handle remembers an alarm of outlet A and is not reporting  *)
(* it, the cloud was told of that very alarm -- unless the loop was        *)
(* deleted amid the report, or the alarm changed between being taken and   *)
(* being put into the message.  Nothing of the kind holds for B.           *)
(***************************************************************************)
RememberedWasTold ==
  (at # "A" \/ job = "none") /\ memo["A"] # NoAlarm /\ ~spoilt
     => Type(memo["A"]) \in heard

(***************************************************************************)
(* An alarm of outlet A that stands is told to the cloud in the end,       *)
(* whatever fails meanwhile, under the same exceptions -- and unless a     *)
(* deletion left a socket open, for good: there may be none left to talk.  *)
(***************************************************************************)
AlarmAIsTold ==
  \A v \in AlarmValues["A"] \ {NoAlarm} :
    alarm["A"] = v ~> alarm["A"] # v \/ spoilt \/ Type(v) \in heard \/ leaked # {}
=============================================================================
