-------------------------- MODULE OutletSync_proofs --------------------------
(***************************************************************************)
(* Proofs about the copies of an outlet's switch, for any period of the    *)
(* query, any number of frames under way and any number of events.         *)
(***************************************************************************)
EXTENDS OutletSync, SequenceTheorems, TLAPS

-----------------------------------------------------------------------------
(***************************************************************************)
(* Types.                                                                  *)
(***************************************************************************)
Frames == [do : {"set"}, o : Outlets, v : Values] \cup {Query}

LEMMA OutletsAre == /\ Last \in {1, 2} /\ Outlets = 1 .. Last
                    /\ 1 \in Outlets
<1>1. CASE Outlets = 1 .. 1
  <2>1. Last = 1
    BY <1>1 DEF Last
  <2>2. QED
    BY <1>1, <2>1
<1>2. CASE Outlets = 1 .. 2
  <2>1. 2 \in Outlets /\ \A p \in Outlets : p <= 2
    BY <1>2
  <2>2. Last \in Outlets /\ \A p \in Outlets : p <= Last
    BY <2>1 DEF Last
  <2>3. Last = 2
    BY <1>2, <2>1, <2>2
  <2>4. QED
    BY <1>2, <2>3
<1>3. QED
  BY <1>1, <1>2, OutletAssumption

LEMMA SetFrameType ==
  ASSUME NEW o \in Outlets, NEW v \in Values
  PROVE  SetFrame(o, v) \in [do : {"set"}, o : Outlets, v : Values]
BY DEF SetFrame

LEMMA SendType ==
  ASSUME TypeOK, NEW f \in Frames, Send(f)
  PROVE  toMcu' \in Seq(Frames) /\ Len(toMcu') <= MaxFrames
<1>1. toMcu \in Seq(Frames) /\ Len(toMcu) < MaxFrames /\ toMcu' = Append(toMcu, f)
  BY DEF TypeOK, Send, Frames
<1>2. toMcu' \in Seq(Frames) /\ Len(toMcu') = Len(toMcu) + 1
  BY <1>1
<1>3. QED
  BY <1>1, <1>2, OutletAssumption

LEMMA TypeInit == Init => TypeOK
<1> SUFFICES ASSUME Init PROVE TypeOK
    OBVIOUS
<1>1. {relay, on, app, hap, raced} \subseteq [Outlets -> Values]
  BY DEF Init, Values
<1>2. SetFrame(1, 0) \in [do : {"set"}, o : Outlets, v : Values]
  BY SetFrameType, OutletsAre DEF Values
<1>3. QED
  BY <1>1, <1>2, OutletsAre, OutletAssumption DEF Init, TypeOK, Values

LEMMA TypeInductive == TypeOK /\ [Next]_vars => TypeOK'
<1> SUFFICES ASSUME TypeOK, [Next]_vars PROVE TypeOK'
    OBVIOUS
<1> USE OutletsAre, OutletAssumption DEF mcuVars, writeVars, loopVars
<1>0. /\ relay \in [Outlets -> Values] /\ on \in [Outlets -> Values]
      /\ app \in [Outlets -> Values] /\ hap \in [Outlets -> Values]
      /\ raced \in [Outlets -> Values]
      /\ toMcu \in Seq(Frames) /\ toChip \in Seq(Outlets \X Values)
  BY DEF TypeOK, Frames
<1>s. 0 \in Values /\ 1 \in Values
  BY DEF Values
<1>1. ASSUME NEW o \in Outlets, Press(o) PROVE TypeOK'
  <2>1. relay' \in [Outlets -> Values] /\ relay'[o] \in Values
    <3>1. relay[o] \in Values /\ 1 - relay[o] \in Values
      BY <1>0 DEF Values
    <3>2. relay' = [relay EXCEPT ![o] = 1 - relay[o]]
      BY <1>1 DEF Press
    <3>3. QED
      BY <1>0, <3>1, <3>2
  <2>2. Report(o, relay'[o]) \in Outlets \X Values
    BY <2>1 DEF Report
  <2>3. toChip' \in Seq(Outlets \X Values) /\ Len(toChip') = Len(toChip) + 1
    BY <1>0, <1>1, <2>2 DEF Press
  <2>4. Len(toChip') < MaxFrames + Last
    BY <1>0, <1>1, <2>3 DEF Press
  <2>5. left' \in 0 .. MaxEvents
    BY <1>1 DEF Press, Spend, TypeOK
  <2>6. UNCHANGED <<toMcu, on, app, hap, hpc, hreq, npc, nout, narg, count, raced>>
    BY <1>1 DEF Press, McuKeep
  <2>7. QED
    BY <1>0, <2>1, <2>3, <2>4, <2>5, <2>6 DEF TypeOK
<1>2. ASSUME NEW o \in Outlets, NEW v \in Values, HWrite(o, v) PROVE TypeOK'
  <2>1. on' \in [Outlets -> Values] /\ raced' \in [Outlets -> Values]
    BY <1>0, <1>s, <1>2 DEF HWrite
  <2>2. hreq' \in [do : {"set"}, o : Outlets, v : Values]
    BY <1>2, SetFrameType DEF HWrite
  <2>3. left' \in 0 .. MaxEvents
    BY <1>2 DEF HWrite, Spend, TypeOK
  <2>4. QED
    BY <1>0, <1>2, <2>1, <2>2, <2>3 DEF HWrite, TypeOK
<1>3. CASE Handler
  <2>0. hreq \in [do : {"set"}, o : Outlets, v : Values]
        /\ hreq.o \in Outlets /\ hreq.v \in Values /\ hreq \in Frames
    BY DEF TypeOK, Frames
  <2>1. CASE HApp
    <3>1. app' \in [Outlets -> Values] /\ raced' \in [Outlets -> Values]
      BY <1>0, <1>s, <2>0, <2>1 DEF HApp
    <3>2. QED
      BY <1>0, <2>1, <3>1 DEF HApp, TypeOK
  <2>2. CASE HSend
    <3>1. toMcu' \in Seq(Frames) /\ Len(toMcu') <= MaxFrames
      BY <2>0, <2>2, SendType DEF HSend
    <3>2. QED
      BY <1>0, <2>2, <3>1 DEF HSend, TypeOK, Frames
  <2>3. CASE HUpdate
    <3>1. hap' \in [Outlets -> Values]
      BY <1>0, <2>0, <2>3 DEF HUpdate
    <3>2. hreq' \in [do : {"set"}, o : Outlets, v : Values]
      BY <1>s, <2>3, SetFrameType DEF HUpdate
    <3>3. QED
      BY <1>0, <2>3, <3>1, <3>2 DEF HUpdate, TypeOK
  <2>4. QED
    BY <1>3, <2>1, <2>2, <2>3 DEF Handler
<1>4. CASE set_onoff
  <2>1. /\ Head(toChip) \in Outlets \X Values /\ toChip' \in Seq(Outlets \X Values)
        /\ Len(toChip') = Len(toChip) - 1
    BY <1>0, <1>4, HeadTailProperties DEF set_onoff
  <2>2. Head(toChip)[1] \in Outlets /\ Head(toChip)[2] \in Values
    BY <2>1
  <2>3. on' \in [Outlets -> Values]
    BY <1>0, <1>4, <2>2 DEF set_onoff
  <2>4. Len(toChip') < MaxFrames + Last
    BY <1>0, <2>1 DEF TypeOK
  <2>5. QED
    BY <1>0, <1>4, <2>1, <2>3, <2>4 DEF set_onoff, TypeOK
<1>5. CASE Loop
  <2>1. UNCHANGED <<relay, toChip, on, hpc, hreq>>
    BY <1>5 DEF Loop, NAsk, NInit, NCheck, NCopy, NArg, NNotify, NSynch, NTimer, NKeep
  <2>2. app' \in [Outlets -> Values] /\ hap' \in [Outlets -> Values]
        /\ raced' \in [Outlets -> Values] /\ narg' \in Values
    <3>1. nout \in Outlets /\ narg \in Values
      BY DEF TypeOK
    <3>2. app' = app \/ app' = [app EXCEPT ![nout] = on[nout]]
      BY <1>5 DEF Loop, NAsk, NInit, NCheck, NCopy, NArg, NNotify, NSynch, NTimer
    <3>3. hap' = hap \/ hap' = [hap EXCEPT ![nout] = narg]
      BY <1>5 DEF Loop, NAsk, NInit, NCheck, NCopy, NArg, NNotify, NSynch, NTimer
    <3>4. raced' = raced \/ raced' = [raced EXCEPT ![nout] = 1]
      BY <1>5 DEF Loop, NAsk, NInit, NCheck, NCopy, NArg, NNotify, NSynch, NTimer
    <3>5. narg' \in {narg, 0, app[nout]}
      BY <1>5 DEF Loop, NAsk, NInit, NCheck, NCopy, NArg, NNotify, NSynch, NTimer
    <3>6. app[nout] \in Values /\ on[nout] \in Values
      BY <1>0, <3>1
    <3>7. ASSUME NEW f \in [Outlets -> Values], NEW v \in Values
          PROVE  [f EXCEPT ![nout] = v] \in [Outlets -> Values]
      BY <3>1
    <3>8. app' \in [Outlets -> Values]
      BY <1>0, <3>2, <3>6, <3>7
    <3>9. hap' \in [Outlets -> Values]
      BY <1>0, <3>1, <3>3, <3>7
    <3>10. raced' \in [Outlets -> Values]
      BY <1>0, <1>s, <3>4, <3>7
    <3>11. QED
      BY <1>s, <3>1, <3>5, <3>6, <3>8, <3>9, <3>10
  <2>3. /\ npc' \in {"ask", "init", "check", "copy", "arg", "notify", "synch", "timer"}
        /\ nout' \in Outlets /\ count' \in 0 .. SynchPeriod /\ left' \in 0 .. MaxEvents
    BY <1>5, SMTT(30) DEF Loop, NAsk, NInit, NCheck, NCopy, NArg, NNotify, NSynch, NTimer,
       NNext, Spend, TypeOK
  <2>4. toMcu' \in Seq(Frames) /\ Len(toMcu') <= MaxFrames
    <3>1. toMcu' = toMcu \/ \E f \in Frames : Send(f)
      <4>1. Query \in Frames /\ \A o \in Outlets, v \in Values : SetFrame(o, v) \in Frames
        BY SetFrameType DEF Frames
      <4>2. QED
        BY <1>5, <4>1 DEF Loop, NAsk, NInit, NCheck, NCopy, NArg, NNotify, NSynch, NTimer
    <3>2. toMcu \in Seq(Frames) /\ Len(toMcu) <= MaxFrames
      BY <1>0 DEF TypeOK
    <3>3. QED
      BY <3>1, <3>2, SendType
  <2>5. QED
    BY <1>0, <2>1, <2>2, <2>3, <2>4 DEF TypeOK, Frames
<1>6. CASE Restart
  <2>1. raced' \in [Outlets -> Values]
    BY <1>0, <1>s, <1>6 DEF Restart
  <2>2. QED
    BY <1>0, <1>s, <1>6, <2>1 DEF Restart, NKeep, Spend, TypeOK
<1>7. CASE McuServe
  <2>1. Head(toMcu) \in Frames /\ toMcu' \in Seq(Frames) /\ Len(toMcu') = Len(toMcu) - 1
    BY <1>0, <1>7, HeadTailProperties DEF McuServe
  <2>2. CASE Head(toMcu).do = "set"
    <3>1. Head(toMcu).o \in Outlets /\ Head(toMcu).v \in Values
      BY <2>1, <2>2 DEF Frames, Query
    <3>2. Report(Head(toMcu).o, Head(toMcu).v) \in Outlets \X Values
      BY <3>1 DEF Report
    <3>3. toChip' \in Seq(Outlets \X Values) /\ Len(toChip') = Len(toChip) + 1
          /\ Len(toChip) < MaxFrames
      <4>1. toChip' = Append(toChip, Report(Head(toMcu).o, Head(toMcu).v))
            /\ Len(toChip) < MaxFrames
        BY <1>7, <2>2 DEF McuServe
      <4>2. QED
        BY <1>0, <3>2, <4>1, AppendProperties
    <3>4. relay' \in [Outlets -> Values]
      BY <1>0, <1>7, <2>2, <3>1 DEF McuServe
    <3>5. Len(toChip') < MaxFrames + Last /\ Len(toMcu') <= MaxFrames
      BY <1>0, <2>1, <3>3 DEF TypeOK
    <3>6. QED
      BY <1>0, <1>7, <2>1, <3>3, <3>4, <3>5 DEF McuServe, McuKeep, TypeOK, Frames
  <2>3. CASE Head(toMcu).do # "set"
    <3>1. AllReports \in Seq(Outlets \X Values) /\ Len(AllReports) = Last
      BY <1>0 DEF AllReports, Report
    <3>2. toChip' = toChip \o AllReports /\ Len(toChip) + Last <= MaxFrames + Last - 1
          /\ relay' = relay
      BY <1>7, <2>3 DEF McuServe
    <3>3. toChip' \in Seq(Outlets \X Values) /\ Len(toChip') = Len(toChip) + Last
      BY <1>0, <3>1, <3>2, ConcatProperties
    <3>4. Len(toChip') < MaxFrames + Last /\ Len(toMcu') <= MaxFrames
      <4>1. Len(toChip) \in Nat /\ Len(toMcu) \in Nat /\ Len(toMcu) <= MaxFrames
        BY <1>0, LenProperties DEF TypeOK
      <4>2. Len(toMcu') <= MaxFrames
        BY <2>1, <4>1
      <4>3. Last \in Nat /\ Len(toChip) + Last < MaxFrames + Last
        BY <3>2, <4>1
      <4>4. QED
        BY <3>3, <4>2, <4>3
    <3>5. QED
      BY <1>0, <1>7, <2>1, <3>2, <3>3, <3>4 DEF McuServe, McuKeep, TypeOK, Frames
  <2>4. QED
    BY <2>2, <2>3
<1>8. CASE Lose
  <2>1. /\ toMcu' \in Seq(Frames) /\ Len(toMcu') <= Len(toMcu)
        /\ toChip' \in Seq(Outlets \X Values) /\ Len(toChip') <= Len(toChip)
    <3>1. CASE toMcu # <<>> /\ toMcu' = Tail(toMcu) /\ UNCHANGED toChip
      BY <1>0, <3>1, HeadTailProperties
    <3>2. CASE toChip # <<>> /\ toChip' = Tail(toChip) /\ UNCHANGED toMcu
      BY <1>0, <3>2, HeadTailProperties
    <3>3. QED
      BY <1>8, <3>1, <3>2 DEF Lose
  <2>2. Len(toChip') < MaxFrames + Last /\ Len(toMcu') <= MaxFrames
    BY <1>0, <2>1, LenProperties DEF TypeOK
  <2>3. QED
    BY <1>0, <1>8, <2>1, <2>2 DEF Lose, McuKeep, Spend, TypeOK, Frames
<1>9. CASE UNCHANGED vars
  BY <1>9 DEF vars, TypeOK
<1>10. QED
  BY <1>1, <1>2, <1>3, <1>4, <1>5, <1>6, <1>7, <1>8, <1>9 DEF Next

\* No queue outgrows its bound and no copy holds anything but a switch's value.
THEOREM TypeCorrect == Spec => []TypeOK
BY TypeInit, TypeInductive, PTL DEF Spec

-----------------------------------------------------------------------------
(***************************************************************************)
(* What HomeKit was told.                                                  *)
(***************************************************************************)

\* Outlet o's copies while nothing met half way: the two tasks are never at it
\* together, what a task at it is about to tell is what app.on says, and when
\* none is HomeKit was told that.
InStep(o) ==
  /\ ~ (Telling(o) /\ Writing(o))
  /\ Writing(o) /\ hpc # "app" => app[o] = hreq.v
  /\ Telling(o) /\ npc = "notify" => app[o] = narg
  /\ ~ Telling(o) /\ ~ Writing(o) => hap[o] = app[o]

Told == \A o \in Outlets : raced[o] = 0 => InStep(o)

LEMMA ToldInit == Init => Told
BY DEF Init, Told, InStep, Telling, Writing

LEMMA ToldInductive == TypeOK /\ Told /\ [Next]_vars => Told'
<1> SUFFICES ASSUME TypeOK, Told, [Next]_vars, NEW o \in Outlets, raced'[o] = 0
             PROVE  InStep(o)'
    BY DEF Told
<1> USE OutletsAre DEF mcuVars, writeVars, loopVars, InStep, Telling, Writing
<1>0. /\ on \in [Outlets -> Values] /\ app \in [Outlets -> Values]
      /\ hap \in [Outlets -> Values] /\ raced \in [Outlets -> Values]
      /\ nout \in Outlets /\ hreq.o \in Outlets
  BY DEF TypeOK
<1>t. raced[o] = 0 => InStep(o)
  BY DEF Told
<1>1. ASSUME NEW p \in Outlets, NEW v \in Values, HWrite(p, v) PROVE InStep(o)'
  BY <1>0, <1>1, <1>t DEF HWrite, SetFrame
<1>2. CASE HApp
  BY <1>0, <1>2, <1>t DEF HApp
<1>3. CASE HSend
  BY <1>0, <1>3, <1>t DEF HSend
<1>4. CASE HUpdate
  BY <1>0, <1>4, <1>t DEF HUpdate
<1>5. CASE NInit
  BY <1>0, <1>5, <1>t DEF NInit, NKeep
<1>6. CASE NCheck
  BY <1>0, <1>6, <1>t DEF NCheck, NNext, NKeep
<1>7. CASE NCopy
  BY <1>0, <1>7, <1>t DEF NCopy, NKeep
<1>8. CASE NArg
  BY <1>0, <1>8, <1>t DEF NArg, NKeep
<1>9. CASE NNotify
  BY <1>0, <1>9, <1>t DEF NNotify, NNext, NKeep
<1>10. CASE NAsk \/ NSynch \/ NTimer
  BY <1>0, <1>10, <1>t DEF NAsk, NSynch, NTimer, NKeep
<1>11. CASE Restart
  BY <1>0, <1>11, <1>t DEF Restart, NKeep
<1>12. ASSUME set_onoff \/ McuServe \/ Lose \/ (\E p \in Outlets : Press(p)) \/ UNCHANGED vars
       PROVE  InStep(o)'
  BY <1>12, <1>t DEF set_onoff, McuServe, Lose, Press, McuKeep, vars
<1>13. QED
  BY <1>1, <1>2, <1>3, <1>4, <1>5, <1>6, <1>7, <1>8, <1>9, <1>10, <1>11, <1>12
  DEF Next, Handler, Loop

\* As long as no write met a report or a notification half way, HomeKit was told
\* what app.on says: the only way it may come to show something else is a race.
THEOREM ToldUnlessRaced == Spec => []ToldWhatAppSays
<1>1. Told => ToldWhatAppSays
  BY DEF Told, InStep, ToldWhatAppSays
<1>2. QED
  BY <1>1, TypeInit, TypeInductive, ToldInit, ToldInductive, PTL DEF Spec
=============================================================================
