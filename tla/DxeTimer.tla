------------------------------ MODULE DxeTimer ------------------------------
(***************************************************************************)
(* The timer services of the DXE core: MdeModulePkg/Core/Dxe/Event/Timer.c *)
(*                                                                         *)
(* CoreSetTimer and CoreCheckTimers hold mEfiTimerLock, that is TPL 30:    *)
(* they exclude one another and every notification function (DxeEvent,     *)
(* TplExclusion), but not the timer interrupt.  CoreTimerTick runs at      *)
(* TPL_HIGH_LEVEL between any two of their steps, moves the clock and      *)
(* looks at the head of the list without taking mEfiTimerLock.             *)
(*                                                                         *)
(* The event services are abstract here: signalled is SignalCount of the   *)
(* timer events and checkSignalled that of mEfiCheckTimerEvent; a          *)
(* notification is dispatched at some later time.                          *)
(*                                                                         *)
(* CoreSetTimer takes every event whose Signature is set, also one that    *)
(* CoreCloseEvent has cancelled and not freed yet.  Such an event is freed *)
(* with its timer armed.  The list goes on through the freed memory, which *)
(* here keeps its contents: what happens once it is reused is not          *)
(* followed.                                                               *)
(***************************************************************************)
EXTENDS Integers, Sequences

CONSTANTS
  Event,          \* the events of type EVT_TIMER
  NoEvent,
  TriggerTimes,   \* the TriggerTime arguments clients pass
  Durations,      \* the Duration a tick may report
  TimerPeriod,    \* gTimer->GetTimerPeriod
  TIME,           \* UINT64 wraps here: stands for 2^64
  MaxTime         \* bound: the clock stands still when it gets there

ASSUME TimerAssumption ==
  /\ NoEvent \notin Event
  /\ TriggerTimes \subseteq Nat
  /\ Durations \subseteq Nat \ {0}
  /\ TimerPeriod \in Nat \ {0}
  /\ MaxTime \in Nat /\ TIME \in Nat /\ MaxTime < TIME

VARIABLES
  mEfiSystemTime,
  mEfiTimerList,    \* the armed events
  TriggerTime,      \* [Event -> IEVENT.Timer.TriggerTime]
  Period,           \* [Event -> IEVENT.Timer.Period], 0 for a one-shot timer
  signalled,        \* the events whose SignalCount is 1
  checkSignalled,   \* mEfiCheckTimerEvent is signalled
  live,             \* the events that exist
  closing,          \* the events CoreCloseEvent has cancelled, is about to free
  holder,           \* the code that holds mEfiTimerLock, and its locals
  due,              \* history: the time before which e must not be signalled
  rearmed           \* history: events a client armed while they were closed

vars == <<mEfiSystemTime, mEfiTimerList, TriggerTime, Period, signalled,
          checkSignalled, live, closing, holder, due, rearmed>>
timers == <<mEfiTimerList, TriggerTime, Period>>

(***************************************************************************)
(* holder.pc: where CoreSetTimer ("set...") or CoreCheckTimers ("check...")*)
(* is; ev is its Event, time the TriggerTime argument or the SystemTime.   *)
(***************************************************************************)
Pcs == {"none", "setTime", "setInsert", "setCheck",
        "checkTime", "checkHead", "checkSignal", "checkPeriod", "checkInsert"}
NoHolder == [pc |-> "none", ev |-> NoEvent, time |-> 0]
At(pc) == holder.pc = pc
Goto(pc) == holder' = [holder EXCEPT !.pc = pc]

Armed(e) == \E i \in 1..Len(mEfiTimerList) : mEfiTimerList[i] = e
RemoveEntry(list, e) ==
  IF \E i \in 1..Len(list) : list[i] = e
  THEN LET at == CHOOSE i \in 1..Len(list) : list[i] = e
       IN  [i \in 1..(Len(list) - 1) |-> IF i < at THEN list[i] ELSE list[i + 1]]
  ELSE list

Init ==
  /\ mEfiSystemTime = 0
  /\ mEfiTimerList = << >>
  /\ TriggerTime = [e \in Event |-> 0]
  /\ Period = [e \in Event |-> 0]
  /\ signalled = {} /\ checkSignalled = FALSE
  /\ live = Event /\ closing = {}
  /\ holder = NoHolder
  /\ due = [e \in Event |-> 0]
  /\ rearmed = {}

(***************************************************************************)
(* CoreInsertEventTimer: in front of the first timer with a later          *)
(* TriggerTime.                                                            *)
(***************************************************************************)
InsertEventTimer(e) ==
  LET n == Len(mEfiTimerList)
      later == {i \in 1..n : TriggerTime[mEfiTimerList[i]] > TriggerTime[e]}
      at == CHOOSE i \in later \cup {n + 1} : \A j \in later \cup {n + 1} : i <= j
  IN  mEfiTimerList' = [i \in 1..(n + 1) |->
                          IF i < at THEN mEfiTimerList[i]
                          ELSE IF i = at THEN e ELSE mEfiTimerList[i - 1]]

-----------------------------------------------------------------------------
\* Mutant: only a head that expires at this very tick is noticed.
TimerTick_Equal(duration) ==
  LET now == IF mEfiSystemTime + duration <= MaxTime
             THEN mEfiSystemTime + duration ELSE MaxTime
  IN  /\ mEfiSystemTime' = now
      /\ checkSignalled' =
           \/ checkSignalled
           \/ mEfiTimerList # << >> /\ TriggerTime[Head(mEfiTimerList)] = now
      /\ UNCHANGED <<timers, signalled, live, closing, holder, due, rearmed>>

(***************************************************************************)
(* CoreTimerTick: the clock moves; an expired head signals the check       *)
(* event.                                                                  *)
(***************************************************************************)
TimerTick(duration) ==
  LET now == IF mEfiSystemTime + duration <= MaxTime
             THEN mEfiSystemTime + duration ELSE MaxTime
  IN  /\ mEfiSystemTime' = now
      /\ checkSignalled' =
           \/ checkSignalled
           \/ mEfiTimerList # << >> /\ TriggerTime[Head(mEfiTimerList)] <= now
      /\ UNCHANGED <<timers, signalled, live, closing, holder, due, rearmed>>

Tick == \E d \in Durations : TimerTick(d)

-----------------------------------------------------------------------------
(***************************************************************************)
(* CoreSetTimer(e, type, t): under the lock, take the timer off the list   *)
(* and clear it; unless it is cancelled, read the clock, insert it, and    *)
(* signal the check event if it is to expire now.                          *)
(***************************************************************************)
SetTimer(e, type, t) ==
  LET time == IF type = "periodic" /\ t = 0 THEN TimerPeriod ELSE t
  IN  /\ At("none")
      /\ mEfiTimerList' = RemoveEntry(mEfiTimerList, e)
      /\ TriggerTime' = [TriggerTime EXCEPT ![e] = 0]
      /\ Period' = [Period EXCEPT ![e] = IF type = "periodic" THEN time ELSE 0]
      /\ holder' = IF type = "cancel" THEN holder
                   ELSE [pc |-> "setTime", ev |-> e, time |-> time]
      /\ due' = [due EXCEPT ![e] = IF type = "cancel" THEN 0
                                   ELSE mEfiSystemTime + time]
      /\ UNCHANGED <<mEfiSystemTime, signalled, checkSignalled, live>>

\* Mutant: the clock is left out of the trigger time.
SetTime_NoClock ==
  /\ At("setTime")
  /\ TriggerTime' = [TriggerTime EXCEPT ![holder.ev] = holder.time]
  /\ Goto("setInsert")
  /\ UNCHANGED <<mEfiSystemTime, mEfiTimerList, Period, signalled,
                 checkSignalled, live, closing, due, rearmed>>

SetTime ==
  /\ At("setTime")
  /\ TriggerTime' = [TriggerTime EXCEPT
                       ![holder.ev] = (mEfiSystemTime + holder.time) % TIME]
  /\ Goto("setInsert")
  /\ UNCHANGED <<mEfiSystemTime, mEfiTimerList, Period, signalled,
                 checkSignalled, live, closing, due, rearmed>>

SetInsert ==
  /\ At("setInsert")
  /\ InsertEventTimer(holder.ev)
  /\ Goto("setCheck")
  /\ UNCHANGED <<mEfiSystemTime, TriggerTime, Period, signalled,
                 checkSignalled, live, closing, due, rearmed>>

SetCheck ==
  /\ At("setCheck")
  /\ checkSignalled' = (checkSignalled \/ holder.time = 0)
  /\ holder' = NoHolder
  /\ UNCHANGED <<mEfiSystemTime, timers, signalled, live, closing, due, rearmed>>

-----------------------------------------------------------------------------
(***************************************************************************)
(* CoreCheckTimers, the notification function of mEfiCheckTimerEvent.      *)
(***************************************************************************)
CheckTimers ==
  /\ At("none")
  /\ checkSignalled
  /\ checkSignalled' = FALSE
  /\ Goto("checkTime")
  /\ UNCHANGED <<mEfiSystemTime, timers, signalled, live, closing, due, rearmed>>

CheckTime ==
  /\ At("checkTime")
  /\ holder' = [holder EXCEPT !.pc = "checkHead", !.time = mEfiSystemTime]
  /\ UNCHANGED <<mEfiSystemTime, timers, signalled, checkSignalled, live,
                 closing, due, rearmed>>

Expired == /\ mEfiTimerList # << >>
           /\ TriggerTime[Head(mEfiTimerList)] <= holder.time

CheckHead ==
  /\ At("checkHead")
  /\ Expired
  /\ mEfiTimerList' = Tail(mEfiTimerList)
  /\ holder' = [holder EXCEPT !.pc = "checkSignal", !.ev = Head(mEfiTimerList)]
  /\ UNCHANGED <<mEfiSystemTime, TriggerTime, Period, signalled,
                 checkSignalled, live, closing, due, rearmed>>

\* CoreSignalEvent refuses an event without a Signature.
CheckSignal ==
  /\ At("checkSignal")
  /\ signalled' = signalled \cup ({holder.ev} \cap live)
  /\ due' = [due EXCEPT ![holder.ev] = IF Period[holder.ev] = 0 THEN 0
                                        ELSE IF @ <= mEfiSystemTime
                                        THEN @ + Period[holder.ev] ELSE @]
  /\ rearmed' = IF Period[holder.ev] = 0 THEN rearmed \ {holder.ev} ELSE rearmed
  /\ Goto(IF Period[holder.ev] # 0 THEN "checkPeriod" ELSE "checkHead")
  /\ UNCHANGED <<mEfiSystemTime, timers, checkSignalled, live, closing>>

\* Mutant: the test for a late timer compares with the old trigger time.
CheckPeriod_OldTrigger ==
  LET e == holder.ev
      late == TriggerTime[e] <= holder.time
  IN  /\ At("checkPeriod")
      /\ TriggerTime' = [TriggerTime EXCEPT
                           ![e] = IF late THEN holder.time
                                  ELSE (@ + Period[e]) % TIME]
      /\ checkSignalled' = (checkSignalled \/ late)
      /\ Goto("checkInsert")
      /\ UNCHANGED <<mEfiSystemTime, mEfiTimerList, Period, signalled, live,
                     closing, due, rearmed>>

\* A periodic timer that is late by a period or more starts again from now.
CheckPeriod ==
  LET e == holder.ev
      next == (TriggerTime[e] + Period[e]) % TIME
      late == next <= holder.time
  IN  /\ At("checkPeriod")
      /\ TriggerTime' = [TriggerTime EXCEPT
                           ![e] = IF late THEN holder.time ELSE next]
      /\ checkSignalled' = (checkSignalled \/ late)
      /\ Goto("checkInsert")
      /\ UNCHANGED <<mEfiSystemTime, mEfiTimerList, Period, signalled, live,
                     closing, due, rearmed>>

CheckInsert ==
  /\ At("checkInsert")
  /\ InsertEventTimer(holder.ev)
  /\ Goto("checkHead")
  /\ UNCHANGED <<mEfiSystemTime, TriggerTime, Period, signalled,
                 checkSignalled, live, closing, due, rearmed>>

CheckEnd ==
  /\ At("checkHead")
  /\ ~Expired
  /\ holder' = NoHolder
  /\ UNCHANGED <<mEfiSystemTime, timers, signalled, checkSignalled, live,
                 closing, due, rearmed>>

-----------------------------------------------------------------------------
\* A client sets the timer of e, perhaps while e is being closed.
ClientSetTimer(e) ==
  /\ e \in live
  /\ \/ /\ SetTimer(e, "cancel", 0)
        /\ rearmed' = rearmed \ {e}
     \/ /\ \E type \in {"periodic", "relative"}, t \in TriggerTimes : SetTimer(e, type, t)
        /\ rearmed' = rearmed \cup ({e} \cap closing)
  /\ UNCHANGED closing

\* Mutant: the timer of a closed event is left armed.
CloseEvent_NoCancel(e) ==
  /\ e \in live \ closing
  /\ At("none")
  /\ closing' = closing \cup {e}
  /\ UNCHANGED <<mEfiSystemTime, timers, signalled, checkSignalled, live,
                 holder, due, rearmed>>

(***************************************************************************)
(* CoreCloseEvent: cancel the timer; take the event off the notification   *)
(* queue and free it.                                                      *)
(***************************************************************************)
CloseEvent(e) ==
  /\ e \in live \ closing
  /\ SetTimer(e, "cancel", 0)
  /\ closing' = closing \cup {e}
  /\ UNCHANGED rearmed

CloseFree(e) ==
  /\ At("none")
  /\ e \in closing
  /\ live' = live \ {e}
  /\ closing' = closing \ {e}
  /\ signalled' = signalled \ {e}
  /\ UNCHANGED <<mEfiSystemTime, timers, checkSignalled, holder, due, rearmed>>

\* CoreDispatchEventNotifies takes e off its queue.
Notify(e) ==
  /\ At("none")
  /\ e \in signalled
  /\ signalled' = signalled \ {e}
  /\ UNCHANGED <<mEfiSystemTime, timers, checkSignalled, live, closing, holder, due,
                 rearmed>>

Locked ==
  \/ SetTime \/ SetInsert \/ SetCheck
  \/ CheckTime \/ CheckHead \/ CheckSignal \/ CheckPeriod \/ CheckInsert
  \/ CheckEnd

Next ==
  \/ Tick \/ Locked \/ CheckTimers
  \/ \E e \in Event : \/ ClientSetTimer(e) \/ CloseEvent(e)
                      \/ CloseFree(e) \/ Notify(e)

Spec == Init /\ [][Next]_vars

-----------------------------------------------------------------------------
\* Type correctness; a list never holds an event twice.
TypeOK ==
  /\ mEfiSystemTime \in 0..MaxTime
  /\ mEfiTimerList \in Seq(Event)
  /\ \A i, j \in 1..Len(mEfiTimerList) :
       mEfiTimerList[i] = mEfiTimerList[j] => i = j
  /\ TriggerTime \in [Event -> 0..(TIME - 1)]
  /\ Period \in [Event -> Nat]
  /\ signalled \subseteq Event
  /\ checkSignalled \in BOOLEAN
  /\ live \subseteq Event
  /\ closing \subseteq live
  /\ holder \in [pc : Pcs, ev : Event \cup {NoEvent}, time : Nat]
  /\ due \in [Event -> Nat]
  /\ rearmed \subseteq Event

(***************************************************************************)
(* CoreTimerTick and CoreCheckTimers look at the head of the list only.    *)
(* Whatever the ticks do in between, the list is in ascending order of     *)
(* TriggerTime, so no expired timer hides behind one that is not.          *)
(***************************************************************************)
Sorted ==
  \A i, j \in 1..Len(mEfiTimerList) :
    i <= j => TriggerTime[mEfiTimerList[i]] <= TriggerTime[mEfiTimerList[j]]

(***************************************************************************)
(* A timer never expires early: CoreCheckTimers signals a relative timer   *)
(* no sooner than "the number of 100ns units" after the CoreSetTimer call, *)
(* and a periodic one never more often than periods have passed since, even*)
(* when it catches up.                                                     *)
(***************************************************************************)
NotEarly == At("checkSignal") => mEfiSystemTime >= due[holder.ev]

(***************************************************************************)
(* The list, and the hands of the code that holds the lock, hold the timer *)
(* of no event that is closed or being closed, with one exception: a       *)
(* client set it after CoreCloseEvent had cancelled it and before the      *)
(* event was freed, and has not cancelled it since.                        *)
(***************************************************************************)
MayBeArmed == (live \ closing) \cup rearmed
TimersLive ==
  /\ \A i \in 1..Len(mEfiTimerList) : mEfiTimerList[i] \in MayBeArmed
  /\ ~At("none") /\ ~At("checkHead") => holder.ev \in MayBeArmed \cup {NoEvent}

(***************************************************************************)
(* A periodic timer that was neither cancelled nor closed stays armed: it  *)
(* is on the list, or CoreCheckTimers or CoreSetTimer has it in hand and   *)
(* will put it there.                                                      *)
(***************************************************************************)
InHand(e) == holder.ev = e /\ ~At("checkHead")
PeriodicStays == \A e \in Event : Period[e] # 0 => Armed(e) \/ InHand(e)

(***************************************************************************)
(* mEfiTimerList is what CoreTimerTick and CoreCheckTimers take it for,    *)
(* between any two steps of the code that changes it: each timer once, in  *)
(* order, every periodic timer, and a closed event only by the doing of a  *)
(* client that armed it while it was being closed.                         *)
(***************************************************************************)
TimerListOK == TypeOK /\ Sorted /\ TimersLive /\ PeriodicStays

(***************************************************************************)
(* Fairness: the code that holds the lock gets on between the ticks, the   *)
(* check event is dispatched, ticks keep coming.                           *)
(***************************************************************************)
FairSpec == Spec /\ WF_vars(Locked) /\ SF_vars(CheckTimers) /\ WF_vars(Tick)

(***************************************************************************)
(* A timer that has expired does not stay on the list unnoticed, whenever  *)
(* the ticks come: a tick that found the list before the timer was         *)
(* inserted, or during CoreCheckTimers, which works with an older time, is *)
(* made up for.                                                            *)
(***************************************************************************)
ExpiredIsTaken ==
  \A e \in Event : (Armed(e) /\ TriggerTime[e] <= mEfiSystemTime)
                     ~> ~(Armed(e) /\ TriggerTime[e] <= mEfiSystemTime)

(***************************************************************************)
(* CoreCheckTimers comes to an end: a periodic timer that is late is       *)
(* served at most twice.                                                   *)
(***************************************************************************)
CheckTimersEnds == At("checkTime") ~> At("none")
=============================================================================
