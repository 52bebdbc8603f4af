------------------------------ MODULE DxeEvent ------------------------------
(***************************************************************************)
(* The event and task-priority services of the DXE core:                   *)
(*   MdeModulePkg/Core/Dxe/Event/Event.c, Event/Tpl.c, Library/Library.c   *)
(* driven by the timer interrupt of OvmfPkg/8254TimerDxe/Timer.c.          *)
(*                                                                         *)
(* There is one processor and one call stack.  Concurrency comes from two  *)
(* places: CoreRestoreTpl, which calls the notification functions of the   *)
(* pending events before it returns, and the timer interrupt, which may    *)
(* come between any two instructions while interrupts are enabled.  The    *)
(* state is therefore the call stack (a sequence of activation records,    *)
(* the running one last) and the global variables of Event.c and Tpl.c.    *)
(*                                                                         *)
(* A region that holds gEventQueueLock runs at TPL_HIGH_LEVEL with the     *)
(* interrupts off, so it is one step; the CoreRestoreTpl call that ends it *)
(* (CoreReleaseLock) is an activation record of its own, because it can    *)
(* run other code.                                                         *)
(***************************************************************************)
EXTENDS Integers, Sequences, FiniteSets

CONSTANTS
  Event,            \* the event structures a run may create
  CheckTimerEvent,  \* mEfiCheckTimerEvent, created by CoreInitializeTimer
  IdleEvent,        \* gIdleLoopEvent, created by CoreInitializeEventServices
  NoEvent,          \* the null EFI_EVENT
  NotifyTpl,        \* [Event -> TPL]: NotifyTpl each event is created with
  EventType,        \* [Event -> {"signal", "wait", "plain"}]
  EventGroup,       \* [Event -> a group or NoGroup]
  NoGroup,
  TimerEvent,       \* the events created with EVT_TIMER
  WaitList,         \* the UserEvents array the application waits on
  RaiseLevels,      \* the levels clients raise to
  MaxCalls,         \* bound: service calls one notification function makes
  NestedTicks,      \* the timer driver acknowledges the interrupt first
  MaxStack,         \* bound on the depth of the call stack
  ReloadPending,    \* the build reads gEventPending twice per iteration
  Disciplined       \* clients follow the CloseEvent discipline (see MayClose)

TPL_APPLICATION == 4
TPL_CALLBACK    == 8
TPL_NOTIFY      == 16
TPL_TIMER       == 30   \* TPL_HIGH_LEVEL - 1: mEfiTimerLock, CoreCheckTimers
TPL_HIGH_LEVEL  == 31

(***************************************************************************)
(* What CoreCreateEventInternal accepts: an event with a notification      *)
(* function has a NotifyTpl strictly between TPL_APPLICATION and           *)
(* TPL_HIGH_LEVEL, one without has NotifyTpl 0.                            *)
(***************************************************************************)
ValidNotifyTpl(e) ==
  IF EventType[e] = "plain"
  THEN NotifyTpl[e] = 0
  ELSE TPL_APPLICATION < NotifyTpl[e] /\ NotifyTpl[e] < TPL_HIGH_LEVEL

ASSUME EventAssumption ==
  /\ NoEvent \notin Event
  /\ CheckTimerEvent \in Event /\ IdleEvent \in Event
  /\ CheckTimerEvent # IdleEvent
  /\ NotifyTpl \in [Event -> 0..TPL_HIGH_LEVEL]
  /\ EventType \in [Event -> {"signal", "wait", "plain"}]
  /\ \A e \in Event : ValidNotifyTpl(e)
  /\ EventGroup \in [Event -> {EventGroup[e] : e \in Event}]
  /\ NotifyTpl[CheckTimerEvent] = TPL_TIMER
  /\ EventType[CheckTimerEvent] = "signal"
  /\ EventGroup[CheckTimerEvent] = NoGroup
  /\ NotifyTpl[IdleEvent] = TPL_NOTIFY
  /\ EventType[IdleEvent] = "signal"
  /\ EventGroup[IdleEvent] # NoGroup

ASSUME ClientAssumption ==
  /\ TimerEvent \subseteq Event
  /\ WaitList \in Seq(Event)
  /\ RaiseLevels \subseteq TPL_APPLICATION..TPL_HIGH_LEVEL
  /\ MaxCalls \in Nat
  /\ MaxStack \in Nat
  /\ NestedTicks \in BOOLEAN
  /\ ReloadPending \in BOOLEAN
  /\ Disciplined \in BOOLEAN

VARIABLES
  gEfiCurrentTpl,     \* the task priority level
  interrupts,         \* the processor's interrupt flag
  gEventPending,      \* the bits set in the mask: a set of levels
  gEventQueue,        \* [level -> queue of events to notify]
  gEventSignalQueue,  \* the EVT_NOTIFY_SIGNAL events, newest first
  SignalCount,        \* [Event -> IEVENT.SignalCount]
  live,               \* the events that exist (Signature = EVENT_SIGNATURE)
  stack               \* the call stack

vars == <<gEfiCurrentTpl, interrupts, gEventPending, gEventQueue,
          gEventSignalQueue, SignalCount, live, stack>>

evtVars == <<gEventPending, gEventQueue, gEventSignalQueue, SignalCount, live>>
tplVars == <<gEfiCurrentTpl, interrupts>>

-----------------------------------------------------------------------------
(***************************************************************************)
(* Activation records.  They share one shape; a kind uses the fields it    *)
(* needs.                                                                  *)
(*   client   the application (ev = NoEvent) or the notification function  *)
(*            of ev, entered at level base and now holding level lvl; arg  *)
(*            is the event of the service call it is inside of, idx the    *)
(*            position of CoreWaitForEvent in WaitList (0: not waiting),   *)
(*            left the calls it may still make                             *)
(*   restore  CoreRestoreTpl(lvl); idx is the PendingTpl it has computed   *)
(*   dispatch CoreDispatchEventNotifies(lvl); ev is the event it dequeued  *)
(*   list     CoreNotifySignalList for the group of ev, idx is its Link;   *)
(*            lvl is the OwnerTpl of the lock it holds                     *)
(*   irq      the timer interrupt handler; lvl is the interrupted level    *)
(***************************************************************************)
Kinds == {"client", "restore", "dispatch", "list", "irq"}
Pcs == {"run", "wait", "siglist", "relock", "queue", "check", "clear",
        "unlink", "free", "test", "high", "act", "next", "call", "done"}

Frame == [kind : Kinds, pc : Pcs, lvl : Nat, base : Nat,
          ev : Event \cup {NoEvent}, arg : Event \cup {NoEvent},
          idx : Nat, left : Nat]

Client(tpl, e) ==
  [kind |-> "client", pc |-> "run", lvl |-> tpl, base |-> tpl, ev |-> e,
   arg |-> NoEvent, idx |-> 0, left |-> MaxCalls]
Restore(tpl) ==
  [kind |-> "restore", pc |-> "test", lvl |-> tpl, base |-> tpl,
   ev |-> NoEvent, arg |-> NoEvent, idx |-> 0, left |-> 0]
Dispatch(tpl) ==
  [kind |-> "dispatch", pc |-> "next", lvl |-> tpl, base |-> tpl,
   ev |-> NoEvent, arg |-> NoEvent, idx |-> 0, left |-> 0]
SignalList(tpl, e) ==
  [kind |-> "list", pc |-> "run", lvl |-> tpl, base |-> tpl, ev |-> e,
   arg |-> NoEvent, idx |-> 1, left |-> 0]
Irq(tpl) ==
  [kind |-> "irq", pc |-> "run", lvl |-> tpl, base |-> tpl, ev |-> NoEvent,
   arg |-> NoEvent, idx |-> 0, left |-> 0]

Top == stack[Len(stack)]
Below == SubSeq(stack, 1, Len(stack) - 1)
Push(f) == Append(stack, f)
SetTop(f) == [stack EXCEPT ![Len(stack)] = f]

At(kind, pc) == Top.kind = kind /\ Top.pc = pc

(***************************************************************************)
(* CoreRaiseTpl: raising to TPL_HIGH_LEVEL turns the interrupts off.       *)
(***************************************************************************)
RaiseTpl(new) ==
  /\ gEfiCurrentTpl' = new
  /\ interrupts' = IF new >= TPL_HIGH_LEVEL /\ gEfiCurrentTpl < TPL_HIGH_LEVEL
                   THEN FALSE ELSE interrupts

(***************************************************************************)
(* CoreAcquireEventLock; the statements of the caller; CoreReleaseEventLock*)
(* The release is CoreRestoreTpl(OwnerTpl), entered at TPL_HIGH_LEVEL.     *)
(* f is the caller's record once the call is under way.                    *)
(***************************************************************************)
EventLocked(f) ==
  /\ RaiseTpl(TPL_HIGH_LEVEL)
  /\ stack' = Append(SetTop(f), Restore(gEfiCurrentTpl))

(***************************************************************************)
(* RemoveEntryList, InsertTailList and InsertHeadList on the lists.        *)
(***************************************************************************)
Queued(q, e) == \E i \in 1..Len(q) : q[i] = e

RemoveEntry(q, e) ==
  IF Queued(q, e)
  THEN LET i == CHOOSE k \in 1..Len(q) : q[k] = e
       IN  [k \in 1..(Len(q) - 1) |-> IF k < i THEN q[k] ELSE q[k + 1]]
  ELSE q

(***************************************************************************)
(* CoreNotifyEvent: unlink the event if it is queued, append it to the     *)
(* queue of its level and set the level's pending bit.                     *)
(***************************************************************************)
NotifyEvent(e) ==
  /\ gEventQueue' = [gEventQueue EXCEPT
                       ![NotifyTpl[e]] = Append(RemoveEntry(@, e), e)]
  /\ gEventPending' = gEventPending \cup {NotifyTpl[e]}

-----------------------------------------------------------------------------
(***************************************************************************)
(* CoreInitializeEventServices has created the timer-check event and the   *)
(* idle event; the application (BDS, the shell, a driver entry point) runs *)
(* at TPL_APPLICATION with the interrupts on.                              *)
(***************************************************************************)
Init ==
  /\ gEfiCurrentTpl = TPL_APPLICATION
  /\ interrupts = TRUE
  /\ gEventPending = {}
  /\ gEventQueue = [t \in 0..TPL_HIGH_LEVEL |-> << >>]
  /\ gEventSignalQueue = <<IdleEvent, CheckTimerEvent>>
  /\ SignalCount = [e \in Event |-> 0]
  /\ live = {CheckTimerEvent, IdleEvent}
  /\ stack = <<Client(TPL_APPLICATION, NoEvent)>>

-----------------------------------------------------------------------------
(***************************************************************************)
(* CoreRestoreTpl.  A build that keeps gEventPending in a register tests   *)
(* and uses one value; a build without optimisation (NOOPT) reads the      *)
(* variable for the test and again for HighBitSet64, and HighBitSet64 of 0 *)
(* is -1, which the cast to UINTN makes the largest number.  The interrupt *)
(* may come between the read and the use.                                  *)
(***************************************************************************)
MAX_UINTN == 65535   \* stands for 2^64 - 1: all that matters is its size

HighBitSet64(mask) ==
  IF mask = {} THEN MAX_UINTN ELSE CHOOSE t \in mask : \A u \in mask : u <= t

RestoreTest ==
  /\ At("restore", "test")
  /\ stack' = SetTop(
       IF gEventPending = {}
       THEN [Top EXCEPT !.pc = "act", !.idx = 0]
       ELSE [Top EXCEPT !.pc = "high", !.idx = HighBitSet64(gEventPending)])
  /\ UNCHANGED <<tplVars, evtVars>>

RestoreHighBit ==
  /\ At("restore", "high")
  /\ stack' = SetTop([Top EXCEPT !.pc = "act",
                        !.idx = IF ReloadPending
                                THEN HighBitSet64(gEventPending) ELSE @])
  /\ UNCHANGED <<tplVars, evtVars>>

\* Mutant: the loop breaks on PendingTpl < NewTpl instead of <=.
RestoreDispatch_SameLevel ==
  /\ At("restore", "act")
  /\ Top.idx >= Top.lvl
  /\ gEfiCurrentTpl' = Top.idx
  /\ interrupts' = (IF Top.idx < TPL_HIGH_LEVEL THEN TRUE ELSE interrupts)
  /\ stack' = Append(SetTop([Top EXCEPT !.pc = "test", !.idx = 0]),
                     Dispatch(Top.idx))
  /\ UNCHANGED evtVars

(***************************************************************************)
(* A pending level above NewTpl: run its notification functions at that    *)
(* level and look again.                                                   *)
(***************************************************************************)
RestoreDispatch ==
  /\ At("restore", "act")
  /\ Top.idx > Top.lvl
  /\ gEfiCurrentTpl' = Top.idx
  /\ interrupts' = (IF Top.idx < TPL_HIGH_LEVEL THEN TRUE ELSE interrupts)
  /\ stack' = Append(SetTop([Top EXCEPT !.pc = "test", !.idx = 0]),
                     Dispatch(Top.idx))
  /\ UNCHANGED evtVars

\* Mutant: CoreRestoreTpl leaves the level of the last dispatch in place.
RestoreExit_LevelKept ==
  /\ At("restore", "act")
  /\ Top.idx <= Top.lvl
  /\ gEfiCurrentTpl' = IF gEfiCurrentTpl = TPL_HIGH_LEVEL
                       THEN Top.lvl ELSE gEfiCurrentTpl
  /\ interrupts' = (IF Top.lvl < TPL_HIGH_LEVEL THEN TRUE ELSE interrupts)
  /\ stack' = Below
  /\ UNCHANGED evtVars

(***************************************************************************)
(* Nothing above NewTpl (or nothing at all): set the level and return.     *)
(***************************************************************************)
RestoreExit ==
  /\ At("restore", "act")
  /\ Top.idx <= Top.lvl
  /\ gEfiCurrentTpl' = Top.lvl
  /\ interrupts' = (IF Top.lvl < TPL_HIGH_LEVEL THEN TRUE ELSE interrupts)
  /\ stack' = Below
  /\ UNCHANGED evtVars

-----------------------------------------------------------------------------
\* Mutant: SignalCount is not cleared when the notification is taken.
DispatchNext_KeepsSignal ==
  /\ At("dispatch", "next")
  /\ gEventQueue[Top.lvl] # << >>
  /\ gEventQueue' = [gEventQueue EXCEPT ![Top.lvl] = Tail(@)]
  /\ EventLocked([Top EXCEPT !.pc = "call", !.ev = Head(gEventQueue[Top.lvl])])
  /\ UNCHANGED <<gEventPending, gEventSignalQueue, SignalCount, live>>

(***************************************************************************)
(* CoreDispatchEventNotifies(Priority): take the first event, clear the    *)
(* signal of an EVT_NOTIFY_SIGNAL event, drop the lock, call its function, *)
(* take the lock again; when the queue is empty clear the pending bit.     *)
(***************************************************************************)
DispatchNext ==
  /\ At("dispatch", "next")
  /\ gEventQueue[Top.lvl] # << >>
  /\ LET e == Head(gEventQueue[Top.lvl])
     IN  /\ gEventQueue' = [gEventQueue EXCEPT ![Top.lvl] = Tail(@)]
         /\ SignalCount' = IF EventType[e] = "signal"
                           THEN [SignalCount EXCEPT ![e] = 0]
                           ELSE SignalCount
         /\ EventLocked([Top EXCEPT !.pc = "call", !.ev = e])
  /\ UNCHANGED <<gEventPending, gEventSignalQueue, live>>

DispatchCall ==
  /\ At("dispatch", "call")
  /\ stack' = Append(SetTop([Top EXCEPT !.pc = "next", !.ev = NoEvent]),
                     Client(gEfiCurrentTpl, Top.ev))
  /\ UNCHANGED <<tplVars, evtVars>>

\* Mutant: the whole mask is cleared instead of the bit of Priority.
DispatchEmpty_ClearsMask ==
  /\ At("dispatch", "next")
  /\ gEventQueue[Top.lvl] = << >>
  /\ gEventPending' = {}
  /\ EventLocked([Top EXCEPT !.pc = "done"])
  /\ UNCHANGED <<gEventQueue, gEventSignalQueue, SignalCount, live>>

DispatchEmpty ==
  /\ At("dispatch", "next")
  /\ gEventQueue[Top.lvl] = << >>
  /\ gEventPending' = gEventPending \ {Top.lvl}
  /\ EventLocked([Top EXCEPT !.pc = "done"])
  /\ UNCHANGED <<gEventQueue, gEventSignalQueue, SignalCount, live>>

DispatchReturn ==
  /\ At("dispatch", "done")
  /\ stack' = Below
  /\ UNCHANGED <<tplVars, evtVars>>

-----------------------------------------------------------------------------
(***************************************************************************)
(* TimerInterruptHandler raises to TPL_HIGH_LEVEL, calls CoreTimerTick and *)
(* restores the interrupted level; CoreTimerTick signals the timer-check   *)
(* event when the first timer has expired (due).  The 8254 driver sends    *)
(* the end-of-interrupt last, so its handler is not re-entered; a driver   *)
(* that sends it first (HPET) may be.                                      *)
(***************************************************************************)
TimerInterrupt ==
  /\ interrupts
  /\ NestedTicks \/ \A i \in 1..Len(stack) : stack[i].kind # "irq"
  /\ Len(stack) + 2 <= MaxStack
  /\ \E due \in BOOLEAN :
       IF due /\ SignalCount[CheckTimerEvent] = 0
       THEN /\ SignalCount' = [SignalCount EXCEPT ![CheckTimerEvent] = 1]
            /\ NotifyEvent(CheckTimerEvent)
       ELSE UNCHANGED <<SignalCount, gEventQueue, gEventPending>>
  /\ RaiseTpl(TPL_HIGH_LEVEL)
  /\ stack' = Append(Push(Irq(gEfiCurrentTpl)), Restore(gEfiCurrentTpl))
  /\ UNCHANGED <<gEventSignalQueue, live>>

(***************************************************************************)
(* DisableInterrupts, EndOfInterrupt and the return from the interrupt,    *)
(* which restores the interrupted code's flag: it was set.                 *)
(***************************************************************************)
InterruptReturn ==
  /\ Top.kind = "irq"
  /\ stack' = Below
  /\ interrupts' = TRUE
  /\ UNCHANGED <<gEfiCurrentTpl, evtVars>>

-----------------------------------------------------------------------------
(***************************************************************************)
(* What clients do.  Running: the client is between two service calls.     *)
(* The idle event's function is empty and CoreCheckTimers only signals.    *)
(***************************************************************************)
Running ==
  /\ At("client", "run")
  /\ Top.ev # NoEvent => Top.left > 0
  /\ Top.ev # IdleEvent
  /\ Len(stack) < MaxStack

Free == Running /\ Top.ev # CheckTimerEvent

\* The caller's record after one more call.
Called == IF Top.ev = NoEvent THEN Top ELSE [Top EXCEPT !.left = @ - 1]

(***************************************************************************)
(* The discipline a client must follow for CloseEvent to be safe: it runs  *)
(* no higher than the event's notification level, nobody below it on the   *)
(* stack is inside a call on that event, and nobody calls a service on an  *)
(* event that is being closed.  The code enforces none of it.              *)
(***************************************************************************)
Closing(e) == \E i \in 1..Len(stack) :
  stack[i].arg = e /\ stack[i].pc \in {"unlink", "free"}
InCall(e) == \E i \in 1..Len(stack) :
  \/ stack[i].arg = e
  \/ stack[i].idx > 0 /\ stack[i].kind = "client" /\ Queued(WaitList, e)
MayUse(e) == e \in live /\ (Disciplined => ~Closing(e))
MayClose(e) ==
  /\ e \in live \ {CheckTimerEvent, IdleEvent}
  /\ Disciplined => /\ ~InCall(e)
                    /\ EventType[e] = "plain" \/ Top.lvl <= NotifyTpl[e]

ClientRaiseTpl(new) ==
  /\ Free
  /\ new > Top.lvl
  /\ RaiseTpl(new)
  /\ stack' = SetTop([Called EXCEPT !.lvl = new])
  /\ UNCHANGED evtVars

ClientRestoreTpl(new) ==
  /\ At("client", "run")
  /\ Len(stack) < MaxStack
  /\ Top.base <= new /\ new < Top.lvl
  /\ stack' = Append(SetTop([Top EXCEPT !.lvl = new]), Restore(new))
  /\ UNCHANGED <<tplVars, evtVars>>

\* A notification function returns at the level it was entered at.
NotifyReturn ==
  /\ At("client", "run")
  /\ Top.ev # NoEvent
  /\ Top.lvl = Top.base
  /\ stack' = Below
  /\ UNCHANGED <<tplVars, evtVars>>

(***************************************************************************)
(* CoreCreateEventInternal, once the parameters have been accepted.        *)
(***************************************************************************)
CreateEvent(e) ==
  /\ Free
  /\ e \notin live
  /\ ~InCall(e)
  /\ live' = live \cup {e}
  /\ SignalCount' = [SignalCount EXCEPT ![e] = 0]
  /\ gEventSignalQueue' = IF EventType[e] = "signal"
                          THEN <<e>> \o gEventSignalQueue
                          ELSE gEventSignalQueue
  /\ EventLocked(Called)
  /\ UNCHANGED <<gEventPending, gEventQueue>>

\* Mutant: SignalCount is incremented without looking at it.
SignalEvent_NoTest(f, e) ==
  /\ SignalCount' = [SignalCount EXCEPT ![e] = @ + 1]
  /\ IF EventType[e] = "signal" /\ EventGroup[e] # NoGroup
     THEN /\ EventLocked([f EXCEPT !.pc = "siglist", !.arg = e])
          /\ UNCHANGED <<gEventQueue, gEventPending>>
     ELSE /\ EventLocked(f)
          /\ IF EventType[e] = "signal"
             THEN NotifyEvent(e)
             ELSE UNCHANGED <<gEventQueue, gEventPending>>
  /\ UNCHANGED <<gEventSignalQueue, live>>

(***************************************************************************)
(* CoreSignalEvent.  f is the caller's record.  A member of an event group *)
(* has all members queued, with the lock dropped in between.               *)
(***************************************************************************)
SignalEvent(f, e) ==
  /\ IF SignalCount[e] # 0
     THEN /\ EventLocked(f)
          /\ UNCHANGED <<SignalCount, gEventQueue, gEventPending>>
     ELSE /\ SignalCount' = [SignalCount EXCEPT ![e] = 1]
          /\ IF EventType[e] = "signal" /\ EventGroup[e] # NoGroup
             THEN /\ EventLocked([f EXCEPT !.pc = "siglist", !.arg = e])
                  /\ UNCHANGED <<gEventQueue, gEventPending>>
             ELSE /\ EventLocked(f)
                  /\ IF EventType[e] = "signal"
                     THEN NotifyEvent(e)
                     ELSE UNCHANGED <<gEventQueue, gEventPending>>
  /\ UNCHANGED <<gEventSignalQueue, live>>

ClientSignalEvent(e) ==
  /\ Running
  /\ MayUse(e)
  /\ e \notin {CheckTimerEvent, IdleEvent}
  /\ SignalEvent(Called, e)

\* CoreNotifySignalList: take the lock and walk gEventSignalQueue.
NotifySignalList ==
  /\ At("client", "siglist")
  /\ RaiseTpl(TPL_HIGH_LEVEL)
  /\ stack' = Append(SetTop([Top EXCEPT !.pc = "relock"]),
                     SignalList(gEfiCurrentTpl, Top.arg))
  /\ UNCHANGED evtVars

NotifySignalListStep ==
  /\ Top.kind = "list"
  /\ Top.idx <= Len(gEventSignalQueue)
  /\ LET e == gEventSignalQueue[Top.idx]
     IN  IF EventGroup[e] = EventGroup[Top.ev]
         THEN NotifyEvent(e)
         ELSE UNCHANGED <<gEventQueue, gEventPending>>
  /\ stack' = SetTop([Top EXCEPT !.idx = @ + 1])
  /\ UNCHANGED <<tplVars, gEventSignalQueue, SignalCount, live>>

NotifySignalListEnd ==
  /\ Top.kind = "list"
  /\ Top.idx > Len(gEventSignalQueue)
  /\ stack' = SetTop(Restore(Top.lvl))
  /\ UNCHANGED <<tplVars, evtVars>>

\* A service call returns to the client, or to CoreWaitForEvent's loop.
Returned(f) ==
  [f EXCEPT !.pc = IF f.idx = 0 THEN "run" ELSE "wait", !.arg = NoEvent]

\* The end of CoreSignalEvent for a group: acquire and release once more.
SignalRelock ==
  /\ At("client", "relock")
  /\ EventLocked(Returned(Top))
  /\ UNCHANGED evtVars

(***************************************************************************)
(* CoreSetTimer with TriggerTime 0: under mEfiTimerLock (TPL_TIMER) the    *)
(* timer-check event is signalled; releasing the lock is                   *)
(* CoreRestoreTpl(OwnerTpl), entered at TPL_TIMER with the interrupts on.  *)
(***************************************************************************)
ClientSetTimerNow ==
  /\ Free
  /\ Top.lvl <= TPL_TIMER
  /\ IF SignalCount[CheckTimerEvent] = 0
     THEN /\ SignalCount' = [SignalCount EXCEPT ![CheckTimerEvent] = 1]
          /\ NotifyEvent(CheckTimerEvent)
     ELSE UNCHANGED <<SignalCount, gEventQueue, gEventPending>>
  /\ RaiseTpl(TPL_TIMER)
  /\ stack' = Append(SetTop(Called), Restore(gEfiCurrentTpl))
  /\ UNCHANGED <<gEventSignalQueue, live>>

-----------------------------------------------------------------------------
(***************************************************************************)
(* CoreCheckEvent(e), for an event that is not EVT_NOTIFY_SIGNAL: read     *)
(* SignalCount without the lock, queue the wait function under the lock,   *)
(* read it again without the lock, clear it under the lock.                *)
(***************************************************************************)
CheckEvent(f, e) ==
  /\ stack' = SetTop([f EXCEPT
        !.pc = IF SignalCount[e] = 0 /\ EventType[e] = "wait"
               THEN "queue" ELSE "check",
        !.arg = e])
  /\ UNCHANGED <<tplVars, evtVars>>

ClientCheckEvent(e) ==
  /\ Free
  /\ MayUse(e)
  /\ EventType[e] # "signal"
  /\ CheckEvent(Called, e)

CheckEventQueue ==
  /\ At("client", "queue")
  /\ IF SignalCount[Top.arg] = 0
     THEN NotifyEvent(Top.arg)
     ELSE UNCHANGED <<gEventQueue, gEventPending>>
  /\ EventLocked([Top EXCEPT !.pc = "check"])
  /\ UNCHANGED <<gEventSignalQueue, SignalCount, live>>

\* EFI_NOT_READY: a waiter goes on with its next event.
NotReady(f) ==
  Returned([f EXCEPT !.idx = IF f.idx = 0 THEN 0 ELSE f.idx + 1])
\* EFI_SUCCESS: a waiter returns.
Ready(f) == Returned([f EXCEPT !.idx = 0])

CheckEventTest ==
  /\ At("client", "check")
  /\ stack' = SetTop(IF SignalCount[Top.arg] # 0
                     THEN [Top EXCEPT !.pc = "clear"] ELSE NotReady(Top))
  /\ UNCHANGED <<tplVars, evtVars>>

CheckEventClear ==
  /\ At("client", "clear")
  /\ SignalCount' = [SignalCount EXCEPT ![Top.arg] = 0]
  /\ EventLocked(IF SignalCount[Top.arg] # 0 THEN Ready(Top) ELSE NotReady(Top))
  /\ UNCHANGED <<gEventPending, gEventQueue, gEventSignalQueue, live>>

(***************************************************************************)
(* CoreWaitForEvent: only at TPL_APPLICATION; check the events in turn and *)
(* signal the idle event after a round in which none was ready.            *)
(***************************************************************************)
WaitForEvent ==
  /\ Free
  /\ gEfiCurrentTpl = TPL_APPLICATION
  /\ WaitList # << >>
  /\ \A i \in 1..Len(WaitList) :
       MayUse(WaitList[i]) /\ EventType[WaitList[i]] # "signal"
  /\ stack' = SetTop([Called EXCEPT !.pc = "wait", !.idx = 1])
  /\ UNCHANGED <<tplVars, evtVars>>

WaitCheck ==
  /\ At("client", "wait")
  /\ Top.idx <= Len(WaitList)
  /\ CheckEvent(Top, WaitList[Top.idx])

\* Mutant: the index is not reset for the next round.
WaitIdle_NoReset ==
  /\ At("client", "wait")
  /\ Top.idx > Len(WaitList)
  /\ SignalEvent(Top, IdleEvent)

WaitIdle ==
  /\ At("client", "wait")
  /\ Top.idx > Len(WaitList)
  /\ SignalEvent([Top EXCEPT !.idx = 1], IdleEvent)

-----------------------------------------------------------------------------
(***************************************************************************)
(* CoreCloseEvent: cancel the timer (CoreSetTimer, under mEfiTimerLock),   *)
(* unlink the event under the event lock, then clear the signature and     *)
(* free the structure.  The pending bit of its level is left alone.        *)
(***************************************************************************)
CloseEvent(e) ==
  /\ Free
  /\ MayClose(e)
  /\ IF e \in TimerEvent
     THEN /\ Top.lvl <= TPL_TIMER
          /\ RaiseTpl(TPL_TIMER)
          /\ stack' = Append(SetTop([Called EXCEPT !.pc = "unlink", !.arg = e]),
                             Restore(gEfiCurrentTpl))
     ELSE /\ stack' = SetTop([Called EXCEPT !.pc = "unlink", !.arg = e])
          /\ UNCHANGED tplVars
  /\ UNCHANGED evtVars

\* Mutant: the event is taken off gEventSignalQueue but not off its queue.
CloseEventUnlink_LeftQueued ==
  /\ At("client", "unlink")
  /\ gEventSignalQueue' = RemoveEntry(gEventSignalQueue, Top.arg)
  /\ EventLocked([Top EXCEPT !.pc = "free"])
  /\ UNCHANGED <<gEventPending, gEventQueue, SignalCount, live>>

CloseEventUnlink ==
  /\ At("client", "unlink")
  /\ gEventQueue' = [t \in 0..TPL_HIGH_LEVEL |->
                       RemoveEntry(gEventQueue[t], Top.arg)]
  /\ gEventSignalQueue' = RemoveEntry(gEventSignalQueue, Top.arg)
  /\ EventLocked([Top EXCEPT !.pc = "free"])
  /\ UNCHANGED <<gEventPending, SignalCount, live>>

CloseEventFree ==
  /\ At("client", "free")
  /\ live' = live \ {Top.arg}
  /\ stack' = SetTop(Returned(Top))
  /\ UNCHANGED <<tplVars, gEventPending, gEventQueue, gEventSignalQueue,
                 SignalCount>>

-----------------------------------------------------------------------------
\* What the code on top of the stack does next.
Core ==
  \/ RestoreTest \/ RestoreHighBit \/ RestoreDispatch \/ RestoreExit
  \/ DispatchNext \/ DispatchCall \/ DispatchEmpty \/ DispatchReturn
  \/ InterruptReturn
  \/ NotifySignalList \/ NotifySignalListStep \/ NotifySignalListEnd
  \/ SignalRelock
  \/ CheckEventQueue \/ CheckEventTest \/ CheckEventClear
  \/ WaitCheck \/ WaitIdle
  \/ CloseEventUnlink \/ CloseEventFree

\* The calls a client chooses to make.
Call ==
  \/ \E new \in RaiseLevels : ClientRaiseTpl(new)
  \/ \E e \in Event : CreateEvent(e) \/ ClientSignalEvent(e)
                      \/ ClientCheckEvent(e) \/ CloseEvent(e)
  \/ ClientSetTimerNow
  \/ WaitForEvent

\* A client lowers the level it has raised, and a notification returns.
Unwind ==
  \/ \E new \in RaiseLevels \cup {Top.base} : ClientRestoreTpl(new)
  \/ NotifyReturn

Next == Core \/ Call \/ Unwind \/ TimerInterrupt

Spec == Init /\ [][Next]_vars

-----------------------------------------------------------------------------
(***************************************************************************)
(* Type correctness of the variables of Event.c and Tpl.c: the levels are  *)
(* levels, every list holds events, every record on the stack is one of    *)
(* the five kinds.                                                         *)
(***************************************************************************)
TypeOK ==
  /\ gEfiCurrentTpl \in 0..TPL_HIGH_LEVEL
  /\ interrupts \in BOOLEAN
  /\ gEventPending \subseteq 0..(TPL_HIGH_LEVEL - 1)
  /\ gEventQueue \in [0..TPL_HIGH_LEVEL -> Seq(Event)]
  /\ gEventSignalQueue \in Seq(Event)
  /\ SignalCount \in [Event -> {0, 1}]
  /\ live \subseteq Event
  /\ stack \in Seq(Frame)
  /\ stack # << >>

(***************************************************************************)
(* Task priorities exclude one another: while code holds a level, on the   *)
(* stack or in control, no notification function that was queued at that   *)
(* level or a lower one is entered (CoreRestoreTpl dispatches only levels  *)
(* above NewTpl).  This is what makes a TPL lock a lock.                   *)
(***************************************************************************)
TplExclusion ==
  \A i, j \in 1..Len(stack) :
    (i < j /\ stack[i].kind = "client" /\ stack[j].kind = "client")
      => stack[i].lvl < stack[j].base

(***************************************************************************)
(* Whatever ran in between (notifications, nested interrupts), code gets   *)
(* control back at the level it held; CoreDispatchEventNotifies in         *)
(* particular always takes the lock at its own Priority, which is its      *)
(* ASSERT (gEventQueueLock.OwnerTpl == Priority).                          *)
(***************************************************************************)
TplRestored ==
  Top.kind \in {"client", "dispatch", "irq"} => gEfiCurrentTpl = Top.lvl

(***************************************************************************)
(* Interrupts are off exactly at TPL_HIGH_LEVEL: a lock at that level is   *)
(* never interrupted, and no path of CoreRestoreTpl forgets to turn them   *)
(* on again.                                                               *)
(***************************************************************************)
InterruptsFollowTpl == interrupts <=> gEfiCurrentTpl < TPL_HIGH_LEVEL

(***************************************************************************)
(* Level and interrupt flag survive every nesting of notifications, locks  *)
(* and interrupts (CoreRaiseTpl, CoreRestoreTpl, TimerInterruptHandler).   *)
(***************************************************************************)
LevelsKept == TplRestored /\ InterruptsFollowTpl

(***************************************************************************)
(* A queued notification always has its level's bit in gEventPending, so   *)
(* CoreRestoreTpl cannot overlook it.  (A bit without a queued event is    *)
(* possible: CoreCloseEvent leaves one.)                                   *)
(***************************************************************************)
QueuedIsPending ==
  \A t \in 0..TPL_HIGH_LEVEL : gEventQueue[t] # << >> => t \in gEventPending

(***************************************************************************)
(* An event is queued at most once, and at its own NotifyTpl, however      *)
(* often it is signalled alone or through its group (CoreNotifyEvent       *)
(* unlinks it first).                                                      *)
(***************************************************************************)
QueuedOnce ==
  \A t \in 0..TPL_HIGH_LEVEL : \A i \in 1..Len(gEventQueue[t]) :
    /\ NotifyTpl[gEventQueue[t][i]] = t
    /\ \A j \in 1..Len(gEventQueue[t]) :
         gEventQueue[t][i] = gEventQueue[t][j] => i = j

(***************************************************************************)
(* The queues and gEventPending stay in step through CoreNotifyEvent,      *)
(* CoreDispatchEventNotifies and CoreCloseEvent: nothing that is queued is *)
(* overlooked, and nothing is notified twice for one signal.               *)
(***************************************************************************)
QueuesSound == QueuedIsPending /\ QueuedOnce

(***************************************************************************)
(* No signal is lost: an EVT_NOTIFY_SIGNAL event that is in the signalled  *)
(* state is queued, or a CoreSignalEvent call on the stack is about to     *)
(* queue its group, or it is being closed.  Otherwise no later SignalEvent *)
(* would ever queue it again, because SignalCount stays nonzero.           *)
(***************************************************************************)
SignalNotLost ==
  \A e \in live :
    (EventType[e] = "signal" /\ SignalCount[e] # 0)
      => \/ Queued(gEventQueue[NotifyTpl[e]], e)
         \/ \E i \in 1..Len(stack) :
              \/ /\ stack[i].kind = "client"
                 /\ stack[i].pc = "siglist"
                 /\ stack[i].arg = e
              \/ stack[i].kind = "list" /\ stack[i].ev = e
         \/ Closing(e)

(***************************************************************************)
(* No freed event is used: the queues hold live events, and so do          *)
(* CoreDispatchEventNotifies between dequeuing an event and calling its    *)
(* function, and CoreSignalEvent and CoreCheckEvent across the windows in  *)
(* which they have dropped the lock.                                       *)
(***************************************************************************)
NoStaleEvent ==
  /\ \A t \in 0..TPL_HIGH_LEVEL : \A i \in 1..Len(gEventQueue[t]) :
       gEventQueue[t][i] \in live
  /\ \A i \in 1..Len(gEventSignalQueue) : gEventSignalQueue[i] \in live
  /\ \A i \in 1..Len(stack) :
       /\ (stack[i].kind = "dispatch" /\ stack[i].pc = "call")
            => stack[i].ev \in live
       /\ stack[i].pc \in {"siglist", "queue", "check", "clear"}
            => stack[i].arg \in live

(***************************************************************************)
(* What the comment of CoreRestoreTpl says: "If the new priority unmasks   *)
(* events at a higher priority, they are dispatched".  When a client has   *)
(* control, nothing above its level is pending.                            *)
(***************************************************************************)
UnmaskedDispatched ==
  At("client", "run") => \A t \in gEventPending : t <= gEfiCurrentTpl

(***************************************************************************)
(* The level is a valid one: ASSERT (VALID_TPL (NewTpl)) and the test      *)
(* "RaiseTpl with OldTpl > NewTpl" of CoreRaiseTpl, which                  *)
(* CoreDispatchEventNotifies reaches through CoreAcquireEventLock.         *)
(***************************************************************************)
LevelValid == gEfiCurrentTpl <= TPL_HIGH_LEVEL

-----------------------------------------------------------------------------
(***************************************************************************)
(* Fairness.  The processor keeps executing the code on top of the stack,  *)
(* a notification function returns, and a client that raised the level     *)
(* lowers it again.  The interrupt controller keeps a tick pending until   *)
(* interrupts are on.  Ticks are far enough apart: interrupted code gets   *)
(* on outside the handler, and if ticks go on for ever, again and again    *)
(* one finds the application in control, its predecessors dealt with.      *)
(***************************************************************************)
InHandler == \E i \in 1..Len(stack) : stack[i].kind = "irq"
InApplication == Len(stack) = 1

Fairness ==
  /\ WF_vars(Core)
  /\ WF_vars(Unwind)
  /\ SF_vars(~InHandler /\ Core)
  /\ SF_vars(InApplication /\ Unwind)
  /\ SF_vars(TimerInterrupt)
  /\ []<><<TimerInterrupt>>_vars => []<><<InApplication /\ TimerInterrupt>>_vars

FairSpec == Spec /\ Fairness

(***************************************************************************)
(* Every queued notification is eventually taken off its queue (by         *)
(* CoreDispatchEventNotifies or by CoreCloseEvent).  It needs the ticks:   *)
(* a notification queued by a tick that hits CoreRestoreTpl just before it *)
(* returns waits for the next CoreRestoreTpl.                              *)
(***************************************************************************)
QueuedIsNotified ==
  \A e \in Event : Queued(gEventQueue[NotifyTpl[e]], e)
                     ~> ~Queued(gEventQueue[NotifyTpl[e]], e)

(***************************************************************************)
(* A signal that CoreWaitForEvent waits for does not stay unnoticed: the   *)
(* wait returns, or somebody else's CoreCheckEvent takes the signal.       *)
(***************************************************************************)
Waiting == stack[1].idx > 0
WaitNotices ==
  \A i \in 1..Len(WaitList) :
    (Waiting /\ SignalCount[WaitList[i]] # 0)
      ~> (~Waiting \/ SignalCount[WaitList[i]] = 0)
=============================================================================
