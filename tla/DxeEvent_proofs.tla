-------------------------- MODULE DxeEvent_proofs --------------------------
(***************************************************************************)
(* Proofs about the event and TPL services of the DXE core (DxeEvent). One *)
(* inductive invariant, IndInv, describes the call stack record by record; *)
(* there is one lemma per action of DxeEvent!Next, and the theorems at the *)
(* end read the properties off the invariant.  The theorems assume a build *)
(* that reads gEventPending once per iteration of CoreRestoreTpl's loop    *)
(* (~ReloadPending).                                                       *)
(***************************************************************************)
EXTENDS DxeEvent, SequenceTheorems, WellFoundedInduction, TLAPS

\* HighBitSet64 of a nonempty gEventPending is the highest pending level: the
\* PendingTpl of CoreRestoreTpl is in the mask, and below TPL_HIGH_LEVEL.
LEMMA HighBit ==
  ASSUME NEW mask, mask \subseteq 0..(TPL_HIGH_LEVEL - 1), mask # {}
  PROVE  HighBitSet64(mask) \in mask /\ \A u \in mask : u <= HighBitSet64(mask)
<1>1. \E t \in mask : \A u \in mask : u <= t
  <2> DEFINE T == {30 - u : u \in mask}
  <2>0. mask \subseteq 0..30
    BY DEF TPL_HIGH_LEVEL
  <2>1. T \subseteq Nat /\ T # {}
    <3>1. PICK u \in mask : TRUE OBVIOUS
    <3>2. 30 - u \in T OBVIOUS
    <3>3. ASSUME NEW v \in T PROVE v \in Nat
      <4>1. PICK z \in mask : v = 30 - z OBVIOUS
      <4> QED BY <4>1, <2>0
    <3> QED BY <3>2, <3>3
  <2> DEFINE R == OpToRel(<, Nat)
  <2>2. PICK x \in T : \A y \in T : ~(<<y, x>> \in R)
    <3> HIDE DEF R, T
    <3>1. IsWellFoundedOn(R, Nat) BY NatLessThanWellFounded DEF R
    <3> QED BY <2>1, <3>1, WFMin
  <2>3. PICK t \in mask : x = 30 - t
    OBVIOUS
  <2>4. \A u \in mask : u <= t
    <3> SUFFICES ASSUME NEW u \in mask PROVE u <= t OBVIOUS
    <3>1. 30 - u \in T /\ 30 - u \in Nat /\ x \in Nat BY <2>1
    <3>2. ~(30 - u < x)  BY <2>2, <3>1 DEF OpToRel
    <3> QED BY <2>3, <3>1, <3>2 DEF TPL_HIGH_LEVEL
  <2> QED BY <2>4
<1> QED BY <1>1 DEF HighBitSet64

-----------------------------------------------------------------------------
(***************************************************************************)
(* The records that hold a task priority level of their own: they run at   *)
(* the level lvl.  A CoreRestoreTpl record is on its way from a higher     *)
(* level to lvl, a CoreNotifySignalList record holds the event lock.       *)
(***************************************************************************)
Holders == {"client", "dispatch", "irq"}
InService == {"siglist", "relock", "queue", "check", "clear", "unlink", "free"}

(***************************************************************************)
(* One record: a client never goes below the level it was entered at (only *)
(* clients raise); events are dispatched and interrupts taken below        *)
(* TPL_HIGH_LEVEL only; the PendingTpl of CoreRestoreTpl is below          *)
(* TPL_HIGH_LEVEL; a service call has its event.                           *)
(***************************************************************************)
FrameOK(f) ==
  /\ f.base <= f.lvl /\ f.lvl <= TPL_HIGH_LEVEL
  /\ f.kind # "client" => f.lvl = f.base
  /\ f.kind \in {"dispatch", "irq"} => f.lvl < TPL_HIGH_LEVEL
  /\ f.kind = "restore" => f.idx < TPL_HIGH_LEVEL
  /\ f.kind = "list" => f.ev \in Event /\ f.idx >= 1
  /\ f.kind = "client" => /\ f.pc = "wait" => f.idx >= 1
                          /\ f.pc \in InService => f.arg \in Event

(***************************************************************************)
(* The levels rise along the stack, and a record that runs notifications   *)
(* is strictly above everything below it except the                        *)
(* CoreDispatchEventNotifies that called it.  TplExclusion is a            *)
(* consequence; it is not inductive alone, because what keeps a dispatch   *)
(* above the client under it is the record between them.                   *)
(***************************************************************************)
LevelsOK(s) ==
  \A i, j \in 1..Len(s) : i < j =>
    /\ s[i].lvl <= s[j].base
    /\ (s[j].kind \in {"dispatch", "client"} /\ s[i].kind # "dispatch")
         => s[i].lvl < s[j].base

(***************************************************************************)
(* Which record may lie directly on which: it says who gets control, and   *)
(* at which level, when g returns to f.                                    *)
(***************************************************************************)
Link(f, g) ==
  /\ g.kind \in {"restore", "list"} => f.kind \in Holders /\ g.lvl = f.lvl
  /\ g.kind = "irq" => /\ f.kind # "list"
                       /\ f.kind \in Holders => g.lvl = f.lvl
  /\ g.kind = "dispatch" => f.kind = "restore"
  /\ g.kind = "client" => f.kind = "dispatch" /\ g.base = f.lvl

\* The call stack as a whole: the application is at its bottom.
StackOK(s) ==
  /\ s \in Seq(Frame)
  /\ s # << >>
  /\ s[1].kind = "client" /\ s[1].ev = NoEvent
  /\ \A i \in 1..Len(s) : FrameOK(s[i])
  /\ LevelsOK(s)
  /\ \A j \in 2..Len(s) : Link(s[j - 1], s[j])

\* The level the running record finds in gEfiCurrentTpl.
LevelOf(f, cur) ==
  /\ f.kind \in Holders => cur = f.lvl
  /\ f.kind = "restore" => cur >= f.lvl
  /\ f.kind = "list" => cur = TPL_HIGH_LEVEL

\* Types of the variables of Event.c.
EvtTypeOK ==
  /\ gEventPending \subseteq 0..(TPL_HIGH_LEVEL - 1)
  /\ gEventQueue \in [0..TPL_HIGH_LEVEL -> Seq(Event)]
  /\ gEventSignalQueue \in Seq(Event)
  /\ SignalCount \in [Event -> {0, 1}]
  /\ live \subseteq Event

\* Types of the variables of Tpl.c, and the interrupt flag that follows the
\* level.
TplInv ==
  /\ gEfiCurrentTpl \in 0..TPL_HIGH_LEVEL
  /\ interrupts \in BOOLEAN
  /\ InterruptsFollowTpl

(***************************************************************************)
(* The inductive invariant.  The properties speak of clients only; the     *)
(* strengthening says what each CoreRestoreTpl, CoreDispatchEventNotifies, *)
(* CoreNotifySignalList and interrupt record between two clients           *)
(* guarantees.                                                             *)
(***************************************************************************)
IndInv ==
  /\ EvtTypeOK
  /\ TplInv
  /\ StackOK(stack)
  /\ LevelOf(Top, gEfiCurrentTpl)

-----------------------------------------------------------------------------
\* A well formed stack has a running record, and it is well formed.
LEMMA TopFacts ==
  ASSUME NEW s, StackOK(s)
  PROVE  /\ Len(s) \in Nat /\ Len(s) >= 1
         /\ s[Len(s)] \in Frame /\ FrameOK(s[Len(s)])
         /\ s \in Seq(Frame)
BY DEF StackOK

\* The running record may change its pc, its arguments and raise its level
\* without disturbing the stack below it (a step inside one function).
LEMMA SetTopOK ==
  ASSUME NEW s, StackOK(s), NEW f \in Frame, FrameOK(f),
         f.base = s[Len(s)].base,
         f.kind = s[Len(s)].kind \/ (s[Len(s)].kind = "list" /\ f.kind = "restore"),
         f.ev = s[Len(s)].ev \/ f.kind = "dispatch" \/ f.kind = "restore"
  PROVE  /\ StackOK([s EXCEPT ![Len(s)] = f])
         /\ Len([s EXCEPT ![Len(s)] = f]) = Len(s)
         /\ [s EXCEPT ![Len(s)] = f][Len(s)] = f
<1> DEFINE t == [s EXCEPT ![Len(s)] = f]
<1>1. /\ t \in Seq(Frame) /\ Len(t) = Len(s) /\ Len(s) \in Nat /\ Len(s) >= 1
      /\ t[Len(s)] = f
      /\ \A i \in 1..Len(s) : i # Len(s) => t[i] = s[i]
      /\ \A i \in 1..Len(s) : s[i] \in Frame
  BY DEF StackOK
<1>2. f.lvl \in Nat /\ f.base \in Nat /\ f.base <= f.lvl
  BY DEF Frame, FrameOK
<1> HIDE DEF t
<1>3. t # << >>
  BY <1>1
<1>4. t[1].kind = "client" /\ t[1].ev = NoEvent
  BY <1>1 DEF StackOK
<1>5. \A i \in 1..Len(t) : FrameOK(t[i])
  BY <1>1 DEF StackOK
<1>6. LevelsOK(t)
  <2> SUFFICES ASSUME NEW i \in 1..Len(t), NEW j \in 1..Len(t), i < j
               PROVE  /\ t[i].lvl <= t[j].base
                      /\ (t[j].kind \in {"dispatch", "client"} /\ t[i].kind # "dispatch")
                            => t[i].lvl < t[j].base
    BY DEF LevelsOK
  <2>1. t[i] = s[i] /\ i \in 1..Len(s) /\ j \in 1..Len(s)
    BY <1>1
  <2>2. t[j].base = s[j].base
        /\ (t[j].kind = s[j].kind \/ t[j].kind = "restore")
    BY <1>1
  <2> QED
    BY <2>1, <2>2 DEF StackOK, LevelsOK
<1>7. ASSUME NEW j \in 2..Len(t) PROVE Link(t[j - 1], t[j])
  <2>1. t[j - 1] = s[j - 1] /\ j \in 2..Len(s) /\ Link(s[j - 1], s[j])
    BY <1>1 DEF StackOK
  <2>2. CASE j # Len(s)
    BY <2>1, <2>2, <1>1
  <2>3. CASE j = Len(s)
    <3>1. t[j] = f /\ s[j] = s[Len(s)] /\ s[j] \in Frame /\ FrameOK(s[j])
      BY <1>1, <2>3 DEF StackOK
    <3>2. f.kind # "client" => f.lvl = s[j].lvl
      BY <3>1 DEF FrameOK
    <3> QED BY <2>1, <2>3, <3>1, <3>2 DEF Link
  <2> QED BY <2>2, <2>3
<1>8. StackOK(t)
  BY <1>1, <1>3, <1>4, <1>5, <1>6, <1>7 DEF StackOK
<1> QED BY <1>1, <1>8 DEF t

\* A call: a record whose level fits the levels below it may be pushed.
LEMMA PushOK ==
  ASSUME NEW s, StackOK(s), NEW f \in Frame, FrameOK(f), Link(s[Len(s)], f),
         s[Len(s)].lvl <= f.base,
         f.kind = "dispatch" => s[Len(s)].lvl < f.base
  PROVE  /\ StackOK(Append(s, f))
         /\ Len(Append(s, f)) = Len(s) + 1
         /\ Append(s, f)[Len(s) + 1] = f
<1> DEFINE t == Append(s, f)
<1>1. /\ t \in Seq(Frame) /\ Len(t) = Len(s) + 1 /\ Len(s) \in Nat /\ Len(s) >= 1
      /\ t[Len(s) + 1] = f
      /\ \A i \in 1..Len(s) : t[i] = s[i] /\ s[i] \in Frame
  BY DEF StackOK
<1>2. f.lvl \in Nat /\ f.base \in Nat /\ f.base <= f.lvl
  BY DEF Frame, FrameOK
<1> HIDE DEF t
<1>3. t # << >> /\ t[1].kind = "client" /\ t[1].ev = NoEvent
  BY <1>1 DEF StackOK
<1>5. \A i \in 1..Len(t) : FrameOK(t[i])
  BY <1>1 DEF StackOK
<1>6. LevelsOK(t)
  <2> SUFFICES ASSUME NEW i \in 1..Len(t), NEW j \in 1..Len(t), i < j
               PROVE  /\ t[i].lvl <= t[j].base
                      /\ (t[j].kind \in {"dispatch", "client"} /\ t[i].kind # "dispatch")
                            => t[i].lvl < t[j].base
    BY DEF LevelsOK
  <2>1. t[i] = s[i] /\ i \in 1..Len(s)
    BY <1>1
  <2>2. CASE j \in 1..Len(s)
    BY <2>1, <2>2, <1>1 DEF StackOK, LevelsOK
  <2>3. CASE j = Len(s) + 1
    <3>1. t[j] = f
      BY <1>1, <2>3
    <3>0. s[i] \in Frame /\ s[Len(s)] \in Frame /\ FrameOK(s[Len(s)])
      BY <2>1, <1>1 DEF StackOK
    <3>2. s[i].lvl \in Nat /\ s[Len(s)].lvl \in Nat /\ s[Len(s)].base \in Nat
      BY <3>0 DEF Frame
    <3>3. CASE i = Len(s)
      BY <3>1, <3>2, <3>3, <2>1 DEF Link
    <3>4. CASE i # Len(s)
      <4>1. /\ s[i].lvl <= s[Len(s)].base
            /\ (s[Len(s)].kind = "dispatch" /\ s[i].kind # "dispatch")
                  => s[i].lvl < s[Len(s)].base
        BY <3>4, <2>1, <1>1 DEF StackOK, LevelsOK
      <4>2. s[Len(s)].base <= s[Len(s)].lvl
        BY <3>0 DEF FrameOK
      <4> QED BY <4>1, <4>2, <3>1, <3>2, <2>1, <1>2 DEF Link
    <3> QED BY <3>3, <3>4
  <2> QED BY <2>2, <2>3, <1>1
<1>7. ASSUME NEW j \in 2..Len(t) PROVE Link(t[j - 1], t[j])
  <2>1. t[j - 1] = s[j - 1]
    BY <1>1
  <2>2. CASE j \in 2..Len(s)
    BY <2>1, <2>2, <1>1 DEF StackOK
  <2>3. CASE j = Len(s) + 1
    BY <2>1, <2>3, <1>1
  <2> QED BY <2>2, <2>3, <1>1
<1>8. StackOK(t)
  BY <1>1, <1>3, <1>5, <1>6, <1>7 DEF StackOK
<1> QED BY <1>1, <1>8 DEF t

\* A return: what is left of a well formed stack is well formed.
LEMMA PopOK ==
  ASSUME NEW s, StackOK(s), s[Len(s)].kind # "client" \/ s[Len(s)].ev # NoEvent
  PROVE  /\ Len(s) >= 2
         /\ StackOK(SubSeq(s, 1, Len(s) - 1))
         /\ Len(SubSeq(s, 1, Len(s) - 1)) = Len(s) - 1
         /\ SubSeq(s, 1, Len(s) - 1)[Len(s) - 1] = s[Len(s) - 1]
         /\ s[Len(s) - 1] \in Frame /\ FrameOK(s[Len(s) - 1])
         /\ Link(s[Len(s) - 1], s[Len(s)])
         /\ s[Len(s) - 1].lvl <= s[Len(s)].base
<1> DEFINE t == SubSeq(s, 1, Len(s) - 1)
<1>1. Len(s) \in Nat /\ Len(s) >= 2
  BY DEF StackOK
<1>2. /\ t \in Seq(Frame) /\ Len(t) = Len(s) - 1
      /\ \A i \in 1..Len(t) : t[i] = s[i] /\ s[i] \in Frame /\ i \in 1..Len(s)
  BY <1>1 DEF StackOK
<1> HIDE DEF t
<1>3. t # << >> /\ t[1].kind = "client" /\ t[1].ev = NoEvent
  BY <1>1, <1>2 DEF StackOK
<1>4. \A i \in 1..Len(t) : FrameOK(t[i])
  BY <1>2 DEF StackOK
<1>5. LevelsOK(t)
  BY <1>1, <1>2 DEF StackOK, LevelsOK
<1>6. \A j \in 2..Len(t) : Link(t[j - 1], t[j])
  BY <1>1, <1>2 DEF StackOK
<1>7. StackOK(t)
  BY <1>2, <1>3, <1>4, <1>5, <1>6 DEF StackOK
<1>8. /\ Link(s[Len(s) - 1], s[Len(s)])
      /\ s[Len(s) - 1].lvl <= s[Len(s)].base
      /\ s[Len(s) - 1] \in Frame /\ FrameOK(s[Len(s) - 1])
  BY <1>1 DEF StackOK, LevelsOK
<1> QED BY <1>1, <1>2, <1>7, <1>8 DEF t

-----------------------------------------------------------------------------
\* CoreRaiseTpl keeps the interrupt flag in step with the level.
LEMMA RaiseOK ==
  ASSUME TplInv, NEW new \in gEfiCurrentTpl..TPL_HIGH_LEVEL, RaiseTpl(new)
  PROVE  TplInv'
<1>1. gEfiCurrentTpl' \in 0..TPL_HIGH_LEVEL
  BY DEF TplInv, RaiseTpl, TPL_HIGH_LEVEL
<1>2. CASE new >= TPL_HIGH_LEVEL /\ gEfiCurrentTpl < TPL_HIGH_LEVEL
  <2>1. interrupts' = FALSE /\ ~(gEfiCurrentTpl' < TPL_HIGH_LEVEL)
    BY <1>2, <1>1 DEF RaiseTpl, TPL_HIGH_LEVEL
  <2> QED BY <1>1, <2>1 DEF TplInv, InterruptsFollowTpl
<1>3. CASE ~(new >= TPL_HIGH_LEVEL /\ gEfiCurrentTpl < TPL_HIGH_LEVEL)
  <2>1. interrupts' = interrupts
    BY <1>3 DEF RaiseTpl
  <2>2. (gEfiCurrentTpl' < TPL_HIGH_LEVEL) <=> (gEfiCurrentTpl < TPL_HIGH_LEVEL)
    BY <1>3 DEF RaiseTpl, TplInv, TPL_HIGH_LEVEL
  <2> QED BY <1>1, <2>1, <2>2 DEF TplInv, InterruptsFollowTpl
<1> QED BY <1>2, <1>3

\* A step that touches neither the level nor the interrupt flag keeps TplInv.
LEMMA TplUnchanged ==
  ASSUME TplInv, UNCHANGED tplVars
  PROVE  TplInv'
BY DEF TplInv, InterruptsFollowTpl, tplVars

\* Lowering the level the way CoreRestoreTpl does, interrupts on below
\* TPL_HIGH_LEVEL, keeps the flag in step with the level.
LEMMA EnableOK ==
  ASSUME TplInv, NEW new \in 0..TPL_HIGH_LEVEL,
         new <= gEfiCurrentTpl \/ new < TPL_HIGH_LEVEL,
         gEfiCurrentTpl' = new,
         interrupts' = (IF new < TPL_HIGH_LEVEL THEN TRUE ELSE interrupts)
  PROVE  TplInv'
<1>1. CASE new < TPL_HIGH_LEVEL
  <2>1. interrupts' = TRUE
    BY <1>1
  <2>2. gEfiCurrentTpl' < TPL_HIGH_LEVEL /\ gEfiCurrentTpl' \in 0..TPL_HIGH_LEVEL
    BY <1>1
  <2> QED BY <2>1, <2>2 DEF TplInv, InterruptsFollowTpl
<1>2. CASE ~(new < TPL_HIGH_LEVEL)
  <2>1. interrupts' = interrupts /\ gEfiCurrentTpl' = gEfiCurrentTpl
    BY <1>2 DEF TplInv, TPL_HIGH_LEVEL
  <2> QED BY <2>1, TplUnchanged DEF tplVars
<1> QED BY <1>1, <1>2

\* What the invariant says of the running record.
LEMMA TopInv ==
  ASSUME IndInv
  PROVE  /\ Top \in Frame /\ FrameOK(Top) /\ Len(stack) \in Nat /\ Len(stack) >= 1
         /\ StackOK(stack) /\ Top = stack[Len(stack)]
         /\ gEfiCurrentTpl \in 0..TPL_HIGH_LEVEL
         /\ Top.lvl \in Nat /\ Top.base \in Nat /\ Top.idx \in Nat
<1>1. Top \in Frame /\ FrameOK(Top) /\ Len(stack) \in Nat /\ Len(stack) >= 1
  BY TopFacts DEF IndInv, Top
<1> QED BY <1>1 DEF IndInv, TplInv, Top, Frame

\* The record of a fresh CoreRestoreTpl call is well formed.
LEMMA RestoreFrame ==
  ASSUME NEW tpl \in 0..TPL_HIGH_LEVEL
  PROVE  /\ Restore(tpl) \in Frame /\ FrameOK(Restore(tpl))
         /\ Restore(tpl).kind = "restore" /\ Restore(tpl).lvl = tpl
         /\ Restore(tpl).base = tpl
BY DEF Restore, Frame, FrameOK, Kinds, Pcs, TPL_HIGH_LEVEL

\* The record f replaces the running one, which keeps its level.
SameActivation(f) ==
  /\ f \in Frame /\ FrameOK(f)
  /\ f.kind = Top.kind /\ f.base = Top.base /\ f.lvl = Top.lvl
  /\ f.ev = Top.ev \/ f.kind = "dispatch"

\* A step inside one function, at one level, keeps the stack invariant.
LEMMA StepOK ==
  ASSUME IndInv, NEW f, SameActivation(f), stack' = SetTop(f), UNCHANGED tplVars
  PROVE  TplInv' /\ StackOK(stack)' /\ LevelOf(Top, gEfiCurrentTpl)'
<1>1. StackOK(stack') /\ stack'[Len(stack')] = f
  BY TopInv, SetTopOK DEF SameActivation, SetTop
<1>2. TplInv'
  BY DEF IndInv, TplInv, InterruptsFollowTpl, tplVars
<1>3. LevelOf(Top, gEfiCurrentTpl)'
  BY <1>1 DEF LevelOf, Top, IndInv, tplVars, SameActivation
<1> QED BY <1>1, <1>2, <1>3

\* Replace the running record and call CoreRestoreTpl for its own level.
LEMMA CallRestoreOK ==
  ASSUME IndInv, NEW f, SameActivation(f), Top.kind \in Holders,
         stack' = Append(SetTop(f), Restore(gEfiCurrentTpl)),
         gEfiCurrentTpl' >= gEfiCurrentTpl
  PROVE  StackOK(stack)' /\ LevelOf(Top, gEfiCurrentTpl)'
<1> DEFINE t == SetTop(f)
           r == Restore(gEfiCurrentTpl)
<1>1. StackOK(t) /\ t[Len(t)] = f
  BY TopInv, SetTopOK DEF SameActivation, SetTop
<1>2. r \in Frame /\ FrameOK(r) /\ r.kind = "restore" /\ r.lvl = gEfiCurrentTpl
      /\ r.base = gEfiCurrentTpl
  BY TopInv, RestoreFrame
<1>3. f.lvl = gEfiCurrentTpl /\ f.kind \in Holders
  BY DEF IndInv, LevelOf, SameActivation
<1>4. Link(t[Len(t)], r) /\ t[Len(t)].lvl <= r.base /\ r.kind # "dispatch"
  BY <1>1, <1>2, <1>3, TopInv DEF Link
<1>5. stack' = Append(t, r) /\ Len(t) \in Nat
  BY <1>1, TopFacts
<1> HIDE DEF t, r
<1>6. StackOK(stack') /\ stack'[Len(stack')] = r
  BY <1>1, <1>2, <1>4, <1>5, PushOK
<1>7. LevelOf(Top, gEfiCurrentTpl)'
  BY <1>6, <1>2 DEF LevelOf, Top, Holders
<1> QED BY <1>6, <1>7

\* CoreAcquireEventLock ... CoreReleaseEventLock keeps the stack invariant:
\* the release restores the level the caller held.
LEMMA LockedOK ==
  ASSUME IndInv, NEW f, SameActivation(f), Top.kind \in Holders, EventLocked(f)
  PROVE  TplInv' /\ StackOK(stack)' /\ LevelOf(Top, gEfiCurrentTpl)'
<1>0. gEfiCurrentTpl \in 0..TPL_HIGH_LEVEL
  BY TopInv
<1>1. gEfiCurrentTpl' >= gEfiCurrentTpl
  BY <1>0 DEF EventLocked, RaiseTpl, TPL_HIGH_LEVEL
<1>2. TplInv'
  <2>1. TPL_HIGH_LEVEL \in gEfiCurrentTpl..TPL_HIGH_LEVEL
    BY <1>0 DEF TPL_HIGH_LEVEL
  <2> QED BY <2>1, RaiseOK DEF EventLocked, IndInv
<1> QED BY <1>1, <1>2, CallRestoreOK DEF EventLocked

-----------------------------------------------------------------------------
\* RemoveEntryList leaves a list of events.
LEMMA RemoveEntryType ==
  ASSUME NEW q \in Seq(Event), NEW e
  PROVE  RemoveEntry(q, e) \in Seq(Event)
<1>1. CASE Queued(q, e)
  <2> DEFINE i == CHOOSE k \in 1..Len(q) : q[k] = e
             r == [k \in 1..(Len(q) - 1) |-> IF k < i THEN q[k] ELSE q[k + 1]]
  <2>1. Len(q) \in Nat /\ Len(q) >= 1 /\ i \in 1..Len(q)
    BY <1>1 DEF Queued
  <2>2. \A k \in 1..(Len(q) - 1) : q[k] \in Event /\ q[k + 1] \in Event
    BY <2>1
  <2> HIDE DEF i
  <2>3. r \in [1..(Len(q) - 1) -> Event] /\ Len(q) - 1 \in Nat
    BY <2>1, <2>2
  <2>4. r \in Seq(Event)
    BY <2>3, SeqDef
  <2> QED BY <1>1, <2>4 DEF RemoveEntry, i
<1>2. CASE ~Queued(q, e)
  BY <1>2 DEF RemoveEntry
<1> QED BY <1>1, <1>2

\* CoreNotifyEvent keeps the types of the queues and of gEventPending.
LEMMA NotifyType ==
  ASSUME EvtTypeOK, NEW e \in Event, NotifyEvent(e)
  PROVE  /\ gEventQueue' \in [0..TPL_HIGH_LEVEL -> Seq(Event)]
         /\ gEventPending' \subseteq 0..(TPL_HIGH_LEVEL - 1)
<1>1. NotifyTpl[e] \in 0..(TPL_HIGH_LEVEL - 1)
  BY EventAssumption DEF ValidNotifyTpl, TPL_HIGH_LEVEL, TPL_APPLICATION
<1>2. gEventQueue[NotifyTpl[e]] \in Seq(Event)
  <2>1. NotifyTpl[e] \in 0..TPL_HIGH_LEVEL
    BY EventAssumption
  <2> QED BY <2>1 DEF EvtTypeOK
<1>3. Append(RemoveEntry(gEventQueue[NotifyTpl[e]], e), e) \in Seq(Event)
  BY <1>2, RemoveEntryType
<1> QED BY <1>1, <1>3 DEF NotifyEvent, EvtTypeOK

\* A step that leaves the variables of Event.c alone keeps their types.
LEMMA EvtUnchanged ==
  ASSUME EvtTypeOK, UNCHANGED evtVars
  PROVE  EvtTypeOK'
BY DEF EvtTypeOK, evtVars

\* The three parts of the invariant are preserved separately.
LEMMA Combine ==
  ASSUME EvtTypeOK', TplInv', StackOK(stack)', LevelOf(Top, gEfiCurrentTpl)'
  PROVE  IndInv'
BY DEF IndInv

\* Counting down the calls of a notification function keeps its record well
\* formed.
LEMMA CalledOK ==
  ASSUME IndInv, Running
  PROVE  /\ Called \in Frame /\ FrameOK(Called) /\ SameActivation(Called)
         /\ Called.kind = "client" /\ Called.pc = "run" /\ Top.kind = "client"
<1>1. Top \in Frame /\ FrameOK(Top) /\ Top.kind = "client" /\ Top.pc = "run"
  BY TopInv DEF Running, At
<1>2. Top.ev # NoEvent => Top.left > 0
  BY DEF Running
<1>3. Called \in Frame
  BY <1>1, <1>2 DEF Called, Frame
<1>4. FrameOK(Called)
  BY <1>1 DEF Called, FrameOK, Frame
<1>5. SameActivation(Called)
  BY <1>1, <1>3, <1>4 DEF Called, SameActivation, Frame
<1> QED BY <1>1, <1>3, <1>4, <1>5 DEF Called, Frame

-----------------------------------------------------------------------------
\* CoreRestoreTpl goes on to another statement with another PendingTpl.
LEMMA PcIdx ==
  ASSUME Top \in Frame, FrameOK(Top), Top.kind = "restore",
         NEW p \in Pcs, NEW n \in Nat, n < TPL_HIGH_LEVEL
  PROVE  /\ SameActivation([Top EXCEPT !.pc = p, !.idx = n])
         /\ [Top EXCEPT !.pc = p, !.idx = n].kind = "restore"
<1> DEFINE f == [Top EXCEPT !.pc = p, !.idx = n]
<1>1. f \in Frame
  BY DEF Frame
<1>2. /\ f.pc = p /\ f.idx = n /\ f.kind = Top.kind /\ f.lvl = Top.lvl
      /\ f.base = Top.base /\ f.ev = Top.ev /\ f.arg = Top.arg
  BY DEF Frame
<1> HIDE DEF f
<1>3. FrameOK(f)
  BY <1>2 DEF FrameOK
<1> QED BY <1>1, <1>2, <1>3 DEF SameActivation, f

\* CoreRestoreTpl's loop test keeps the invariant.
LEMMA RestoreTestOK ==
  ASSUME IndInv, RestoreTest PROVE IndInv'
<1> DEFINE f == IF gEventPending = {}
                THEN [Top EXCEPT !.pc = "act", !.idx = 0]
                ELSE [Top EXCEPT !.pc = "high", !.idx = HighBitSet64(gEventPending)]
<1>1. Top \in Frame /\ FrameOK(Top) /\ Top.kind = "restore"
  BY TopInv DEF RestoreTest, At
<1>2. gEventPending # {} => HighBitSet64(gEventPending) \in 0..(TPL_HIGH_LEVEL - 1)
  BY HighBit DEF IndInv, EvtTypeOK
<1>3. ASSUME gEventPending = {} PROVE SameActivation(f)
  <2>1. "act" \in Pcs /\ 0 \in Nat /\ 0 < TPL_HIGH_LEVEL
    BY DEF Pcs, TPL_HIGH_LEVEL
  <2>2. SameActivation([Top EXCEPT !.pc = "act", !.idx = 0])
    BY <1>1, <2>1, PcIdx, Zenon
  <2> QED BY <1>3, <2>2
<1>4. ASSUME gEventPending # {} PROVE SameActivation(f)
  <2> DEFINE n == HighBitSet64(gEventPending)
  <2>1. "high" \in Pcs /\ n \in Nat /\ n < TPL_HIGH_LEVEL
    BY <1>2, <1>4 DEF Pcs, TPL_HIGH_LEVEL
  <2>2. SameActivation([Top EXCEPT !.pc = "high", !.idx = n])
    <3> HIDE DEF n
    <3> QED BY <1>1, <2>1, PcIdx, Zenon
  <2> QED BY <1>4, <2>2
<1>5. SameActivation(f)
  BY <1>3, <1>4
<1>6. stack' = SetTop(f) /\ UNCHANGED tplVars /\ UNCHANGED evtVars
  BY DEF RestoreTest
<1> HIDE DEF f
<1> QED BY <1>5, <1>6, StepOK, EvtUnchanged, Combine DEF IndInv

\* CoreRestoreTpl's HighBitSet64 keeps the invariant when the build does not
\* read gEventPending a second time: with a second read PendingTpl may be the
\* largest UINTN (LevelValid fails).
LEMMA RestoreHighBitOK ==
  ASSUME IndInv, ~ReloadPending, RestoreHighBit PROVE IndInv'
<1> DEFINE f == [Top EXCEPT !.pc = "act", !.idx = IF ReloadPending
                               THEN HighBitSet64(gEventPending) ELSE @]
<1>1. Top \in Frame /\ FrameOK(Top)
  BY TopInv
<1>3. f \in Frame /\ FrameOK(f)
  BY <1>1 DEF Frame, Pcs, FrameOK, InService
<1>5. SameActivation(f)
  BY <1>1, <1>3 DEF SameActivation, Frame
<1>6. stack' = SetTop(f) /\ UNCHANGED tplVars /\ UNCHANGED evtVars
  BY DEF RestoreHighBit
<1> HIDE DEF f
<1> QED BY <1>5, <1>6, StepOK, EvtUnchanged, Combine DEF IndInv

\* CoreRestoreTpl enters CoreDispatchEventNotifies strictly above NewTpl, and
\* so strictly above every record below it.
LEMMA RestoreDispatchOK ==
  ASSUME IndInv, RestoreDispatch PROVE IndInv'
<1> DEFINE f == [Top EXCEPT !.pc = "test", !.idx = 0]
           d == Dispatch(Top.idx)
           t == SetTop(f)
<1>1. /\ Top \in Frame /\ FrameOK(Top) /\ Top.kind = "restore"
      /\ Top.idx \in Nat /\ Top.lvl \in Nat /\ Top.idx > Top.lvl
      /\ Top.idx < TPL_HIGH_LEVEL /\ Top.base = Top.lvl
  BY TopInv DEF RestoreDispatch, At, FrameOK
<1>2. f \in Frame /\ FrameOK(f) /\ f.lvl = Top.lvl /\ f.kind = "restore"
      /\ f.base = Top.base /\ f.ev = Top.ev
  <2>0. "test" \in Pcs /\ 0 \in Nat /\ 0 < TPL_HIGH_LEVEL
    BY DEF Pcs, TPL_HIGH_LEVEL
  <2>1. SameActivation(f) /\ f.kind = "restore"
    BY <1>1, <2>0, PcIdx, Zenon
  <2> HIDE DEF f
  <2> QED BY <2>1, <1>1 DEF SameActivation
<1>3. d \in Frame /\ FrameOK(d) /\ d.kind = "dispatch" /\ d.base = Top.idx
      /\ d.lvl = Top.idx
  BY <1>1 DEF Dispatch, Frame, FrameOK, Kinds, Pcs, TPL_HIGH_LEVEL
<1>4. StackOK(t) /\ t[Len(t)] = f
  <2> HIDE DEF f
  <2> QED BY <1>1, <1>2, TopInv, SetTopOK DEF SetTop
<1>5. stack' = Append(t, d) /\ Len(t) \in Nat /\ gEfiCurrentTpl' = Top.idx
  BY <1>4, TopFacts DEF RestoreDispatch
<1>6. Link(f, d)
  BY <1>2, <1>3 DEF Link
<1> HIDE DEF f, d, t
<1>7. StackOK(stack') /\ stack'[Len(stack')] = d
  BY <1>1, <1>2, <1>3, <1>4, <1>5, <1>6, PushOK
<1>8. LevelOf(Top, gEfiCurrentTpl)'
  BY <1>3, <1>5, <1>7 DEF LevelOf, Top
<1>9. TplInv'
  <2>1. Top.idx \in 0..TPL_HIGH_LEVEL
    BY <1>1 DEF TPL_HIGH_LEVEL
  <2> QED BY <1>1, <2>1, EnableOK DEF RestoreDispatch, IndInv
<1> QED BY <1>7, <1>8, <1>9, EvtUnchanged, Combine DEF IndInv, RestoreDispatch

\* CoreRestoreTpl returns at NewTpl, the level of the record it returns to.
LEMMA RestoreExitOK ==
  ASSUME IndInv, RestoreExit PROVE IndInv'
<1> DEFINE g == stack[Len(stack) - 1]
<1>1. /\ Top.kind = "restore" /\ Top.lvl \in Nat /\ Top.lvl <= TPL_HIGH_LEVEL
      /\ StackOK(stack) /\ Top = stack[Len(stack)] /\ Len(stack) \in Nat
      /\ gEfiCurrentTpl \in 0..TPL_HIGH_LEVEL
  BY TopInv DEF RestoreExit, At, FrameOK
<1>2. /\ StackOK(stack') /\ stack'[Len(stack')] = g /\ Link(g, Top)
  BY <1>1, PopOK DEF RestoreExit, Below
<1>3. g.kind \in Holders /\ g.lvl = Top.lvl /\ gEfiCurrentTpl' = Top.lvl
  BY <1>1, <1>2 DEF Link, RestoreExit
<1>4. LevelOf(Top, gEfiCurrentTpl)'
  BY <1>2, <1>3 DEF LevelOf, Top, Holders
<1>5. TplInv'
  <2>1. Top.lvl \in 0..TPL_HIGH_LEVEL /\ Top.lvl <= gEfiCurrentTpl
    BY <1>1 DEF IndInv, LevelOf
  <2> QED BY <2>1, EnableOK DEF RestoreExit, IndInv
<1> QED BY <1>2, <1>4, <1>5, EvtUnchanged, Combine DEF IndInv, RestoreExit

-----------------------------------------------------------------------------
\* CoreDispatchEventNotifies changes its pc and its event, not its level.
LEMMA DispatchPc ==
  ASSUME Top \in Frame, FrameOK(Top), Top.kind = "dispatch",
         NEW p \in Pcs, NEW e \in Event \cup {NoEvent}
  PROVE  /\ SameActivation([Top EXCEPT !.pc = p, !.ev = e])
         /\ SameActivation([Top EXCEPT !.pc = p])
<1>1. ASSUME NEW f \in Frame, f.kind = Top.kind, f.lvl = Top.lvl, f.base = Top.base
      PROVE SameActivation(f)
  <2>1. FrameOK(f)
    BY <1>1 DEF FrameOK
  <2> QED BY <1>1, <2>1 DEF SameActivation
<1>2. [Top EXCEPT !.pc = p, !.ev = e] \in Frame /\ [Top EXCEPT !.pc = p] \in Frame
  BY DEF Frame
<1>3. /\ [Top EXCEPT !.pc = p, !.ev = e].kind = Top.kind
      /\ [Top EXCEPT !.pc = p, !.ev = e].lvl = Top.lvl
      /\ [Top EXCEPT !.pc = p, !.ev = e].base = Top.base
      /\ [Top EXCEPT !.pc = p].kind = Top.kind
      /\ [Top EXCEPT !.pc = p].lvl = Top.lvl
      /\ [Top EXCEPT !.pc = p].base = Top.base
  BY DEF Frame
<1> QED BY <1>1, <1>2, <1>3, Zenon

\* Dequeuing a notification under the lock keeps the invariant.
LEMMA DispatchNextOK ==
  ASSUME IndInv, DispatchNext PROVE IndInv'
<1> DEFINE q == gEventQueue[Top.lvl]
           e == Head(q)
           f == [Top EXCEPT !.pc = "call", !.ev = e]
<1>0. Top \in Frame /\ FrameOK(Top) /\ Top.kind = "dispatch" /\ Top.lvl \in Nat
  BY TopInv DEF DispatchNext, At
<1>1. /\ Top \in Frame /\ FrameOK(Top) /\ Top.kind = "dispatch"
      /\ Top.lvl \in 0..TPL_HIGH_LEVEL
  BY <1>0 DEF FrameOK, TPL_HIGH_LEVEL
<1>2. q \in Seq(Event) /\ q # << >>
  BY <1>1 DEF IndInv, EvtTypeOK, DispatchNext
<1>3. e \in Event /\ Tail(q) \in Seq(Event)
  BY <1>2
<1>4. SameActivation(f) /\ Top.kind \in Holders
  <2>1. "call" \in Pcs /\ e \in Event \cup {NoEvent}
    BY <1>3 DEF Pcs
  <2>2. SameActivation(f)
    <3> HIDE DEF e
    <3> QED BY <1>1, <2>1, DispatchPc, Zenon
  <2> QED BY <1>1, <2>2 DEF Holders
<1>5. EventLocked(f)
  BY DEF DispatchNext
<1>6. EvtTypeOK'
  <2>1. gEventQueue' = [gEventQueue EXCEPT ![Top.lvl] = Tail(q)]
        /\ gEventPending' = gEventPending /\ gEventSignalQueue' = gEventSignalQueue
        /\ live' = live
        /\ SignalCount' = IF EventType[e] = "signal"
                          THEN [SignalCount EXCEPT ![e] = 0] ELSE SignalCount
    BY DEF DispatchNext
  <2> HIDE DEF q, e
  <2>2. SignalCount' \in [Event -> {0, 1}]
    BY <2>1, <1>3 DEF IndInv, EvtTypeOK
  <2>3. gEventQueue' \in [0..TPL_HIGH_LEVEL -> Seq(Event)]
    BY <2>1, <1>1, <1>3 DEF IndInv, EvtTypeOK
  <2> QED BY <2>1, <2>2, <2>3 DEF IndInv, EvtTypeOK
<1> HIDE DEF f
<1> QED BY <1>4, <1>5, <1>6, LockedOK, Combine

\* Calling NotifyFunction at Priority keeps the invariant.
LEMMA DispatchCallOK ==
  ASSUME IndInv, DispatchCall PROVE IndInv'
<1> DEFINE f == [Top EXCEPT !.pc = "next", !.ev = NoEvent]
           c == Client(gEfiCurrentTpl, Top.ev)
           t == SetTop(f)
<1>1. /\ Top \in Frame /\ FrameOK(Top) /\ Top.kind = "dispatch"
      /\ Top.ev \in Event \cup {NoEvent} /\ gEfiCurrentTpl \in 0..TPL_HIGH_LEVEL
      /\ StackOK(stack) /\ Top = stack[Len(stack)]
  BY TopInv DEF DispatchCall, At, Frame
<1>2. gEfiCurrentTpl = Top.lvl
  BY <1>1 DEF IndInv, LevelOf, Holders
<1>3. SameActivation(f)
  <2>1. "next" \in Pcs /\ NoEvent \in Event \cup {NoEvent}
    BY DEF Pcs
  <2> QED BY <1>1, <2>1, DispatchPc, Zenon
<1>4. c \in Frame /\ c.kind = "client" /\ c.base = gEfiCurrentTpl
      /\ c.lvl = gEfiCurrentTpl /\ c.pc = "run"
  BY <1>1, ClientAssumption DEF Client, Frame, Kinds, Pcs
<1> HIDE DEF f, c
<1>5. FrameOK(c)
  BY <1>1, <1>4 DEF FrameOK, InService
<1>6. StackOK(t) /\ t[Len(t)] = f
  BY <1>1, <1>3, SetTopOK DEF SetTop, SameActivation
<1>7. stack' = Append(t, c) /\ Len(t) \in Nat /\ UNCHANGED <<tplVars, evtVars>>
  BY <1>6, TopFacts DEF DispatchCall, f, c
<1>8. Link(f, c) /\ f.lvl <= c.base
  BY <1>1, <1>2, <1>3, <1>4 DEF Link, SameActivation
<1> HIDE DEF t
<1>9. StackOK(stack') /\ stack'[Len(stack')] = c
  BY <1>4, <1>5, <1>6, <1>7, <1>8, PushOK
<1>10. LevelOf(Top, gEfiCurrentTpl)'
  BY <1>4, <1>7, <1>9 DEF LevelOf, Top, tplVars
<1> QED BY <1>7, <1>9, <1>10, EvtUnchanged, TplUnchanged, Combine DEF IndInv

\* Clearing the pending bit of an empty queue keeps the invariant.
LEMMA DispatchEmptyOK ==
  ASSUME IndInv, DispatchEmpty PROVE IndInv'
<1> DEFINE f == [Top EXCEPT !.pc = "done"]
<1>1. Top \in Frame /\ FrameOK(Top) /\ Top.kind = "dispatch"
  BY TopInv DEF DispatchEmpty, At
<1>2. SameActivation(f) /\ Top.kind \in Holders
  <2>1. "done" \in Pcs /\ NoEvent \in Event \cup {NoEvent}
    BY DEF Pcs
  <2>2. SameActivation(f)
    BY <1>1, <2>1, DispatchPc, Zenon
  <2> QED BY <1>1, <2>2 DEF Holders
<1>3. EvtTypeOK'
  BY DEF IndInv, EvtTypeOK, DispatchEmpty
<1>4. EventLocked(f)
  BY DEF DispatchEmpty
<1> HIDE DEF f
<1> QED BY <1>2, <1>3, <1>4, LockedOK, Combine

\* A record returns to the one below it, which finds its own level.
LEMMA ReturnOK ==
  ASSUME IndInv, stack' = Below, Top.kind \in {"dispatch", "irq", "client"},
         Top.kind = "client" => Top.ev # NoEvent /\ Top.lvl = Top.base,
         gEfiCurrentTpl' = gEfiCurrentTpl
  PROVE  StackOK(stack)' /\ LevelOf(Top, gEfiCurrentTpl)'
<1> DEFINE g == stack[Len(stack) - 1]
<1>1. /\ Top \in Frame /\ FrameOK(Top)
      /\ StackOK(stack) /\ Top = stack[Len(stack)] /\ Len(stack) \in Nat
      /\ gEfiCurrentTpl \in 0..TPL_HIGH_LEVEL
  BY TopInv
<1>2. /\ StackOK(stack') /\ stack'[Len(stack')] = g /\ Link(g, Top)
      /\ g.lvl <= Top.base /\ g \in Frame
  BY <1>1, PopOK DEF Below
<1>3. gEfiCurrentTpl = Top.lvl
  BY DEF IndInv, LevelOf, Holders
<1>4. Top.lvl \in Nat /\ g.lvl \in Nat /\ Top.base \in Nat /\ Top.base <= Top.lvl
  BY <1>1, <1>2 DEF Frame, FrameOK
<1> HIDE DEF g
<1>5. LevelOf(g, gEfiCurrentTpl)
  BY <1>1, <1>2, <1>3, <1>4 DEF LevelOf, Link, Holders
<1> QED BY <1>2, <1>5 DEF Top

\* CoreDispatchEventNotifies returns to the CoreRestoreTpl that called it.
LEMMA DispatchReturnOK ==
  ASSUME IndInv, DispatchReturn PROVE IndInv'
BY ReturnOK, TplUnchanged, EvtUnchanged, Combine DEF DispatchReturn, At, IndInv, tplVars

\* A notification function returns at the level it was called at.
LEMMA NotifyReturnOK ==
  ASSUME IndInv, NotifyReturn PROVE IndInv'
BY ReturnOK, TplUnchanged, EvtUnchanged, Combine DEF NotifyReturn, At, IndInv, tplVars

\* The timer interrupt handler returns to the interrupted record at the
\* interrupted level.
LEMMA InterruptReturnOK ==
  ASSUME IndInv, InterruptReturn PROVE IndInv'
<1>1. Top.kind = "irq" /\ FrameOK(Top)
  BY TopInv DEF InterruptReturn
<1>2. gEfiCurrentTpl = Top.lvl /\ Top.lvl < TPL_HIGH_LEVEL
  BY <1>1 DEF IndInv, LevelOf, Holders, FrameOK
<1>3. interrupts' = TRUE /\ gEfiCurrentTpl' = gEfiCurrentTpl
  BY DEF InterruptReturn
<1>4. gEfiCurrentTpl' < TPL_HIGH_LEVEL /\ gEfiCurrentTpl' \in 0..TPL_HIGH_LEVEL
  BY <1>2, <1>3 DEF IndInv, TplInv
<1>5. TplInv'
  BY <1>3, <1>4 DEF TplInv, InterruptsFollowTpl
<1> QED BY <1>1, <1>3, <1>5, ReturnOK, EvtUnchanged, Combine DEF InterruptReturn, IndInv

\* The record of a fresh interrupt is well formed below TPL_HIGH_LEVEL.
LEMMA IrqFrame ==
  ASSUME NEW tpl \in 0..TPL_HIGH_LEVEL
  PROVE  /\ Irq(tpl) \in Frame /\ Irq(tpl).kind = "irq"
         /\ Irq(tpl).lvl = tpl /\ Irq(tpl).base = tpl
BY DEF Irq, Frame, Kinds, Pcs, TPL_HIGH_LEVEL

\* A tick, wherever it strikes, keeps the invariant: interrupts are on, so
\* the level is below TPL_HIGH_LEVEL and no list record is running.
LEMMA TimerInterruptOK ==
  ASSUME IndInv, TimerInterrupt PROVE IndInv'
<1> DEFINE c == gEfiCurrentTpl
           g == Irq(c)
           r == Restore(c)
           t == Append(stack, g)
<1>1. /\ Top \in Frame /\ FrameOK(Top) /\ StackOK(stack) /\ Top = stack[Len(stack)]
      /\ c \in 0..TPL_HIGH_LEVEL /\ Top.lvl \in Nat /\ Top.base \in Nat
  BY TopInv
<1>2. c < TPL_HIGH_LEVEL
  <2>1. interrupts BY DEF TimerInterrupt
  <2> QED BY <2>1 DEF IndInv, TplInv, InterruptsFollowTpl
<1>3. g \in Frame /\ g.kind = "irq" /\ g.lvl = c /\ g.base = c
  BY <1>1, IrqFrame
<1>4. r \in Frame /\ FrameOK(r) /\ r.kind = "restore" /\ r.lvl = c /\ r.base = c
  BY <1>1, RestoreFrame
<1>5. stack' = Append(t, r) /\ RaiseTpl(TPL_HIGH_LEVEL)
  BY DEF TimerInterrupt, Push
<1> HIDE DEF g, r
<1>6. FrameOK(g)
  BY <1>1, <1>2, <1>3 DEF FrameOK
<1>7. Link(Top, g) /\ Top.lvl <= g.base
  BY <1>1, <1>2, <1>3 DEF Link, IndInv, LevelOf, Holders, Frame, Kinds
<1>8. StackOK(t) /\ t[Len(t)] = g /\ Len(t) \in Nat
  <2>1. g.kind # "dispatch"
    BY <1>3
  <2>2. StackOK(t) /\ Len(t) = Len(stack) + 1 /\ t[Len(stack) + 1] = g
    BY <1>1, <1>3, <1>6, <1>7, <2>1, PushOK
  <2> QED BY <2>2, TopFacts
<1>9. Link(g, r) /\ g.lvl <= r.base /\ r.kind # "dispatch"
  BY <1>1, <1>3, <1>4 DEF Link, Holders, TPL_HIGH_LEVEL
<1> HIDE DEF t
<1>10. StackOK(stack') /\ stack'[Len(stack')] = r
  BY <1>4, <1>5, <1>8, <1>9, PushOK
<1>11. gEfiCurrentTpl' = TPL_HIGH_LEVEL
  BY <1>5 DEF RaiseTpl
<1>12. LevelOf(Top, gEfiCurrentTpl)'
  BY <1>1, <1>4, <1>10, <1>11 DEF LevelOf, Top, Holders, TPL_HIGH_LEVEL
<1>13. TplInv'
  <2>1. TPL_HIGH_LEVEL \in gEfiCurrentTpl..TPL_HIGH_LEVEL
    BY <1>1 DEF TPL_HIGH_LEVEL
  <2> QED BY <2>1, <1>5, RaiseOK DEF IndInv
<1>14. EvtTypeOK'
  <2>1. PICK due \in BOOLEAN :
          IF due /\ SignalCount[CheckTimerEvent] = 0
          THEN /\ SignalCount' = [SignalCount EXCEPT ![CheckTimerEvent] = 1]
               /\ NotifyEvent(CheckTimerEvent)
          ELSE UNCHANGED <<SignalCount, gEventQueue, gEventPending>>
    BY DEF TimerInterrupt
  <2>2. UNCHANGED <<gEventSignalQueue, live>>
    BY DEF TimerInterrupt
  <2>3. CASE due /\ SignalCount[CheckTimerEvent] = 0
    BY <2>1, <2>2, <2>3, NotifyType, EventAssumption DEF IndInv, EvtTypeOK
  <2>4. CASE ~(due /\ SignalCount[CheckTimerEvent] = 0)
    BY <2>1, <2>2, <2>4 DEF IndInv, EvtTypeOK
  <2> QED BY <2>3, <2>4
<1> QED BY <1>10, <1>12, <1>13, <1>14, Combine

-----------------------------------------------------------------------------
\* A client record may change pc, arg and idx within a service call.
LEMMA ClientUpdate ==
  ASSUME NEW f, SameActivation(f), f.kind = "client",
         NEW p \in Pcs, NEW a \in Event \cup {NoEvent},
         p = "wait" => f.idx >= 1,
         p \in InService => a \in Event
  PROVE  SameActivation([f EXCEPT !.pc = p, !.arg = a])
<1> DEFINE g == [f EXCEPT !.pc = p, !.arg = a]
<1>1. g \in Frame
  BY DEF SameActivation, Frame
<1>2. /\ g.pc = p /\ g.arg = a /\ g.idx = f.idx /\ g.kind = f.kind
      /\ g.lvl = f.lvl /\ g.base = f.base /\ g.ev = f.ev
  BY DEF SameActivation, Frame
<1> HIDE DEF g
<1>3. FrameOK(g)
  BY <1>2 DEF SameActivation, FrameOK
<1>4. SameActivation(g)
  BY <1>1, <1>2, <1>3 DEF SameActivation
<1> QED BY <1>4 DEF g

\* The same for pc and arg alone.
LEMMA ClientPc ==
  ASSUME NEW f, SameActivation(f), f.kind = "client",
         NEW p \in Pcs, p = "wait" => f.idx >= 1, p \in InService => f.arg \in Event
  PROVE  SameActivation([f EXCEPT !.pc = p])
<1> DEFINE g == [f EXCEPT !.pc = p]
<1>1. g \in Frame
  BY DEF SameActivation, Frame
<1>2. /\ g.pc = p /\ g.arg = f.arg /\ g.idx = f.idx /\ g.kind = f.kind
      /\ g.lvl = f.lvl /\ g.base = f.base /\ g.ev = f.ev
  BY DEF SameActivation, Frame
<1> HIDE DEF g
<1>3. FrameOK(g)
  BY <1>2 DEF SameActivation, FrameOK
<1>4. SameActivation(g)
  BY <1>1, <1>2, <1>3 DEF SameActivation
<1> QED BY <1>4 DEF g

\* The same for the position of CoreWaitForEvent in its array.
LEMMA ClientIdx ==
  ASSUME NEW f, SameActivation(f), f.kind = "client",
         NEW n \in Nat, f.pc = "wait" => n >= 1
  PROVE  /\ SameActivation([f EXCEPT !.idx = n])
         /\ [f EXCEPT !.idx = n].kind = "client"
         /\ [f EXCEPT !.idx = n].idx = n
<1> DEFINE g == [f EXCEPT !.idx = n]
<1>1. g \in Frame
  BY DEF SameActivation, Frame
<1>2. /\ g.pc = f.pc /\ g.arg = f.arg /\ g.idx = n /\ g.kind = f.kind
      /\ g.lvl = f.lvl /\ g.base = f.base /\ g.ev = f.ev
  BY DEF SameActivation, Frame
<1> HIDE DEF g
<1>3. FrameOK(g)
  BY <1>2 DEF SameActivation, FrameOK
<1>4. SameActivation(g)
  BY <1>1, <1>2, <1>3 DEF SameActivation
<1> QED BY <1>2, <1>4 DEF g

\* Returning from a service leaves a well formed client record.
LEMMA ReturnedOK ==
  ASSUME NEW f, SameActivation(f), f.kind = "client"
  PROVE  SameActivation(Returned(f))
<1> DEFINE p == IF f.idx = 0 THEN "run" ELSE "wait"
<1>1. f.idx \in Nat
  BY DEF SameActivation, Frame
<1>2. p \in Pcs /\ (p = "wait" => f.idx >= 1) /\ p \notin InService
  BY <1>1 DEF Pcs, InService
<1>3. NoEvent \in Event \cup {NoEvent}
  OBVIOUS
<1>4. Returned(f) = [f EXCEPT !.pc = p, !.arg = NoEvent]
  BY DEF Returned
<1> HIDE DEF p
<1>5. SameActivation([f EXCEPT !.pc = p, !.arg = NoEvent])
  BY <1>2, <1>3, ClientUpdate, Zenon
<1> QED BY <1>4, <1>5

\* The running record is an activation at its own level.
LEMMA TopActivation ==
  ASSUME IndInv PROVE SameActivation(Top)
BY TopInv DEF SameActivation

\* Both results of CoreCheckEvent leave a well formed client record.
LEMMA CheckResultOK ==
  ASSUME IndInv, At("client", "check") \/ At("client", "clear")
  PROVE  SameActivation(NotReady(Top)) /\ SameActivation(Ready(Top))
<1>1. SameActivation(Top) /\ Top.kind = "client" /\ Top.pc # "wait" /\ Top.idx \in Nat
  BY TopActivation, TopInv DEF At
<1> DEFINE n == IF Top.idx = 0 THEN 0 ELSE Top.idx + 1
<1>2. n \in Nat /\ 0 \in Nat
  BY <1>1
<1>3. NotReady(Top) = Returned([Top EXCEPT !.idx = n])
      /\ Ready(Top) = Returned([Top EXCEPT !.idx = 0])
  BY DEF NotReady, Ready
<1> HIDE DEF n
<1>4. /\ SameActivation([Top EXCEPT !.idx = n])
      /\ [Top EXCEPT !.idx = n].kind = "client"
      /\ SameActivation([Top EXCEPT !.idx = 0])
      /\ [Top EXCEPT !.idx = 0].kind = "client"
  BY <1>1, <1>2, ClientIdx, Zenon
<1> QED BY <1>3, <1>4, ReturnedOK

-----------------------------------------------------------------------------
\* A client's RaiseTPL keeps the invariant.
LEMMA ClientRaiseTplOK ==
  ASSUME IndInv, NEW new \in RaiseLevels, ClientRaiseTpl(new) PROVE IndInv'
<1> DEFINE f == [Called EXCEPT !.lvl = new]
<1>1. /\ Called \in Frame /\ FrameOK(Called) /\ SameActivation(Called)
      /\ Called.kind = "client" /\ Called.pc = "run"
      /\ Top.kind = "client"
  BY CalledOK DEF ClientRaiseTpl, Free
<1>2. /\ StackOK(stack) /\ Top = stack[Len(stack)] /\ Top.lvl \in Nat
      /\ Top.base \in Nat /\ Top.base <= Top.lvl /\ gEfiCurrentTpl = Top.lvl
  BY TopInv, <1>1 DEF FrameOK, IndInv, LevelOf, Holders
<1>3. new \in Nat /\ new > Top.lvl /\ new <= TPL_HIGH_LEVEL
  <2>1. new \in TPL_APPLICATION..TPL_HIGH_LEVEL
    BY ClientAssumption
  <2>2. new > Top.lvl
    BY DEF ClientRaiseTpl
  <2> QED BY <2>1, <2>2 DEF TPL_HIGH_LEVEL, TPL_APPLICATION
<1>4. f \in Frame
  BY <1>1, <1>3 DEF Frame
<1>5. /\ f.kind = "client" /\ f.pc = "run" /\ f.lvl = new /\ f.base = Top.base
      /\ f.ev = Top.ev
  BY <1>1 DEF Frame, SameActivation
<1> HIDE DEF f
<1>6. FrameOK(f)
  BY <1>2, <1>3, <1>5 DEF FrameOK, InService
<1>7. stack' = SetTop(f) /\ RaiseTpl(new) /\ gEfiCurrentTpl' = new
      /\ UNCHANGED evtVars
  BY DEF ClientRaiseTpl, f, RaiseTpl
<1>8. StackOK(stack') /\ stack'[Len(stack')] = f
  BY <1>1, <1>2, <1>4, <1>5, <1>6, <1>7, SetTopOK DEF SetTop
<1>9. LevelOf(Top, gEfiCurrentTpl)'
  BY <1>5, <1>7, <1>8 DEF LevelOf, Top
<1>10. TplInv'
  <2>1. new \in gEfiCurrentTpl..TPL_HIGH_LEVEL
    BY <1>2, <1>3 DEF TPL_HIGH_LEVEL
  <2> QED BY <1>7, <2>1, RaiseOK DEF IndInv
<1> QED BY <1>7, <1>8, <1>9, <1>10, EvtUnchanged, Combine DEF IndInv

\* A client's RestoreTPL, not below the level it was entered at, keeps the
\* invariant.
LEMMA ClientRestoreTplOK ==
  ASSUME IndInv, NEW new \in RaiseLevels \cup {Top.base}, ClientRestoreTpl(new)
  PROVE  IndInv'
<1> DEFINE f == [Top EXCEPT !.lvl = new]
           r == Restore(new)
           t == SetTop(f)
<1>1. /\ Top \in Frame /\ FrameOK(Top) /\ Top.kind = "client" /\ Top.pc = "run"
      /\ StackOK(stack) /\ Top = stack[Len(stack)] /\ Top.lvl \in Nat
      /\ Top.base \in Nat
  BY TopInv DEF ClientRestoreTpl, At
<1>2. Top.lvl <= TPL_HIGH_LEVEL /\ gEfiCurrentTpl = Top.lvl
  BY <1>1 DEF FrameOK, IndInv, LevelOf, Holders
<1>3. new \in Nat /\ Top.base <= new /\ new < Top.lvl
  <2>1. CASE new \in RaiseLevels
    <3>1. new \in TPL_APPLICATION..TPL_HIGH_LEVEL
      BY <2>1, ClientAssumption
    <3>2. new \in Nat
      BY <3>1 DEF TPL_APPLICATION, TPL_HIGH_LEVEL
    <3> QED BY <3>2 DEF ClientRestoreTpl
  <2>2. CASE new = Top.base
    BY <1>1, <2>2 DEF ClientRestoreTpl
  <2> QED BY <2>1, <2>2
<1>4. new \in 0..TPL_HIGH_LEVEL
  <2>1. Top.lvl <= 31
    BY <1>2 DEF TPL_HIGH_LEVEL
  <2> QED BY <1>1, <2>1, <1>3 DEF TPL_HIGH_LEVEL
<1>5. f \in Frame
  BY <1>1, <1>3 DEF Frame
<1>6. /\ f.kind = "client" /\ f.pc = "run" /\ f.lvl = new /\ f.base = Top.base
      /\ f.ev = Top.ev
  BY <1>1 DEF Frame
<1>7. r \in Frame /\ FrameOK(r) /\ r.kind = "restore" /\ r.lvl = new /\ r.base = new
  BY <1>4, RestoreFrame
<1>8. stack' = Append(t, r) /\ UNCHANGED <<tplVars, evtVars>>
  BY DEF ClientRestoreTpl
<1> HIDE DEF f, r
<1>9. FrameOK(f)
  BY <1>3, <1>4, <1>6 DEF FrameOK, InService
<1>10. StackOK(t) /\ t[Len(t)] = f
  BY <1>1, <1>5, <1>6, <1>9, SetTopOK DEF SetTop
<1>11. Link(f, r) /\ f.lvl <= r.base /\ r.kind # "dispatch"
  BY <1>3, <1>6, <1>7 DEF Link, Holders
<1>12. Len(t) \in Nat
  BY <1>10, TopFacts
<1> HIDE DEF t
<1>13. StackOK(stack') /\ stack'[Len(stack')] = r
  BY <1>7, <1>8, <1>10, <1>11, <1>12, PushOK
<1>14. LevelOf(Top, gEfiCurrentTpl)'
  BY <1>1, <1>2, <1>3, <1>7, <1>8, <1>13 DEF LevelOf, Top, Holders, tplVars
<1> QED BY <1>8, <1>13, <1>14, TplUnchanged, EvtUnchanged, Combine DEF IndInv

\* CoreCreateEventInternal keeps the invariant.
LEMMA CreateEventOK ==
  ASSUME IndInv, NEW e \in Event, CreateEvent(e) PROVE IndInv'
<1>1. SameActivation(Called) /\ Top.kind \in Holders
  BY CalledOK DEF CreateEvent, Free, Holders
<1>2. EvtTypeOK'
  <2>1. <<e>> \o gEventSignalQueue \in Seq(Event)
    BY DEF IndInv, EvtTypeOK
  <2>2. gEventSignalQueue' \in Seq(Event)
    BY <2>1 DEF CreateEvent, IndInv, EvtTypeOK
  <2> QED BY <2>2 DEF CreateEvent, IndInv, EvtTypeOK
<1>3. EventLocked(Called)
  BY DEF CreateEvent
<1> QED BY <1>1, <1>2, <1>3, LockedOK, Combine

\* CoreSignalEvent up to its first release of the lock keeps the invariant.
LEMMA SignalEventOK ==
  ASSUME IndInv, NEW f, SameActivation(f), Top.kind = "client", NEW e \in Event,
         SignalEvent(f, e)
  PROVE  IndInv'
<1> DEFINE g == [f EXCEPT !.pc = "siglist", !.arg = e]
<1>1. SameActivation(g) /\ Top.kind \in Holders
  <2>1. "siglist" \in Pcs /\ e \in Event \cup {NoEvent} /\ "siglist" # "wait"
        /\ f.kind = "client"
    BY DEF Pcs, SameActivation
  <2>2. SameActivation(g)
    BY <2>1, ClientUpdate, Zenon
  <2> QED BY <2>2 DEF Holders
<1>2. EventLocked(f) \/ EventLocked(g)
  BY DEF SignalEvent
<1>3. UNCHANGED <<gEventSignalQueue, live>>
  BY DEF SignalEvent
<1>4. SignalCount' \in [Event -> {0, 1}]
  BY DEF SignalEvent, IndInv, EvtTypeOK
<1>5. NotifyEvent(e) \/ UNCHANGED <<gEventQueue, gEventPending>>
  BY DEF SignalEvent
<1>6. EvtTypeOK'
  <2>1. CASE NotifyEvent(e)
    BY <1>3, <1>4, <2>1, NotifyType DEF IndInv, EvtTypeOK
  <2>2. CASE UNCHANGED <<gEventQueue, gEventPending>>
    BY <1>3, <1>4, <2>2 DEF IndInv, EvtTypeOK
  <2> QED BY <1>5, <2>1, <2>2
<1> HIDE DEF g
<1>7. CASE EventLocked(f)
  BY <1>1, <1>6, <1>7, LockedOK, Combine
<1>8. CASE EventLocked(g)
  BY <1>1, <1>6, <1>8, LockedOK, Combine
<1> QED BY <1>2, <1>7, <1>8

\* The same, called by a client.
LEMMA ClientSignalEventOK ==
  ASSUME IndInv, NEW e \in Event, ClientSignalEvent(e) PROVE IndInv'
BY CalledOK, SignalEventOK DEF ClientSignalEvent

\* The same, called by CoreWaitForEvent for the idle event.
LEMMA WaitIdleOK ==
  ASSUME IndInv, WaitIdle PROVE IndInv'
<1> DEFINE f == [Top EXCEPT !.idx = 1]
<1>1. SameActivation(Top) /\ Top.kind = "client"
  BY TopActivation DEF WaitIdle, At
<1>2. 1 \in Nat /\ 1 >= 1
  OBVIOUS
<1>3. SameActivation(f)
  BY <1>1, <1>2, ClientIdx, Zenon
<1>4. SignalEvent(f, IdleEvent) /\ IdleEvent \in Event
  BY EventAssumption DEF WaitIdle
<1> HIDE DEF f
<1> QED BY <1>1, <1>3, <1>4, SignalEventOK

\* CoreSignalEvent's last acquire and release keep the invariant.
LEMMA SignalRelockOK ==
  ASSUME IndInv, SignalRelock PROVE IndInv'
<1>1. SameActivation(Top) /\ Top.kind = "client" /\ Top.kind \in Holders
  BY TopActivation DEF SignalRelock, At, Holders
<1>2. SameActivation(Returned(Top)) /\ EventLocked(Returned(Top)) /\ UNCHANGED evtVars
  BY <1>1, ReturnedOK DEF SignalRelock
<1> QED BY <1>1, <1>2, LockedOK, EvtUnchanged, Combine DEF IndInv

\* CoreNotifySignalList takes the lock at the caller's level.
LEMMA NotifySignalListOK ==
  ASSUME IndInv, NotifySignalList PROVE IndInv'
<1> DEFINE f == [Top EXCEPT !.pc = "relock"]
           l == SignalList(gEfiCurrentTpl, Top.arg)
           t == SetTop(f)
<1>1. /\ Top \in Frame /\ FrameOK(Top) /\ Top.kind = "client" /\ Top.pc = "siglist"
      /\ StackOK(stack) /\ Top = stack[Len(stack)] /\ SameActivation(Top)
      /\ gEfiCurrentTpl \in 0..TPL_HIGH_LEVEL
  BY TopInv, TopActivation DEF NotifySignalList, At
<1>2. Top.arg \in Event /\ gEfiCurrentTpl = Top.lvl
  BY <1>1 DEF FrameOK, InService, IndInv, LevelOf, Holders
<1>3. SameActivation(f)
  <2>1. "relock" \in Pcs /\ "relock" # "wait"
    BY DEF Pcs
  <2> QED BY <1>1, <1>2, <2>1, ClientPc, Zenon
<1>4. l \in Frame /\ FrameOK(l) /\ l.kind = "list" /\ l.lvl = gEfiCurrentTpl
      /\ l.base = gEfiCurrentTpl
  BY <1>1, <1>2 DEF SignalList, Frame, FrameOK, Kinds, Pcs, TPL_HIGH_LEVEL
<1>5. stack' = Append(t, l) /\ RaiseTpl(TPL_HIGH_LEVEL) /\ UNCHANGED evtVars
  BY DEF NotifySignalList
<1> HIDE DEF f, l
<1>6. StackOK(t) /\ t[Len(t)] = f /\ Len(t) \in Nat
  BY <1>1, <1>3, SetTopOK, TopFacts DEF SetTop, SameActivation
<1>7. Link(f, l) /\ f.lvl <= l.base /\ l.kind # "dispatch"
  BY <1>1, <1>2, <1>3, <1>4 DEF Link, Holders, SameActivation
<1> HIDE DEF t
<1>8. StackOK(stack') /\ stack'[Len(stack')] = l
  BY <1>4, <1>5, <1>6, <1>7, PushOK
<1>9. LevelOf(Top, gEfiCurrentTpl)'
  BY <1>4, <1>5, <1>8 DEF LevelOf, Top, Holders, RaiseTpl
<1>10. TplInv'
  <2>1. TPL_HIGH_LEVEL \in gEfiCurrentTpl..TPL_HIGH_LEVEL
    BY <1>1 DEF TPL_HIGH_LEVEL
  <2> QED BY <2>1, <1>5, RaiseOK DEF IndInv
<1> QED BY <1>5, <1>8, <1>9, <1>10, EvtUnchanged, Combine DEF IndInv

\* One iteration of CoreNotifySignalList, at TPL_HIGH_LEVEL, keeps the
\* invariant.
LEMMA NotifySignalListStepOK ==
  ASSUME IndInv, NotifySignalListStep PROVE IndInv'
<1> DEFINE f == [Top EXCEPT !.idx = @ + 1]
           e == gEventSignalQueue[Top.idx]
<1>1. Top \in Frame /\ FrameOK(Top) /\ Top.kind = "list" /\ Top.idx \in Nat
  BY TopInv DEF NotifySignalListStep
<1>2. f \in Frame
  BY <1>1 DEF Frame
<1>3. /\ f.kind = "list" /\ f.lvl = Top.lvl /\ f.base = Top.base /\ f.ev = Top.ev
      /\ f.idx = Top.idx + 1
  BY <1>1 DEF Frame
<1>4. stack' = SetTop(f) /\ UNCHANGED tplVars
      /\ UNCHANGED <<gEventSignalQueue, SignalCount, live>>
      /\ (NotifyEvent(e) \/ UNCHANGED <<gEventQueue, gEventPending>>)
  BY DEF NotifySignalListStep
<1> HIDE DEF f
<1>5. SameActivation(f)
  <2>1. FrameOK(f)
    BY <1>1, <1>3 DEF FrameOK
  <2> QED BY <1>1, <1>2, <1>3, <2>1 DEF SameActivation
<1>6. e \in Event
  <2>1. Top.idx >= 1 /\ Top.idx <= Len(gEventSignalQueue)
    BY <1>1 DEF FrameOK, NotifySignalListStep
  <2> QED BY <1>1, <2>1 DEF IndInv, EvtTypeOK
<1> HIDE DEF e
<1>7. EvtTypeOK'
  <2>1. CASE NotifyEvent(e)
    BY <1>4, <1>6, <2>1, NotifyType DEF IndInv, EvtTypeOK
  <2>2. CASE UNCHANGED <<gEventQueue, gEventPending>>
    BY <1>4, <2>2 DEF IndInv, EvtTypeOK
  <2> QED BY <1>4, <2>1, <2>2
<1> QED BY <1>4, <1>5, <1>7, StepOK, Combine

\* CoreNotifySignalList releases the lock at the level it was taken at.
LEMMA NotifySignalListEndOK ==
  ASSUME IndInv, NotifySignalListEnd PROVE IndInv'
<1> DEFINE r == Restore(Top.lvl)
<1>1. /\ Top \in Frame /\ FrameOK(Top) /\ Top.kind = "list" /\ Top.lvl \in Nat
      /\ StackOK(stack) /\ Top = stack[Len(stack)]
  BY TopInv DEF NotifySignalListEnd
<1>2. Top.lvl \in 0..TPL_HIGH_LEVEL /\ Top.base = Top.lvl /\ TPL_HIGH_LEVEL >= Top.lvl
  <2>1. Top.lvl <= TPL_HIGH_LEVEL /\ Top.base = Top.lvl
    BY <1>1 DEF FrameOK
  <2>2. Top.lvl \in Nat
    BY <1>1
  <2> QED BY <2>1, <2>2 DEF TPL_HIGH_LEVEL
<1>3. r \in Frame /\ FrameOK(r) /\ r.kind = "restore" /\ r.lvl = Top.lvl
      /\ r.base = Top.lvl
  BY <1>2, RestoreFrame
<1>4. stack' = SetTop(r) /\ UNCHANGED tplVars /\ UNCHANGED evtVars
  BY DEF NotifySignalListEnd
<1> HIDE DEF r
<1>5. StackOK(stack') /\ stack'[Len(stack')] = r
  BY <1>1, <1>2, <1>3, <1>4, SetTopOK DEF SetTop
<1>6. gEfiCurrentTpl' = TPL_HIGH_LEVEL
  BY <1>1, <1>4 DEF IndInv, LevelOf, tplVars
<1>7. LevelOf(Top, gEfiCurrentTpl)'
  BY <1>2, <1>3, <1>5, <1>6 DEF LevelOf, Top, Holders
<1> QED BY <1>4, <1>5, <1>7, TplUnchanged, EvtUnchanged, Combine DEF IndInv

\* CoreSetTimer with TriggerTime 0 keeps the invariant.
LEMMA ClientSetTimerNowOK ==
  ASSUME IndInv, ClientSetTimerNow PROVE IndInv'
<1>1. SameActivation(Called) /\ Top.kind = "client" /\ Top.kind \in Holders
  BY CalledOK DEF ClientSetTimerNow, Free, Holders
<1>2. gEfiCurrentTpl = Top.lvl /\ gEfiCurrentTpl \in 0..TPL_HIGH_LEVEL
  BY <1>1, TopInv DEF IndInv, LevelOf
<1>3. TPL_TIMER \in gEfiCurrentTpl..TPL_HIGH_LEVEL
  BY <1>2 DEF ClientSetTimerNow, TPL_TIMER, TPL_HIGH_LEVEL
<1>4. gEfiCurrentTpl' >= gEfiCurrentTpl
  BY <1>2, <1>3 DEF ClientSetTimerNow, RaiseTpl
<1>5. TplInv'
  BY <1>3, RaiseOK DEF ClientSetTimerNow, IndInv
<1>6. stack' = Append(SetTop(Called), Restore(gEfiCurrentTpl))
  BY DEF ClientSetTimerNow
<1>7. EvtTypeOK'
  <2>1. CASE SignalCount[CheckTimerEvent] = 0
    BY <2>1, NotifyType, EventAssumption DEF ClientSetTimerNow, IndInv, EvtTypeOK
  <2>2. CASE SignalCount[CheckTimerEvent] # 0
    BY <2>2 DEF ClientSetTimerNow, IndInv, EvtTypeOK
  <2> QED BY <2>1, <2>2
<1> QED BY <1>1, <1>4, <1>5, <1>6, <1>7, CallRestoreOK, Combine

-----------------------------------------------------------------------------
\* CoreCheckEvent's first, unlocked, read keeps the invariant.
LEMMA CheckEventOK ==
  ASSUME IndInv, NEW f, SameActivation(f), Top.kind = "client", NEW e \in Event,
         CheckEvent(f, e)
  PROVE  IndInv'
<1> DEFINE p == IF SignalCount[e] = 0 /\ EventType[e] = "wait"
                THEN "queue" ELSE "check"
           g == [f EXCEPT !.pc = p, !.arg = e]
<1>1. p \in Pcs /\ p # "wait" /\ e \in Event \cup {NoEvent} /\ f.kind = "client"
  BY DEF Pcs, SameActivation
<1>2. stack' = SetTop(g) /\ UNCHANGED tplVars /\ UNCHANGED evtVars
  BY DEF CheckEvent
<1>3. SameActivation(g)
  <2> HIDE DEF p
  <2> QED BY <1>1, ClientUpdate, Zenon
<1> HIDE DEF g
<1> QED BY <1>2, <1>3, StepOK, EvtUnchanged, Combine DEF IndInv

\* The same, called by a client.
LEMMA ClientCheckEventOK ==
  ASSUME IndInv, NEW e \in Event, ClientCheckEvent(e) PROVE IndInv'
BY CalledOK, CheckEventOK DEF ClientCheckEvent, Free

\* The same, called by CoreWaitForEvent for its next event.
LEMMA WaitCheckOK ==
  ASSUME IndInv, WaitCheck PROVE IndInv'
<1>1. SameActivation(Top) /\ Top.kind = "client" /\ Top.pc = "wait"
      /\ FrameOK(Top) /\ Top.idx \in Nat
  BY TopActivation, TopInv DEF WaitCheck, At
<1>2. Top.idx >= 1 /\ Top.idx <= Len(WaitList)
  BY <1>1 DEF FrameOK, WaitCheck
<1>3. WaitList[Top.idx] \in Event
  BY <1>1, <1>2, ClientAssumption
<1>4. CheckEvent(Top, WaitList[Top.idx])
  BY DEF WaitCheck
<1> QED BY <1>1, <1>3, <1>4, CheckEventOK

\* CoreCheckEvent queuing the wait function keeps the invariant.
LEMMA CheckEventQueueOK ==
  ASSUME IndInv, CheckEventQueue PROVE IndInv'
<1> DEFINE f == [Top EXCEPT !.pc = "check"]
<1>1. SameActivation(Top) /\ Top.kind = "client" /\ Top.pc = "queue"
      /\ FrameOK(Top) /\ Top.kind \in Holders
  BY TopActivation, TopInv DEF CheckEventQueue, At, Holders
<1>2. Top.arg \in Event
  BY <1>1 DEF FrameOK, InService
<1>3. SameActivation(f)
  <2>1. "check" \in Pcs /\ "check" # "wait"
    BY DEF Pcs
  <2> QED BY <1>1, <1>2, <2>1, ClientPc, Zenon
<1>4. EventLocked(f)
  BY DEF CheckEventQueue
<1>5. EvtTypeOK'
  <2>1. CASE SignalCount[Top.arg] = 0
    BY <1>2, <2>1, NotifyType DEF CheckEventQueue, IndInv, EvtTypeOK
  <2>2. CASE SignalCount[Top.arg] # 0
    BY <2>2 DEF CheckEventQueue, IndInv, EvtTypeOK
  <2> QED BY <2>1, <2>2
<1> HIDE DEF f
<1> QED BY <1>1, <1>3, <1>4, <1>5, LockedOK, Combine

\* CoreCheckEvent's second, unlocked, read keeps the invariant.
LEMMA CheckEventTestOK ==
  ASSUME IndInv, CheckEventTest PROVE IndInv'
<1> DEFINE f == [Top EXCEPT !.pc = "clear"]
<1>1. SameActivation(Top) /\ Top.kind = "client" /\ Top.pc = "check" /\ FrameOK(Top)
  BY TopActivation, TopInv DEF CheckEventTest, At
<1>2. Top.arg \in Event
  BY <1>1 DEF FrameOK, InService
<1>3. SameActivation(f)
  <2>1. "clear" \in Pcs /\ "clear" # "wait"
    BY DEF Pcs
  <2> QED BY <1>1, <1>2, <2>1, ClientPc, Zenon
<1>4. SameActivation(NotReady(Top))
  BY CheckResultOK DEF CheckEventTest
<1>5. UNCHANGED tplVars /\ UNCHANGED evtVars
      /\ (stack' = SetTop(f) \/ stack' = SetTop(NotReady(Top)))
  BY DEF CheckEventTest
<1> HIDE DEF f
<1> QED BY <1>3, <1>4, <1>5, StepOK, EvtUnchanged, Combine DEF IndInv

\* CoreCheckEvent clearing SignalCount under the lock keeps the invariant.
LEMMA CheckEventClearOK ==
  ASSUME IndInv, CheckEventClear PROVE IndInv'
<1>1. Top.kind = "client" /\ Top.pc = "clear" /\ Top.kind \in Holders /\ FrameOK(Top)
  BY TopInv DEF CheckEventClear, At, Holders
<1>2. Top.arg \in Event
  BY <1>1 DEF FrameOK, InService
<1>3. SameActivation(Ready(Top)) /\ SameActivation(NotReady(Top))
  BY CheckResultOK DEF CheckEventClear
<1>4. EvtTypeOK'
  BY <1>2 DEF CheckEventClear, IndInv, EvtTypeOK
<1>5. EventLocked(Ready(Top)) \/ EventLocked(NotReady(Top))
  BY DEF CheckEventClear
<1> QED BY <1>1, <1>3, <1>4, <1>5, LockedOK, Combine

\* Entering CoreWaitForEvent keeps the invariant.
LEMMA WaitForEventOK ==
  ASSUME IndInv, WaitForEvent PROVE IndInv'
<1> DEFINE f == [Called EXCEPT !.pc = "wait", !.idx = 1]
<1>1. SameActivation(Called) /\ Called \in Frame /\ FrameOK(Called)
      /\ Called.kind = "client"
  BY CalledOK DEF WaitForEvent, Free
<1>2. f \in Frame
  BY <1>1 DEF Frame, Pcs
<1>3. /\ f.kind = "client" /\ f.pc = "wait" /\ f.idx = 1 /\ f.lvl = Called.lvl
      /\ f.base = Called.base /\ f.ev = Called.ev
  BY <1>1 DEF Frame
<1>4. stack' = SetTop(f) /\ UNCHANGED tplVars /\ UNCHANGED evtVars
  BY DEF WaitForEvent
<1> HIDE DEF f
<1>5. FrameOK(f)
  BY <1>1, <1>3 DEF FrameOK, InService
<1>6. SameActivation(f)
  BY <1>1, <1>2, <1>3, <1>5 DEF SameActivation
<1> QED BY <1>4, <1>6, StepOK, EvtUnchanged, Combine DEF IndInv

\* CoreCloseEvent cancelling the timer keeps the invariant.
LEMMA CloseEventOK ==
  ASSUME IndInv, NEW e \in Event, CloseEvent(e) PROVE IndInv'
<1> DEFINE f == [Called EXCEPT !.pc = "unlink", !.arg = e]
<1>1. SameActivation(Called) /\ Called.kind = "client" /\ Top.kind = "client"
      /\ Top.kind \in Holders
  BY CalledOK DEF CloseEvent, Free, Holders
<1>2. SameActivation(f)
  <2>1. "unlink" \in Pcs /\ "unlink" # "wait" /\ e \in Event \cup {NoEvent}
    BY DEF Pcs
  <2> QED BY <1>1, <2>1, ClientUpdate, Zenon
<1>3. CASE e \in TimerEvent
  <2>1. gEfiCurrentTpl = Top.lvl /\ gEfiCurrentTpl \in 0..TPL_HIGH_LEVEL
    BY <1>1, TopInv DEF IndInv, LevelOf
  <2>2. TPL_TIMER \in gEfiCurrentTpl..TPL_HIGH_LEVEL
    BY <1>3, <2>1 DEF CloseEvent, TPL_TIMER, TPL_HIGH_LEVEL
  <2>3. RaiseTpl(TPL_TIMER) /\ UNCHANGED evtVars
        /\ stack' = Append(SetTop(f), Restore(gEfiCurrentTpl))
    BY <1>3 DEF CloseEvent
  <2>4. gEfiCurrentTpl' >= gEfiCurrentTpl
    BY <2>1, <2>2, <2>3 DEF RaiseTpl
  <2>5. TplInv'
    BY <2>2, <2>3, RaiseOK DEF IndInv
  <2> HIDE DEF f
  <2> QED BY <1>1, <1>2, <2>3, <2>4, <2>5, CallRestoreOK, EvtUnchanged, Combine
          DEF IndInv
<1>4. CASE e \notin TimerEvent
  <2>1. stack' = SetTop(f) /\ UNCHANGED tplVars /\ UNCHANGED evtVars
    BY <1>4 DEF CloseEvent
  <2> HIDE DEF f
  <2> QED BY <1>2, <2>1, StepOK, EvtUnchanged, Combine DEF IndInv
<1> QED BY <1>3, <1>4

\* CoreCloseEvent unlinking the event keeps the invariant.
LEMMA CloseEventUnlinkOK ==
  ASSUME IndInv, CloseEventUnlink PROVE IndInv'
<1> DEFINE f == [Top EXCEPT !.pc = "free"]
<1>1. SameActivation(Top) /\ Top.kind = "client" /\ Top.pc = "unlink"
      /\ FrameOK(Top) /\ Top.kind \in Holders
  BY TopActivation, TopInv DEF CloseEventUnlink, At, Holders
<1>2. Top.arg \in Event
  BY <1>1 DEF FrameOK, InService
<1>3. SameActivation(f)
  <2>1. "free" \in Pcs /\ "free" # "wait"
    BY DEF Pcs
  <2> QED BY <1>1, <1>2, <2>1, ClientPc, Zenon
<1>4. EvtTypeOK'
  <2>1. \A t \in 0..TPL_HIGH_LEVEL :
           RemoveEntry(gEventQueue[t], Top.arg) \in Seq(Event)
    BY RemoveEntryType DEF IndInv, EvtTypeOK
  <2>2. RemoveEntry(gEventSignalQueue, Top.arg) \in Seq(Event)
    BY RemoveEntryType DEF IndInv, EvtTypeOK
  <2> QED BY <2>1, <2>2 DEF CloseEventUnlink, IndInv, EvtTypeOK
<1>5. EventLocked(f)
  BY DEF CloseEventUnlink
<1> HIDE DEF f
<1> QED BY <1>1, <1>3, <1>4, <1>5, LockedOK, Combine

\* CoreCloseEvent freeing the event keeps the invariant.
LEMMA CloseEventFreeOK ==
  ASSUME IndInv, CloseEventFree PROVE IndInv'
<1>1. SameActivation(Returned(Top))
  BY TopActivation, ReturnedOK DEF CloseEventFree, At
<1>2. EvtTypeOK'
  BY DEF CloseEventFree, IndInv, EvtTypeOK
<1>3. stack' = SetTop(Returned(Top)) /\ UNCHANGED tplVars
  BY DEF CloseEventFree
<1> QED BY <1>1, <1>2, <1>3, StepOK, Combine

-----------------------------------------------------------------------------
\* CoreInitializeEventServices establishes the invariant.
LEMMA InitOK == Init => IndInv
<1> SUFFICES ASSUME Init PROVE IndInv OBVIOUS
<1> DEFINE c == Client(TPL_APPLICATION, NoEvent)
<1>1. c \in Frame /\ c.kind = "client" /\ c.ev = NoEvent /\ c.lvl = TPL_APPLICATION
      /\ c.base = TPL_APPLICATION /\ c.pc = "run"
  BY ClientAssumption DEF Client, Frame, Kinds, Pcs, TPL_APPLICATION
<1>2. stack = <<c>>
  BY DEF Init
<1> HIDE DEF c
<1>3. FrameOK(c)
  BY <1>1 DEF FrameOK, InService, TPL_APPLICATION, TPL_HIGH_LEVEL
<1>4. stack \in Seq(Frame) /\ Len(stack) = 1 /\ stack[1] = c /\ stack # << >>
  BY <1>1, <1>2
<1>5. StackOK(stack)
  BY <1>1, <1>3, <1>4 DEF StackOK, LevelsOK
<1>6. LevelOf(Top, gEfiCurrentTpl)
  BY <1>1, <1>4 DEF LevelOf, Top, Init
<1>7. TplInv
  <2>1. gEfiCurrentTpl = 4 /\ interrupts = TRUE
    BY DEF Init, TPL_APPLICATION
  <2>2. gEfiCurrentTpl < TPL_HIGH_LEVEL /\ gEfiCurrentTpl \in 0..TPL_HIGH_LEVEL
    BY <2>1 DEF TPL_HIGH_LEVEL
  <2> QED BY <2>1, <2>2 DEF TplInv, InterruptsFollowTpl
<1>8. EvtTypeOK
  <2>1. <<IdleEvent, CheckTimerEvent>> \in Seq(Event)
    BY EventAssumption
  <2> QED BY <2>1, EventAssumption DEF Init, EvtTypeOK
<1> QED BY <1>5, <1>6, <1>7, <1>8 DEF IndInv

\* Every step of the services, of their clients and of the timer interrupt
\* preserves the invariant.
LEMMA NextOK ==
  ASSUME ~ReloadPending, IndInv, [Next]_vars
  PROVE  IndInv'
<1>1. CASE Core
  <2>1. CASE RestoreTest BY <2>1, RestoreTestOK
  <2>2. CASE RestoreHighBit BY <2>2, RestoreHighBitOK
  <2>3. CASE RestoreDispatch BY <2>3, RestoreDispatchOK
  <2>4. CASE RestoreExit BY <2>4, RestoreExitOK
  <2>5. CASE DispatchNext BY <2>5, DispatchNextOK
  <2>6. CASE DispatchCall BY <2>6, DispatchCallOK
  <2>7. CASE DispatchEmpty BY <2>7, DispatchEmptyOK
  <2>8. CASE DispatchReturn BY <2>8, DispatchReturnOK
  <2>9. CASE InterruptReturn BY <2>9, InterruptReturnOK
  <2>10. CASE NotifySignalList BY <2>10, NotifySignalListOK
  <2>11. CASE NotifySignalListStep BY <2>11, NotifySignalListStepOK
  <2>12. CASE NotifySignalListEnd BY <2>12, NotifySignalListEndOK
  <2>13. CASE SignalRelock BY <2>13, SignalRelockOK
  <2>14. CASE CheckEventQueue BY <2>14, CheckEventQueueOK
  <2>15. CASE CheckEventTest BY <2>15, CheckEventTestOK
  <2>16. CASE CheckEventClear BY <2>16, CheckEventClearOK
  <2>17. CASE WaitCheck BY <2>17, WaitCheckOK
  <2>18. CASE WaitIdle BY <2>18, WaitIdleOK
  <2>19. CASE CloseEventUnlink BY <2>19, CloseEventUnlinkOK
  <2>20. CASE CloseEventFree BY <2>20, CloseEventFreeOK
  <2> QED
    BY <1>1, <2>1, <2>2, <2>3, <2>4, <2>5, <2>6, <2>7, <2>8, <2>9, <2>10, <2>11,
       <2>12, <2>13, <2>14, <2>15, <2>16, <2>17, <2>18, <2>19, <2>20 DEF Core
<1>2. CASE Call
  <2>1. ASSUME NEW new \in RaiseLevels, ClientRaiseTpl(new) PROVE IndInv'
    BY <2>1, ClientRaiseTplOK
  <2>2. ASSUME NEW e \in Event, CreateEvent(e) PROVE IndInv'
    BY <2>2, CreateEventOK
  <2>3. ASSUME NEW e \in Event, ClientSignalEvent(e) PROVE IndInv'
    BY <2>3, ClientSignalEventOK
  <2>4. ASSUME NEW e \in Event, ClientCheckEvent(e) PROVE IndInv'
    BY <2>4, ClientCheckEventOK
  <2>5. ASSUME NEW e \in Event, CloseEvent(e) PROVE IndInv'
    BY <2>5, CloseEventOK
  <2>6. CASE ClientSetTimerNow BY <2>6, ClientSetTimerNowOK
  <2>7. CASE WaitForEvent BY <2>7, WaitForEventOK
  <2> QED BY <1>2, <2>1, <2>2, <2>3, <2>4, <2>5, <2>6, <2>7 DEF Call
<1>3. CASE Unwind
  <2>1. ASSUME NEW new \in RaiseLevels \cup {Top.base}, ClientRestoreTpl(new)
        PROVE  IndInv'
    BY <2>1, ClientRestoreTplOK
  <2>2. CASE NotifyReturn BY <2>2, NotifyReturnOK
  <2> QED BY <1>3, <2>1, <2>2 DEF Unwind
<1>4. CASE TimerInterrupt BY <1>4, TimerInterruptOK
<1>5. CASE UNCHANGED vars
  <2>1. UNCHANGED tplVars /\ UNCHANGED evtVars /\ stack' = stack
    BY <1>5 DEF vars, tplVars, evtVars
  <2>2. StackOK(stack)' /\ LevelOf(Top, gEfiCurrentTpl)'
    BY <2>1 DEF IndInv, Top, tplVars
  <2> QED BY <2>1, <2>2, TplUnchanged, EvtUnchanged, Combine DEF IndInv
<1> QED BY <1>1, <1>2, <1>3, <1>4, <1>5 DEF Next

(***************************************************************************)
(* The invariant holds for every set of events, every assignment of types, *)
(* levels and groups, every depth of the stack and both interrupt drivers, *)
(* in a build of CoreRestoreTpl that reads gEventPending once per          *)
(* iteration.                                                              *)
(***************************************************************************)
THEOREM InductiveInvariant ==
  ASSUME ~ReloadPending
  PROVE  Spec => []IndInv
<1>1. Init => IndInv
  BY InitOK
<1>2. IndInv /\ [Next]_vars => IndInv'
  BY NextOK
<1> QED BY <1>1, <1>2, PTL DEF Spec

(***************************************************************************)
(* The variables of Event.c and Tpl.c keep their types; in particular      *)
(* SignalCount never exceeds 1 and gEventPending never has the bit of      *)
(* TPL_HIGH_LEVEL, at which CoreCreateEventInternal accepts no event.      *)
(***************************************************************************)
THEOREM TypeCorrect ==
  ASSUME ~ReloadPending
  PROVE  Spec => []TypeOK
<1>1. IndInv => TypeOK
  BY DEF IndInv, EvtTypeOK, TplInv, StackOK, TypeOK
<1> QED BY <1>1, InductiveInvariant, PTL

(***************************************************************************)
(* Task priorities exclude one another (CoreRestoreTpl,                    *)
(* CoreDispatchEventNotifies): no notification function is entered at or   *)
(* below the level of any client on the stack, whatever is signalled and   *)
(* whenever the ticks come.                                                *)
(***************************************************************************)
THEOREM PrioritiesExclude ==
  ASSUME ~ReloadPending
  PROVE  Spec => []TplExclusion
<1>1. IndInv => TplExclusion
  BY DEF IndInv, StackOK, LevelsOK, TplExclusion
<1> QED BY <1>1, InductiveInvariant, PTL

(***************************************************************************)
(* Code gets control back at the level it held, and interrupts are off     *)
(* exactly at TPL_HIGH_LEVEL (CoreRaiseTpl, CoreRestoreTpl, the assertion  *)
(* on OwnerTpl in CoreDispatchEventNotifies).                              *)
(***************************************************************************)
THEOREM LevelsRestored ==
  ASSUME ~ReloadPending
  PROVE  Spec => []LevelsKept
<1>1. IndInv => LevelsKept
  BY DEF IndInv, TplInv, LevelOf, Holders, TplRestored, LevelsKept
<1> QED BY <1>1, InductiveInvariant, PTL
=============================================================================
