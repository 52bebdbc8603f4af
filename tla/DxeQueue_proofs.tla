-------------------------- MODULE DxeQueue_proofs --------------------------
(***************************************************************************)
(* Proofs about the event queues of the DXE core (DxeEvent): what is       *)
(* queued stays in step with gEventPending, no signal is lost, and, with   *)
(* clients that keep the CloseEvent discipline, no freed event is used.    *)
(* The invariant of DxeEvent_proofs says who may be on the stack above     *)
(* whom; this module adds what the calls in progress say of the events.    *)
(***************************************************************************)
EXTENDS DxeEvent_proofs

-----------------------------------------------------------------------------
(* Queues. *)

\* No event is twice on the list q.
OnceIn(q) == \A i, j \in 1..Len(q) : q[i] = q[j] => i = j

\* RemoveEntryList takes an event off a list that has it once at most, and leaves
\* the others on it.
LEMMA RemoveQueued ==
  ASSUME NEW q \in Seq(Event), NEW e, OnceIn(q)
  PROVE  /\ RemoveEntry(q, e) \in Seq(Event) /\ OnceIn(RemoveEntry(q, e))
         /\ \A x : Queued(RemoveEntry(q, e), x) <=> Queued(q, x) /\ x # e
<1> DEFINE n == Len(q)
           at == CHOOSE k \in 1..Len(q) : q[k] = e
           r == [k \in 1..(Len(q) - 1) |-> IF k < at THEN q[k] ELSE q[k + 1]]
<1>1. CASE Queued(q, e)
  <2>1. at \in 1..Len(q) /\ q[at] = e /\ n \in Nat
    BY <1>1 DEF Queued
  <2>2. RemoveEntry(q, e) = r
    BY <1>1 DEF RemoveEntry
  <2> HIDE DEF at
  <2>3. r \in [1..(n - 1) -> Event] /\ n - 1 \in Nat
    BY <2>1
  <2>4. r \in Seq(Event) /\ Len(r) = n - 1
    BY <2>3, SeqDef
  <2> DEFINE src(k) == IF k < at THEN k ELSE k + 1
  <2>5. \A k \in 1..(n - 1) : src(k) \in 1..n /\ src(k) # at /\ r[k] = q[src(k)]
    BY <2>1
  <2>6. \A k, m \in 1..(n - 1) : src(k) = src(m) => k = m
    BY <2>1
  <2>7. ASSUME NEW p \in 1..n, p # at
        PROVE  \E k \in 1..(n - 1) : p = src(k)
    <3>1. CASE p < at
      <4>1. p \in 1..(n - 1) /\ p = src(p)
        BY <2>1, <3>1
      <4> QED BY <4>1
    <3>2. CASE p > at
      <4>1. (p - 1) \in 1..(n - 1) /\ p = src(p - 1)
        BY <2>1, <3>2
      <4> QED BY <4>1
    <3> QED BY <2>1, <2>7, <3>1, <3>2
  <2> HIDE DEF src, r
  <2>8. OnceIn(r)
    BY <2>4, <2>5, <2>6 DEF OnceIn, n
  <2>9. ASSUME NEW x
        PROVE  Queued(r, x) <=> Queued(q, x) /\ x # e
    <3>1. ASSUME Queued(r, x)
          PROVE  Queued(q, x) /\ x # e
      BY <2>1, <2>4, <2>5, <3>1 DEF Queued, OnceIn, n
    <3>2. ASSUME Queued(q, x), x # e
          PROVE  Queued(r, x)
      <4>1. PICK p \in 1..n : q[p] = x
        BY <3>2 DEF Queued
      <4>2. PICK k \in 1..(n - 1) : p = src(k)
        BY <2>1, <2>7, <3>2, <4>1
      <4> QED BY <2>4, <2>5, <4>1, <4>2 DEF Queued
    <3> QED BY <3>1, <3>2
  <2> QED BY <2>2, <2>4, <2>8, <2>9
<1>2. CASE ~Queued(q, e)
  <2>1. RemoveEntry(q, e) = q
    BY <1>2 DEF RemoveEntry
  <2> QED BY <1>2, <2>1
<1> QED BY <1>1, <1>2

\* InsertTailList of an event that is not on the list.
LEMMA AppendQueued ==
  ASSUME NEW q \in Seq(Event), NEW e \in Event, OnceIn(q), ~Queued(q, e)
  PROVE  /\ Append(q, e) \in Seq(Event) /\ OnceIn(Append(q, e))
         /\ \A x : Queued(Append(q, e), x) <=> Queued(q, x) \/ x = e
<1> DEFINE r == Append(q, e)
<1>1. /\ r \in Seq(Event) /\ Len(r) = Len(q) + 1 /\ Len(q) \in Nat
      /\ r[Len(q) + 1] = e /\ \A k \in 1..Len(q) : r[k] = q[k]
  OBVIOUS
<1> HIDE DEF r
<1>2. OnceIn(r)
  BY <1>1 DEF OnceIn, Queued
<1>3. ASSUME NEW x
      PROVE  Queued(r, x) <=> Queued(q, x) \/ x = e
  <2>1. Queued(r, x) => Queued(q, x) \/ x = e
    BY <1>1 DEF Queued
  <2>2. Queued(q, x) => Queued(r, x)
    BY <1>1 DEF Queued
  <2>3. Queued(r, e)
    BY <1>1 DEF Queued
  <2> QED BY <2>1, <2>2, <2>3
<1> QED BY <1>1, <1>2, <1>3 DEF r

\* InsertHeadList of an event that is not on the list.
LEMMA InsertQueued ==
  ASSUME NEW q \in Seq(Event), NEW e \in Event
  PROVE  /\ <<e>> \o q \in Seq(Event)
         /\ OnceIn(q) /\ ~Queued(q, e) => OnceIn(<<e>> \o q)
         /\ \A x : Queued(<<e>> \o q, x) <=> Queued(q, x) \/ x = e
<1> DEFINE r == <<e>> \o q
<1>1. /\ r \in Seq(Event) /\ Len(r) = Len(q) + 1 /\ Len(q) \in Nat
      /\ r[1] = e /\ \A k \in 1..Len(q) : r[k + 1] = q[k]
  OBVIOUS
<1> HIDE DEF r
<1>2. \A k \in 1..Len(r) : k = 1 \/ (k - 1 \in 1..Len(q) /\ r[k] = q[k - 1])
  <2> TAKE k \in 1..Len(r)
  <2> SUFFICES ASSUME k # 1 PROVE k - 1 \in 1..Len(q) /\ r[k] = q[k - 1]
    OBVIOUS
  <2>1. k - 1 \in 1..Len(q) /\ (k - 1) + 1 = k
    BY <1>1
  <2> DEFINE m == k - 1
  <2>2. m \in 1..Len(q) /\ r[m + 1] = q[m] /\ m + 1 = k
    BY <1>1, <2>1
  <2> QED BY <2>2
<1>3. ASSUME OnceIn(q), ~Queued(q, e)
      PROVE  OnceIn(r)
  <2> SUFFICES ASSUME NEW i \in 1..Len(r), NEW j \in 1..Len(r), r[i] = r[j], i # j
               PROVE  FALSE
    BY DEF OnceIn
  <2>1. CASE i = 1 \/ j = 1
    BY <1>1, <1>2, <1>3, <2>1 DEF Queued
  <2>2. CASE i # 1 /\ j # 1
    <3>1. i - 1 \in 1..Len(q) /\ j - 1 \in 1..Len(q) /\ q[i - 1] = q[j - 1]
      BY <1>2, <2>2
    <3>2. i - 1 = j - 1
      BY <1>3, <3>1 DEF OnceIn
    <3> QED BY <3>2
  <2> QED BY <2>1, <2>2
<1>4. ASSUME NEW x
      PROVE  Queued(r, x) <=> Queued(q, x) \/ x = e
  <2>1. Queued(r, x) => Queued(q, x) \/ x = e
    BY <1>1, <1>2 DEF Queued
  <2>2. ASSUME Queued(q, x)
        PROVE  Queued(r, x)
    <3>1. PICK k \in 1..Len(q) : q[k] = x
      BY <2>2 DEF Queued
    <3>2. k + 1 \in 1..Len(r) /\ r[k + 1] = x
      BY <1>1, <3>1
    <3> QED BY <3>2 DEF Queued
  <2>3. Queued(r, e)
    BY <1>1 DEF Queued
  <2> QED BY <2>1, <2>2, <2>3
<1> QED BY <1>1, <1>3, <1>4 DEF r

\* Taking the head off a list that has it once.
LEMMA TailQueued ==
  ASSUME NEW q \in Seq(Event), OnceIn(q), q # << >>
  PROVE  /\ Tail(q) \in Seq(Event) /\ OnceIn(Tail(q))
         /\ Head(q) \in Event /\ Queued(q, Head(q))
         /\ \A x : Queued(Tail(q), x) <=> Queued(q, x) /\ x # Head(q)
<1> DEFINE r == Tail(q)
<1>1. /\ r \in Seq(Event) /\ Len(r) = Len(q) - 1 /\ Len(q) \in Nat /\ Len(q) >= 1
      /\ Head(q) = q[1] /\ \A k \in 1..Len(r) : k + 1 \in 1..Len(q) /\ r[k] = q[k + 1]
  OBVIOUS
<1> HIDE DEF r
<1>2. OnceIn(r)
  <2> SUFFICES ASSUME NEW i \in 1..Len(r), NEW j \in 1..Len(r), r[i] = r[j]
               PROVE  i = j
    BY DEF OnceIn
  <2>1. i + 1 = j + 1
    BY <1>1 DEF OnceIn
  <2> QED BY <1>1, <2>1
<1>3. ASSUME NEW x
      PROVE  Queued(r, x) <=> Queued(q, x) /\ x # q[1]
  <2>1. ASSUME Queued(r, x)
        PROVE  Queued(q, x) /\ x # q[1]
    <3>1. PICK k \in 1..Len(r) : r[k] = x
      BY <2>1 DEF Queued
    <3>2. k + 1 \in 1..Len(q) /\ q[k + 1] = x /\ k + 1 # 1 /\ 1 \in 1..Len(q)
      BY <1>1, <3>1
    <3> QED BY <3>2 DEF Queued, OnceIn
  <2>2. ASSUME Queued(q, x), x # q[1]
        PROVE  Queued(r, x)
    <3>1. PICK k \in 1..Len(q) : q[k] = x
      BY <2>2 DEF Queued
    <3>2. k - 1 \in 1..Len(r) /\ (k - 1) + 1 = k
      BY <1>1, <2>2, <3>1
    <3>3. r[k - 1] = x
      BY <1>1, <3>1, <3>2
    <3> QED BY <3>2, <3>3 DEF Queued
  <2> QED BY <2>1, <2>2
<1>4. Head(q) \in Event /\ Queued(q, Head(q))
  BY <1>1 DEF Queued
<1> QED BY <1>1, <1>2, <1>3, <1>4 DEF r

(***************************************************************************)
(* The queues of gEventQueue: each event at most once, at its own level,   *)
(* and only events that have a notification function.                      *)
(***************************************************************************)
Sound(Q) ==
  /\ Q \in [0..TPL_HIGH_LEVEL -> Seq(Event)]
  /\ \A t \in 0..TPL_HIGH_LEVEL :
       /\ OnceIn(Q[t])
       /\ \A x : Queued(Q[t], x) => /\ x \in Event /\ NotifyTpl[x] = t
                                    /\ EventType[x] # "plain"

\* The event x is queued.
In(Q, x) == Queued(Q[NotifyTpl[x]], x)

\* A queued event makes its queue nonempty, and conversely.
LEMMA QueuedNonempty ==
  ASSUME NEW q \in Seq(Event)
  PROVE  q # << >> <=> \E x : Queued(q, x)
<1>1. ASSUME q # << >>
      PROVE  \E x : Queued(q, x)
  <2>1. 1 \in 1..Len(q)
    BY <1>1
  <2> QED BY <2>1 DEF Queued
<1>2. ASSUME NEW x, Queued(q, x)
      PROVE  q # << >>
  BY <1>2 DEF Queued
<1> QED BY <1>1, <1>2

\* The levels events are created with (CoreCreateEventInternal).
LEMMA NotifyLevel ==
  ASSUME NEW e \in Event
  PROVE  /\ NotifyTpl[e] \in 0..(TPL_HIGH_LEVEL - 1) /\ NotifyTpl[e] \in 0..TPL_HIGH_LEVEL
         /\ EventType[e] \in {"signal", "wait", "plain"}
<1>1. /\ ValidNotifyTpl(e) /\ NotifyTpl[e] \in 0..TPL_HIGH_LEVEL
      /\ EventType[e] \in {"signal", "wait", "plain"}
  BY EventAssumption
<1>2. NotifyTpl[e] < TPL_HIGH_LEVEL
  BY <1>1 DEF ValidNotifyTpl, TPL_HIGH_LEVEL
<1> QED BY <1>1, <1>2 DEF TPL_HIGH_LEVEL

\* CoreNotifyEvent queues e, once, and leaves the other events where they are.
LEMMA NotifyQueue ==
  ASSUME Sound(gEventQueue), QueuedIsPending, NEW e \in Event, EventType[e] # "plain",
         NotifyEvent(e)
  PROVE  /\ Sound(gEventQueue)' /\ QueuedIsPending'
         /\ \A t \in 0..TPL_HIGH_LEVEL : \A x :
              Queued(gEventQueue'[t], x) <=>
                Queued(gEventQueue[t], x) \/ (t = NotifyTpl[e] /\ x = e)
<1> DEFINE n == NotifyTpl[e]
           q == gEventQueue[n]
           r == RemoveEntry(q, e)
           Q == gEventQueue'
<1>1. n \in 0..TPL_HIGH_LEVEL
  BY NotifyLevel
<1>2. q \in Seq(Event) /\ OnceIn(q)
  BY <1>1 DEF Sound
<1>3. /\ r \in Seq(Event) /\ OnceIn(r)
      /\ \A x : Queued(r, x) <=> Queued(q, x) /\ x # e
  <2> HIDE DEF q
  <2> QED BY <1>2, RemoveQueued
<1>4. /\ Append(r, e) \in Seq(Event) /\ OnceIn(Append(r, e))
      /\ \A x : Queued(Append(r, e), x) <=> Queued(r, x) \/ x = e
  <2>1. ~Queued(r, e)
    BY <1>3
  <2> HIDE DEF r
  <2> QED BY <1>3, <2>1, AppendQueued
<1>5. /\ Q = [gEventQueue EXCEPT ![n] = Append(r, e)]
      /\ gEventPending' = gEventPending \cup {n}
  BY DEF NotifyEvent
<1>6. /\ Q[n] = Append(r, e)
      /\ \A t \in 0..TPL_HIGH_LEVEL : t # n => Q[t] = gEventQueue[t]
      /\ Q \in [0..TPL_HIGH_LEVEL -> Seq(Event)]
  <2> HIDE DEF r, n
  <2> QED BY <1>1, <1>4, <1>5 DEF Sound
<1> HIDE DEF r, Q
<1>7. ASSUME NEW t \in 0..TPL_HIGH_LEVEL
      PROVE  /\ OnceIn(Q[t])
             /\ \A x : Queued(Q[t], x) <=> Queued(gEventQueue[t], x) \/ (t = n /\ x = e)
  <2>1. CASE t = n
    BY <1>3, <1>4, <1>6, <2>1
  <2>2. CASE t # n
    BY <1>6, <2>2 DEF Sound
  <2> QED BY <2>1, <2>2
<1> HIDE DEF n
<1>8. Sound(Q)
  BY <1>6, <1>7 DEF Sound, n
<1>9. ASSUME NEW t \in 0..TPL_HIGH_LEVEL, Q[t] # << >>
      PROVE  t \in gEventPending'
  <2>1. PICK x : Queued(Q[t], x)
    <3>1. Q[t] \in Seq(Event)
      BY <1>6
    <3> QED BY <1>9, <3>1, QueuedNonempty
  <2>2. CASE Queued(gEventQueue[t], x)
    <3>1. gEventQueue[t] \in Seq(Event)
      BY DEF Sound
    <3>2. gEventQueue[t] # << >>
      BY <2>2, <3>1, QueuedNonempty
    <3> QED BY <1>5, <3>2 DEF QueuedIsPending
  <2>3. CASE t = n
    BY <1>5, <2>3
  <2> QED BY <1>7, <2>1, <2>2, <2>3
<1> QED BY <1>7, <1>8, <1>9 DEF QueuedIsPending, Q, n

-----------------------------------------------------------------------------
(* The calls in progress. *)

\* CoreDispatchEventNotifies has dequeued its event and not called its function.
Calling(f) == f.kind = "dispatch" /\ f.pc = "call"
\* CoreWaitForEvent is under way.
Waits(f) == f.kind = "client" /\ f.idx > 0
\* CoreCloseEvent(e) is under way, has unlinked the event.
Closes(f, e) == f.arg = e /\ f.pc \in {"unlink", "free"}
Frees(f, e) == f.arg = e /\ f.pc = "free"
\* The reasons, other than being queued, for e to be signalled (SignalNotLost).
Carries(f, e) ==
  \/ f.kind = "client" /\ f.pc = "siglist" /\ f.arg = e
  \/ f.kind = "list" /\ f.ev = e
  \/ Closes(f, e)

\* Only clients call services; CoreCheckEvent queues wait events.
CallOK(f) ==
  /\ f.kind # "client" => f.arg = NoEvent /\ f.pc \notin InService
  /\ f.pc = "queue" => EventType[f.arg] = "wait"

\* A record that has just been pushed.
Fresh(g) == g.arg = NoEvent /\ g.pc \notin InService /\ ~Calling(g) /\ ~Waits(g)

\* The running record becomes f and may have called others.
Becomes(s, t, f) ==
  /\ Len(t) \in Nat /\ Len(t) >= Len(s)
  /\ \A i \in 1..Len(s) : i < Len(s) => t[i] = s[i]
  /\ t[Len(s)] = f
  /\ \A i \in 1..Len(t) : i > Len(s) => Fresh(t[i])

\* The running record returns.
Returns(s, t) == Len(t) = Len(s) - 1 /\ \A i \in 1..Len(t) : t[i] = s[i]

\* Records of new activations are fresh.
LEMMA NewRecords ==
  ASSUME NEW tpl, NEW e
  PROVE  /\ Fresh(Restore(tpl)) /\ Restore(tpl).kind = "restore"
         /\ Fresh(Dispatch(tpl)) /\ Dispatch(tpl).kind = "dispatch"
         /\ Fresh(Irq(tpl)) /\ Irq(tpl).kind = "irq"
         /\ Fresh(Client(tpl, e)) /\ Client(tpl, e).kind = "client"
         /\ Fresh(SignalList(tpl, e)) /\ SignalList(tpl, e).kind = "list"
         /\ SignalList(tpl, e).ev = e /\ SignalList(tpl, e).idx = 1
BY DEF Fresh, Calling, Waits, InService, Restore, Dispatch, Irq, Client, SignalList

\* A step inside the running function.
LEMMA SetBecomes ==
  ASSUME IndInv, NEW f, stack' = SetTop(f)
  PROVE  Becomes(stack, stack', f) /\ Len(stack') = Len(stack) /\ Top' = f
<1>1. stack \in Seq(Frame) /\ Len(stack) \in Nat /\ Len(stack) >= 1
  BY TopInv DEF StackOK
<1> QED BY <1>1 DEF Becomes, SetTop, Top

\* A call.
LEMMA PushBecomes ==
  ASSUME IndInv, NEW f \in Frame, NEW g \in Frame, Fresh(g), stack' = Append(SetTop(f), g)
  PROVE  Becomes(stack, stack', f) /\ Len(stack') = Len(stack) + 1 /\ Top' = g
<1> DEFINE t == SetTop(f)
<1>1. stack \in Seq(Frame) /\ Len(stack) \in Nat /\ Len(stack) >= 1
  BY TopInv DEF StackOK
<1>2. /\ t \in Seq(Frame) /\ Len(t) = Len(stack) /\ t[Len(stack)] = f
      /\ \A i \in 1..Len(stack) : i < Len(stack) => t[i] = stack[i]
  BY <1>1 DEF SetTop
<1>3. stack' = Append(t, g)
  OBVIOUS
<1> HIDE DEF t
<1>4. /\ Len(stack') = Len(stack) + 1 /\ stack'[Len(stack) + 1] = g
      /\ \A i \in 1..Len(stack) : stack'[i] = t[i]
  BY <1>1, <1>2, <1>3
<1>5. \A i \in 1..Len(stack') : i > Len(stack) => stack'[i] = g
  BY <1>1, <1>4
<1> QED BY <1>1, <1>2, <1>4, <1>5 DEF Becomes, Top

\* The timer interrupt leaves the running record as it is.
LEMMA TickBecomes ==
  ASSUME IndInv, TimerInterrupt
  PROVE  /\ Becomes(stack, stack', Top) /\ Top'.kind = "restore"
         /\ stack'[Len(stack) + 1].kind # "client"
<1> DEFINE g == Irq(gEfiCurrentTpl)
           r == Restore(gEfiCurrentTpl)
<1>1. /\ stack \in Seq(Frame) /\ Len(stack) \in Nat /\ Len(stack) >= 1
      /\ gEfiCurrentTpl \in 0..TPL_HIGH_LEVEL
  BY TopInv DEF StackOK
<1>2. g \in Frame /\ r \in Frame /\ Fresh(g) /\ Fresh(r) /\ r.kind = "restore"
  BY <1>1, NewRecords, RestoreFrame, IrqFrame
<1>8. g.kind = "irq"
  BY NewRecords
<1>3. stack' = Append(Append(stack, g), r)
  BY DEF TimerInterrupt, Push
<1> HIDE DEF g, r
<1>4. /\ Len(stack') = Len(stack) + 2
      /\ stack'[Len(stack) + 1] = g /\ stack'[Len(stack) + 2] = r
      /\ \A i \in 1..Len(stack) : stack'[i] = stack[i]
  BY <1>1, <1>2, <1>3
<1>5. \A i \in 1..Len(stack') : i > Len(stack) => stack'[i] = g \/ stack'[i] = r
  <2> SUFFICES ASSUME NEW i \in 1..Len(stack'), i > Len(stack)
               PROVE  i = Len(stack) + 1 \/ i = Len(stack) + 2
    BY <1>4
  <2> QED BY <1>1, <1>4
<1>6. stack'[Len(stack)] = Top
  BY <1>1, <1>4 DEF Top
<1>7. Becomes(stack, stack', Top)
  BY <1>1, <1>2, <1>4, <1>5, <1>6 DEF Becomes
<1> QED BY <1>2, <1>4, <1>7, <1>8 DEF Top

\* A region under the event lock ends with CoreRestoreTpl.
LEMMA LockedBecomes ==
  ASSUME IndInv, NEW f \in Frame, EventLocked(f)
  PROVE  /\ Becomes(stack, stack', f) /\ Len(stack') = Len(stack) + 1 /\ Top'.kind = "restore"
         /\ stack'[Len(stack) + 1].kind # "client"
<1> DEFINE r == Restore(gEfiCurrentTpl)
<1>1. r \in Frame /\ Fresh(r) /\ r.kind = "restore"
  BY TopInv, RestoreFrame, NewRecords
<1>2. stack' = Append(SetTop(f), r)
  BY DEF EventLocked
<1> HIDE DEF r
<1>3. Becomes(stack, stack', f) /\ Len(stack') = Len(stack) + 1 /\ Top' = r
  BY <1>1, <1>2, PushBecomes
<1> QED BY <1>1, <1>3 DEF Top

\* A return; nothing ever returns to CoreNotifySignalList, which calls nobody.
LEMMA BelowReturns ==
  ASSUME IndInv, Top.kind # "client" \/ Top.ev # NoEvent, stack' = Below
  PROVE  Returns(stack, stack') /\ Len(stack) >= 2 /\ Top'.kind # "list"
<1>1. StackOK(stack) /\ Top = stack[Len(stack)] /\ Len(stack) \in Nat /\ Top \in Frame
  BY TopInv
<1>2. /\ Len(stack) >= 2 /\ Len(stack') = Len(stack) - 1
      /\ stack'[Len(stack) - 1] = stack[Len(stack) - 1]
      /\ Link(stack[Len(stack) - 1], stack[Len(stack)])
  BY <1>1, PopOK DEF Below
<1>3. \A i \in 1..Len(stack') : stack'[i] = stack[i]
  BY <1>1, <1>2 DEF Below, StackOK
<1>4. Top.kind \in Kinds
  BY <1>1 DEF Frame
<1>5. stack[Len(stack) - 1].kind # "list"
  BY <1>1, <1>2, <1>4 DEF Link, Holders, Kinds
<1>6. Top' = stack'[Len(stack) - 1]
  BY <1>2 DEF Top
<1> QED BY <1>2, <1>3, <1>5, <1>6 DEF Returns

-----------------------------------------------------------------------------
(* The invariant of the queues and signals. *)

CallsOK(s) == \A i \in 1..Len(s) : CallOK(s[i])
Freeing(s, e) == \E i \in 1..Len(s) : Frees(s[i], e)
Carried(s, e) == \E i \in 1..Len(s) : Carries(s[i], e)

(***************************************************************************)
(* gEventSignalQueue holds the EVT_NOTIFY_SIGNAL events that exist, once,  *)
(* except those that CoreCloseEvent has unlinked and not yet freed.        *)
(***************************************************************************)
Linked(s, S, L) ==
  /\ OnceIn(S)
  /\ \A x : Queued(S, x) => x \in L /\ EventType[x] = "signal"
  /\ \A x \in L : EventType[x] = "signal" => Queued(S, x) \/ Freeing(s, x)
  /\ \A i \in 1..Len(s) : s[i].pc = "free" => ~Queued(S, s[i].arg)

\* SignalNotLost, of the stack s, the queues Q, the counts C and the events L.
Kept(s, Q, C, L) ==
  \A x \in L : (EventType[x] = "signal" /\ C[x] # 0) => In(Q, x) \/ Carried(s, x)

(***************************************************************************)
(* CoreNotifySignalList has queued the members of the group it has walked  *)
(* past.  It holds the event lock, so nobody takes them off meanwhile.     *)
(***************************************************************************)
Walked(f, S, Q) ==
  f.kind = "list" =>
    \A k \in 1..Len(S) :
      k < f.idx /\ EventGroup[S[k]] = EventGroup[f.ev] => In(Q, S[k])

SignalInv ==
  /\ Sound(gEventQueue)
  /\ QueuedIsPending
  /\ CallsOK(stack)
  /\ Linked(stack, gEventSignalQueue, live)
  /\ Kept(stack, gEventQueue, SignalCount, live)
  /\ Walked(Top, gEventSignalQueue, gEventQueue)

\* What a call keeps: the records below the running one, and with it whatever it
\* still does for an event.
LEMMA CarriedOn ==
  ASSUME NEW s, NEW t, NEW f, Len(s) \in Nat, Len(s) >= 1, Becomes(s, t, f), NEW x
  PROVE  /\ Carries(f, x) => Carried(t, x)
         /\ Carried(s, x) /\ (Carries(s[Len(s)], x) => Carries(f, x)) => Carried(t, x)
         /\ Frees(f, x) => Freeing(t, x)
         /\ Freeing(s, x) /\ (Frees(s[Len(s)], x) => Frees(f, x)) => Freeing(t, x)
<1>1. /\ Len(s) \in 1..Len(t) /\ t[Len(s)] = f
      /\ \A i \in 1..Len(s) : i \in 1..Len(t) /\ (i # Len(s) => t[i] = s[i])
  BY DEF Becomes
<1>2. Carries(f, x) => Carried(t, x)
  BY <1>1 DEF Carried
<1>3. ASSUME Carried(s, x), Carries(s[Len(s)], x) => Carries(f, x)
      PROVE  Carried(t, x)
  <2>1. PICK i \in 1..Len(s) : Carries(s[i], x)
    BY <1>3 DEF Carried
  <2>2. CASE i = Len(s)
    BY <1>2, <1>3, <2>1, <2>2
  <2>3. CASE i # Len(s)
    BY <1>1, <2>1, <2>3 DEF Carried
  <2> QED BY <2>2, <2>3
<1>4. Frees(f, x) => Freeing(t, x)
  BY <1>1 DEF Freeing
<1>5. ASSUME Freeing(s, x), Frees(s[Len(s)], x) => Frees(f, x)
      PROVE  Freeing(t, x)
  <2>1. PICK i \in 1..Len(s) : Frees(s[i], x)
    BY <1>5 DEF Freeing
  <2>2. CASE i = Len(s)
    BY <1>4, <1>5, <2>1, <2>2
  <2>3. CASE i # Len(s)
    BY <1>1, <2>1, <2>3 DEF Freeing
  <2> QED BY <2>2, <2>3
<1> QED BY <1>2, <1>3, <1>4, <1>5

\* What a return keeps.
LEMMA CarriedBack ==
  ASSUME NEW s, NEW t, Len(s) \in Nat, Len(s) >= 1, Returns(s, t), NEW x
  PROVE  /\ Carried(s, x) /\ ~Carries(s[Len(s)], x) => Carried(t, x)
         /\ Freeing(s, x) /\ ~Frees(s[Len(s)], x) => Freeing(t, x)
<1>1. \A i \in 1..Len(s) : i # Len(s) => i \in 1..Len(t) /\ t[i] = s[i]
  BY DEF Returns
<1> QED BY <1>1 DEF Carried, Freeing

\* Service calls stay well formed over a call and over a return.
LEMMA CallsKept ==
  ASSUME NEW s, NEW t, NEW f, Len(s) \in Nat, Len(s) >= 1, CallsOK(s),
         (Becomes(s, t, f) /\ CallOK(f)) \/ Returns(s, t)
  PROVE  CallsOK(t)
<1>1. CASE Becomes(s, t, f) /\ CallOK(f)
  <2> SUFFICES ASSUME NEW i \in 1..Len(t)
               PROVE  CallOK(t[i])
    BY DEF CallsOK
  <2>1. CASE i < Len(s)
    BY <1>1, <2>1 DEF Becomes, CallsOK
  <2>2. CASE i = Len(s)
    BY <1>1, <2>2 DEF Becomes
  <2>3. CASE i > Len(s)
    BY <1>1, <2>3 DEF Becomes, Fresh, CallOK, InService
  <2> QED BY <1>1, <2>1, <2>2, <2>3 DEF Becomes
<1>2. CASE Returns(s, t)
  BY <1>2 DEF Returns, CallsOK
<1> QED BY <1>1, <1>2

\* Only CoreCloseEvent changes who is on the way out of gEventSignalQueue.
LEMMA LinkedKept ==
  ASSUME NEW s, NEW t, NEW f, NEW S, NEW L, Len(s) \in Nat, Len(s) >= 1, Linked(s, S, L),
         \/ /\ Becomes(s, t, f)
            /\ (f.pc = "free" \/ s[Len(s)].pc = "free")
                 => f.pc = s[Len(s)].pc /\ f.arg = s[Len(s)].arg
         \/ Returns(s, t) /\ s[Len(s)].pc # "free"
  PROVE  Linked(t, S, L)
<1>1. ASSUME NEW x \in L, EventType[x] = "signal"
      PROVE  Queued(S, x) \/ Freeing(t, x)
  <2>1. Queued(S, x) \/ Freeing(s, x)
    BY <1>1 DEF Linked
  <2>2. CASE Becomes(s, t, f)
    <3>1. s[Len(s)].pc = "free" \/ f.pc = "free" => f.pc = s[Len(s)].pc /\ f.arg = s[Len(s)].arg
      BY <2>2 DEF Becomes, Returns
    <3>2. Frees(s[Len(s)], x) => Frees(f, x)
      BY <3>1 DEF Frees
    <3> QED BY <2>1, <2>2, <3>2, CarriedOn
  <2>3. CASE Returns(s, t) /\ s[Len(s)].pc # "free"
    BY <2>1, <2>3, CarriedBack DEF Frees
  <2> QED BY <2>2, <2>3
<1>2. ASSUME NEW i \in 1..Len(t), t[i].pc = "free"
      PROVE  ~Queued(S, t[i].arg)
  <2>1. CASE Returns(s, t)
    BY <1>2, <2>1 DEF Returns, Linked
  <2>2. CASE Becomes(s, t, f)
    <3>1. s[Len(s)].pc = "free" \/ f.pc = "free" => f.pc = s[Len(s)].pc /\ f.arg = s[Len(s)].arg
      BY <2>2 DEF Becomes, Returns
    <3>2. CASE i < Len(s)
      BY <1>2, <2>2, <3>2 DEF Becomes, Linked
    <3>3. CASE i = Len(s)
      BY <1>2, <2>2, <3>1, <3>3 DEF Becomes, Linked
    <3>4. CASE i > Len(s)
      BY <1>2, <2>2, <3>4 DEF Becomes, Fresh, InService
    <3> QED BY <2>2, <3>2, <3>3, <3>4 DEF Becomes
  <2> QED BY <2>1, <2>2
<1> QED BY <1>1, <1>2 DEF Linked

\* Signals survive a step: an event that is signalled after it is queued, or f
\* stands for it, or whatever stood for it before still does.
SignalsCarried(f) ==
  \A x \in live : (EventType[x] = "signal" /\ SignalCount'[x] # 0) =>
    \/ In(gEventQueue', x)
    \/ Carries(f, x)
    \/ /\ SignalCount[x] # 0
       /\ In(gEventQueue, x) => In(gEventQueue', x)
       /\ Carries(Top, x) => Carries(f, x)

\* A step that creates, unlinks and frees no event.
LEMMA SignalStep ==
  ASSUME IndInv, SignalInv, NEW f, Becomes(stack, stack', f), CallOK(f),
         (f.pc = "free" \/ Top.pc = "free") => f.pc = Top.pc /\ f.arg = Top.arg,
         UNCHANGED <<gEventSignalQueue, live>>,
         SignalsCarried(f),
         Sound(gEventQueue'), QueuedIsPending',
         Walked(Top', gEventSignalQueue', gEventQueue')
  PROVE  SignalInv'
<1>1. Top = stack[Len(stack)] /\ Len(stack) \in Nat /\ Len(stack) >= 1
  BY TopInv
<1>2. CallsOK(stack')
  BY <1>1, CallsKept DEF SignalInv
<1>3. Linked(stack', gEventSignalQueue', live')
  <2>1. Linked(stack, gEventSignalQueue, live)
    BY DEF SignalInv
  <2> QED BY <1>1, <2>1, LinkedKept
<1>4. Kept(stack', gEventQueue', SignalCount', live')
  <2> SUFFICES ASSUME NEW x \in live, EventType[x] = "signal", SignalCount'[x] # 0,
                      ~In(gEventQueue', x)
               PROVE  Carried(stack', x)
    BY DEF Kept
  <2>1. CASE Carries(f, x)
    BY <1>1, <2>1, CarriedOn
  <2>2. CASE ~Carries(f, x)
    <3>1. SignalCount[x] # 0 /\ ~In(gEventQueue, x) /\ (Carries(Top, x) => Carries(f, x))
      BY <2>2 DEF SignalsCarried
    <3>2. Carried(stack, x)
      BY <3>1 DEF SignalInv, Kept
    <3> QED BY <1>1, <3>1, <3>2, CarriedOn
  <2> QED BY <2>1, <2>2
<1> QED BY <1>2, <1>3, <1>4 DEF SignalInv

\* A step of a record that does nothing for an event, and touches no queue.
LEMMA QuietStep ==
  ASSUME IndInv, SignalInv, NEW f, Becomes(stack, stack', f), CallOK(f),
         Top.kind # "list", Top.pc \notin {"siglist", "unlink", "free"}, f.pc # "free",
         UNCHANGED <<gEventQueue, gEventSignalQueue, SignalCount, live>>,
         QueuedIsPending', Top'.kind # "list"
  PROVE  SignalInv'
<1>1. \A x : ~Carries(Top, x)
  BY DEF Carries, Closes
<1>2. SignalsCarried(f)
  BY <1>1 DEF SignalsCarried
<1>3. Sound(gEventQueue')
  BY DEF SignalInv
<1>4. Walked(Top', gEventSignalQueue', gEventQueue')
  BY DEF Walked
<1> QED BY <1>2, <1>3, <1>4, SignalStep

\* A pending bit stays right when neither queue nor mask changes.
LEMMA PendingKept ==
  ASSUME SignalInv, UNCHANGED evtVars
  PROVE  /\ QueuedIsPending'
         /\ UNCHANGED <<gEventQueue, gEventSignalQueue, SignalCount, live>>
BY DEF SignalInv, QueuedIsPending, evtVars

\* A return from a record that does nothing for an event.
LEMMA QuietReturn ==
  ASSUME IndInv, SignalInv, stack' = Below, UNCHANGED evtVars,
         Top.kind # "list", Top.kind # "client" \/ (Top.pc = "run" /\ Top.ev # NoEvent)
  PROVE  SignalInv'
<1>1. Top = stack[Len(stack)] /\ Len(stack) \in Nat /\ Len(stack) >= 1
  BY TopInv
<1>2. Returns(stack, stack') /\ Top'.kind # "list"
  BY BelowReturns
<1>3. CallOK(Top)
  BY <1>1 DEF SignalInv, CallsOK
<1>4. Top.pc \notin InService
  BY <1>3 DEF CallOK, InService
<1>5. \A x : ~Carries(Top, x) /\ Top.pc # "free"
  BY <1>4 DEF Carries, Closes, InService
<1>6. CallsOK(stack')
  BY <1>1, <1>2, CallsKept DEF SignalInv
<1>7. Linked(stack', gEventSignalQueue, live)
  <2>1. Linked(stack, gEventSignalQueue, live)
    BY DEF SignalInv
  <2> QED BY <1>1, <1>2, <1>5, <2>1, LinkedKept
<1>8. Kept(stack', gEventQueue, SignalCount, live)
  <2> SUFFICES ASSUME NEW x \in live, EventType[x] = "signal", SignalCount[x] # 0,
                      ~In(gEventQueue, x)
               PROVE  Carried(stack', x)
    BY DEF Kept
  <2>1. Carried(stack, x)
    BY DEF SignalInv, Kept
  <2> QED BY <1>1, <1>2, <1>5, <2>1, CarriedBack
<1>9. QueuedIsPending'
  BY PendingKept
<1>10. Walked(Top', gEventSignalQueue', gEventQueue')
  BY <1>2 DEF Walked
<1> QED BY <1>6, <1>7, <1>8, <1>9, <1>10 DEF SignalInv, evtVars

-----------------------------------------------------------------------------
(* One lemma per action. *)

\* The running record in full: its type, and what CallOK and FrameOK say of it.
LEMMA TopCall ==
  ASSUME IndInv, SignalInv
  PROVE  /\ Top \in Frame /\ FrameOK(Top) /\ CallOK(Top) /\ Top = stack[Len(stack)]
         /\ Top.arg \in Event \cup {NoEvent} /\ Top.ev \in Event \cup {NoEvent}
         /\ Top.kind # "client" => Top.pc \notin {"siglist", "unlink", "free"}
<1>1. Top \in Frame /\ FrameOK(Top) /\ Top = stack[Len(stack)] /\ Len(stack) \in Nat
      /\ Len(stack) >= 1
  BY TopInv
<1>2. CallOK(Top)
  BY <1>1 DEF SignalInv, CallsOK
<1>3. Top.kind # "client" => Top.pc \notin {"siglist", "unlink", "free"}
  BY <1>2 DEF CallOK, InService
<1> QED BY <1>1, <1>2, <1>3 DEF Frame

\* CoreRestoreTpl looks at gEventPending, computes PendingTpl, calls the dispatcher
\* and returns: nothing happens to the events.
LEMMA RestoreSignals ==
  ASSUME IndInv, SignalInv,
         RestoreTest \/ RestoreHighBit \/ RestoreDispatch \/ RestoreExit
  PROVE  SignalInv'
<1>1. /\ Top.kind = "restore" /\ Top \in Frame /\ FrameOK(Top)
      /\ Top.pc \notin {"siglist", "unlink", "free"} /\ Top.arg = NoEvent
  BY TopCall DEF RestoreTest, RestoreHighBit, RestoreDispatch, RestoreExit, At, CallOK
<1>2. ASSUME NEW p \in {"test", "high", "act"}, NEW n
      PROVE  /\ CallOK([Top EXCEPT !.pc = p, !.idx = n])
             /\ [Top EXCEPT !.pc = p, !.idx = n].pc # "free"
             /\ [Top EXCEPT !.pc = p, !.idx = n].kind = "restore"
             /\ n \in Nat => [Top EXCEPT !.pc = p, !.idx = n] \in Frame
  BY <1>1, <1>2 DEF CallOK, InService, Frame, Pcs
<1>3. UNCHANGED evtVars
  BY DEF RestoreTest, RestoreHighBit, RestoreDispatch, RestoreExit
<1>4. /\ QueuedIsPending'
      /\ UNCHANGED <<gEventQueue, gEventSignalQueue, SignalCount, live>>
  BY <1>3, PendingKept
<1>5. ASSUME NEW p \in {"test", "high", "act"}, NEW n, stack' = SetTop([Top EXCEPT !.pc = p, !.idx = n])
      PROVE  SignalInv'
  <2> DEFINE f == [Top EXCEPT !.pc = p, !.idx = n]
  <2>1. CallOK(f) /\ f.pc # "free" /\ f.kind = "restore"
    BY ONLY <1>2, p \in {"test", "high", "act"}
  <2>2. stack' = SetTop(f)
    BY <1>5
  <2> HIDE DEF f
  <2>3. Becomes(stack, stack', f) /\ Top' = f
    BY <2>2, SetBecomes
  <2> QED BY <1>1, <1>4, <2>1, <2>3, QuietStep
<1>6. CASE RestoreTest
  BY <1>5, <1>6 DEF RestoreTest
<1>7. CASE RestoreHighBit
  <2> DEFINE n == IF ReloadPending THEN HighBitSet64(gEventPending) ELSE Top.idx
  <2>1. stack' = SetTop([Top EXCEPT !.pc = "act", !.idx = n])
    BY <1>7 DEF RestoreHighBit
  <2> HIDE DEF n
  <2> QED BY <1>5, <2>1
<1>8. CASE RestoreDispatch
  <2> DEFINE f == [Top EXCEPT !.pc = "test", !.idx = 0]
             d == Dispatch(Top.idx)
  <2>1. CallOK(f) /\ f.pc # "free" /\ f \in Frame
    BY <1>2
  <2>2. Fresh(d) /\ d \in Frame /\ d.kind = "dispatch"
    BY <1>1, NewRecords DEF Dispatch, Frame, Kinds, Pcs
  <2>3. stack' = Append(SetTop(f), d)
    BY <1>8 DEF RestoreDispatch
  <2> HIDE DEF f, d
  <2>4. Becomes(stack, stack', f) /\ Top' = d
    BY <2>1, <2>2, <2>3, PushBecomes
  <2> QED BY <1>1, <1>4, <2>1, <2>2, <2>4, QuietStep
<1>9. CASE RestoreExit
  <2>1. stack' = Below
    BY <1>9 DEF RestoreExit
  <2> QED BY <1>1, <1>3, <2>1, QuietReturn
<1> QED BY <1>6, <1>7, <1>8, <1>9

\* Dispatcher, interrupt handler and notification functions return.
LEMMA ReturnSignals ==
  ASSUME IndInv, SignalInv, DispatchReturn \/ InterruptReturn \/ NotifyReturn
  PROVE  SignalInv'
<1>1. stack' = Below /\ UNCHANGED evtVars
  BY DEF DispatchReturn, InterruptReturn, NotifyReturn
<1>2. Top.kind # "list" /\ (Top.kind # "client" \/ (Top.pc = "run" /\ Top.ev # NoEvent))
  BY DEF DispatchReturn, InterruptReturn, NotifyReturn, At
<1> QED BY <1>1, <1>2, QuietReturn

\* The dispatcher calls a notification function.
LEMMA DispatchCallSignals ==
  ASSUME IndInv, SignalInv, DispatchCall
  PROVE  SignalInv'
<1> DEFINE f == [Top EXCEPT !.pc = "next", !.ev = NoEvent]
           c == Client(gEfiCurrentTpl, Top.ev)
<1>1. /\ Top.kind = "dispatch" /\ Top \in Frame /\ Top.ev \in Event \cup {NoEvent}
      /\ Top.pc \notin {"siglist", "unlink", "free"} /\ Top.arg = NoEvent
      /\ gEfiCurrentTpl \in 0..TPL_HIGH_LEVEL
  BY TopCall, TopInv DEF DispatchCall, At, CallOK
<1>2. CallOK(f) /\ f.pc # "free" /\ f \in Frame
  BY <1>1 DEF CallOK, InService, Frame, Pcs
<1>3. Fresh(c) /\ c.kind = "client" /\ c \in Frame
  <2>1. c \in Frame
    BY <1>1, ClientAssumption DEF Client, Frame, Kinds, Pcs, TPL_HIGH_LEVEL
  <2> QED BY <2>1, NewRecords
<1>4. stack' = Append(SetTop(f), c) /\ UNCHANGED evtVars
  BY DEF DispatchCall
<1> HIDE DEF f, c
<1>5. Becomes(stack, stack', f) /\ Top' = c
  BY <1>2, <1>3, <1>4, PushBecomes
<1>6. /\ QueuedIsPending'
      /\ UNCHANGED <<gEventQueue, gEventSignalQueue, SignalCount, live>>
  BY <1>4, PendingKept
<1> QED BY <1>1, <1>2, <1>3, <1>5, <1>6, QuietStep

\* The dispatcher finds its queue empty and clears the bit: no other bit is lost.
LEMMA DispatchEmptySignals ==
  ASSUME IndInv, SignalInv, DispatchEmpty
  PROVE  SignalInv'
<1> DEFINE f == [Top EXCEPT !.pc = "done"]
<1>1. /\ Top.kind = "dispatch" /\ Top \in Frame
      /\ Top.pc \notin {"siglist", "unlink", "free"} /\ Top.arg = NoEvent
  BY TopCall DEF DispatchEmpty, At, CallOK
<1>2. CallOK(f) /\ f.pc # "free" /\ f \in Frame
  BY <1>1 DEF CallOK, InService, Frame, Pcs
<1>3. EventLocked(f) /\ UNCHANGED <<gEventQueue, gEventSignalQueue, SignalCount, live>>
  BY DEF DispatchEmpty
<1> HIDE DEF f
<1>4. Becomes(stack, stack', f) /\ Top'.kind = "restore"
  BY <1>2, <1>3, LockedBecomes
<1>5. QueuedIsPending'
  <2>1. gEventQueue[Top.lvl] = << >> /\ gEventPending' = gEventPending \ {Top.lvl}
    BY DEF DispatchEmpty
  <2> QED BY <1>3, <2>1 DEF QueuedIsPending, SignalInv
<1> QED BY <1>1, <1>2, <1>3, <1>4, <1>5, QuietStep

\* The dispatcher takes an event off its queue and clears its signal.
LEMMA DispatchNextSignals ==
  ASSUME IndInv, SignalInv, DispatchNext
  PROVE  /\ SignalInv'
         /\ LET e == Head(gEventQueue[Top.lvl])
            IN  /\ Queued(gEventQueue[Top.lvl], e) /\ e \in Event
                /\ Becomes(stack, stack', [Top EXCEPT !.pc = "call", !.ev = e])
                /\ \A t \in 0..TPL_HIGH_LEVEL : \A x :
                     Queued(gEventQueue'[t], x) => Queued(gEventQueue[t], x)
<1> DEFINE l == Top.lvl
           q == gEventQueue[l]
           e == Head(q)
           f == [Top EXCEPT !.pc = "call", !.ev = e]
           Q == gEventQueue'
<1>1. /\ Top.kind = "dispatch" /\ Top \in Frame /\ Top.lvl \in 0..TPL_HIGH_LEVEL
      /\ Top.pc \notin {"siglist", "unlink", "free"} /\ Top.arg = NoEvent
  <2>1. /\ Top.kind = "dispatch" /\ Top \in Frame /\ FrameOK(Top)
        /\ Top.pc \notin {"siglist", "unlink", "free"} /\ Top.arg = NoEvent
    BY TopCall DEF DispatchNext, At, CallOK
  <2>2. Top.lvl \in Nat /\ Top.lvl < TPL_HIGH_LEVEL
    BY <2>1, TopInv DEF FrameOK
  <2> QED BY <2>1, <2>2 DEF TPL_HIGH_LEVEL
<1>2. q \in Seq(Event) /\ OnceIn(q) /\ q # << >> /\ Sound(gEventQueue)
  BY <1>1 DEF SignalInv, Sound, DispatchNext
<1>3. /\ Tail(q) \in Seq(Event) /\ OnceIn(Tail(q)) /\ e \in Event /\ Queued(q, e)
      /\ \A x : Queued(Tail(q), x) <=> Queued(q, x) /\ x # e
  <2> HIDE DEF q
  <2> QED BY <1>2, TailQueued
<1>4. /\ Q = [gEventQueue EXCEPT ![l] = Tail(q)]
      /\ SignalCount' = (IF EventType[e] = "signal"
                         THEN [SignalCount EXCEPT ![e] = 0] ELSE SignalCount)
      /\ EventLocked(f) /\ UNCHANGED <<gEventPending, gEventSignalQueue, live>>
  BY DEF DispatchNext
<1>5. CallOK(f) /\ f.pc # "free" /\ f \in Frame
  <2> HIDE DEF e
  <2> QED BY <1>1, <1>3 DEF CallOK, InService, Frame, Pcs
<1>6. /\ Q \in [0..TPL_HIGH_LEVEL -> Seq(Event)] /\ Q[l] = Tail(q)
      /\ \A t \in 0..TPL_HIGH_LEVEL : t # l => Q[t] = gEventQueue[t]
  BY <1>1, <1>2, <1>3, <1>4 DEF Sound
<1> HIDE DEF f
<1>7. Becomes(stack, stack', f) /\ Top'.kind = "restore"
  BY <1>4, <1>5, LockedBecomes
<1> HIDE DEF Q
<1>8. ASSUME NEW t \in 0..TPL_HIGH_LEVEL
      PROVE  /\ OnceIn(Q[t])
             /\ \A x : Queued(Q[t], x) <=> Queued(gEventQueue[t], x) /\ (t # l \/ x # e)
  <2>1. CASE t = l
    BY <1>3, <1>6, <2>1
  <2>2. CASE t # l
    BY <1>2, <1>6, <2>2 DEF Sound
  <2> QED BY <2>1, <2>2
<1> HIDE DEF e, l, q
<1>9. Sound(Q)
  BY <1>2, <1>6, <1>8 DEF Sound
<1>10. QueuedIsPending'
  <2> SUFFICES ASSUME NEW t \in 0..TPL_HIGH_LEVEL, Q[t] # << >>
               PROVE  t \in gEventPending'
    BY DEF QueuedIsPending, Q
  <2>1. Q[t] \in Seq(Event) /\ gEventQueue[t] \in Seq(Event)
    BY <1>2, <1>6 DEF Sound
  <2>2. \E x : Queued(Q[t], x)
    BY <2>1, QueuedNonempty
  <2>3. \E x : Queued(gEventQueue[t], x)
    BY <1>8, <2>2
  <2>4. gEventQueue[t] # << >>
    BY <2>1, <2>3, QueuedNonempty
  <2> QED BY <1>4, <2>4 DEF SignalInv, QueuedIsPending
<1>11. SignalsCarried(f)
  <2> SUFFICES ASSUME NEW x \in live, EventType[x] = "signal", SignalCount'[x] # 0
               PROVE  /\ SignalCount[x] # 0
                      /\ In(gEventQueue, x) => In(Q, x)
                      /\ Carries(Top, x) => Carries(f, x)
    BY DEF SignalsCarried, Q
  <2>1. x \in Event /\ SignalCount \in [Event -> {0, 1}]
    BY DEF IndInv, EvtTypeOK
  <2>2. x # e
    BY <1>3, <1>4, <2>1
  <2>3. SignalCount[x] # 0
    BY <1>3, <1>4, <2>1, <2>2
  <2>4. In(gEventQueue, x) => In(Q, x)
    BY <1>8, <2>1, <2>2, NotifyLevel DEF In
  <2>5. ~Carries(Top, x)
    BY <1>1 DEF Carries, Closes
  <2> QED BY <2>3, <2>4, <2>5
<1>12. Walked(Top', gEventSignalQueue', gEventQueue')
  BY <1>7 DEF Walked
<1>13. SignalInv'
  <2>1. (f.pc = "free" \/ Top.pc = "free") => f.pc = Top.pc /\ f.arg = Top.arg
    BY <1>1, <1>5
  <2>2. Sound(gEventQueue') /\ UNCHANGED <<gEventSignalQueue, live>>
    BY <1>4, <1>9 DEF Q
  <2> QED BY <1>5, <1>7, <1>10, <1>11, <1>12, <2>1, <2>2, SignalStep
<1> QED BY <1>3, <1>7, <1>8, <1>13 DEF e, q, l, f, Q

\* CoreNotifyEvent(e), with or without a new signal of e.
LEMMA NotifySignals ==
  ASSUME IndInv, SignalInv, NEW f, Becomes(stack, stack', f), CallOK(f),
         (f.pc = "free" \/ Top.pc = "free") => f.pc = Top.pc /\ f.arg = Top.arg,
         \A x \in Event : Carries(Top, x) => Carries(f, x),
         Top'.kind # "list",
         NEW e \in Event, EventType[e] # "plain", NotifyEvent(e),
         SignalCount' = SignalCount \/ SignalCount' = [SignalCount EXCEPT ![e] = 1],
         UNCHANGED <<gEventSignalQueue, live>>
  PROVE  SignalInv'
<1>1. /\ Sound(gEventQueue') /\ QueuedIsPending'
      /\ \A t \in 0..TPL_HIGH_LEVEL : \A x :
           Queued(gEventQueue'[t], x) <=>
             Queued(gEventQueue[t], x) \/ (t = NotifyTpl[e] /\ x = e)
  BY NotifyQueue DEF SignalInv
<1>2. SignalsCarried(f)
  <2> SUFFICES ASSUME NEW x \in live, EventType[x] = "signal", SignalCount'[x] # 0,
                      ~In(gEventQueue', x)
               PROVE  /\ SignalCount[x] # 0
                      /\ ~In(gEventQueue, x)
                      /\ Carries(Top, x) => Carries(f, x)
    BY DEF SignalsCarried
  <2>1. x \in Event /\ SignalCount \in [Event -> {0, 1}]
    BY DEF IndInv, EvtTypeOK
  <2>2. NotifyTpl[x] \in 0..TPL_HIGH_LEVEL
    BY <2>1, NotifyLevel
  <2>3. x # e /\ ~In(gEventQueue, x)
    BY <1>1, <2>2 DEF In
  <2> QED BY <2>1, <2>3
<1>3. Walked(Top', gEventSignalQueue', gEventQueue')
  BY DEF Walked
<1> QED BY <1>1, <1>2, <1>3, SignalStep

\* Counting a call changes only that count.
LEMMA CalledSame ==
  ASSUME IndInv, Running
  PROVE  /\ Called \in Frame /\ Called.kind = "client" /\ Called.pc = "run"
         /\ Called.arg = Top.arg /\ Called.idx = Top.idx /\ Called.ev = Top.ev
         /\ Called.lvl = Top.lvl /\ Top.kind = "client" /\ Top.pc = "run"
<1>1. Called \in Frame /\ Called.kind = "client" /\ Called.pc = "run" /\ Top.kind = "client"
  BY CalledOK
<1>2. Top \in Frame
  BY TopInv
<1> QED BY <1>1, <1>2 DEF Called, Frame, Running, At

\* A region under the event lock in which a client that does nothing for an event
\* changes no queue.
LEMMA LockedQuiet ==
  ASSUME IndInv, SignalInv, NEW f \in Frame, CallOK(f), f.pc # "free", EventLocked(f),
         Top.kind = "client", Top.pc \notin {"siglist", "unlink", "free"},
         UNCHANGED <<gEventPending, gEventQueue, gEventSignalQueue, SignalCount, live>>
  PROVE  SignalInv'
<1>1. Becomes(stack, stack', f) /\ Top'.kind = "restore"
  BY LockedBecomes
<1>2. QueuedIsPending'
  BY DEF SignalInv, QueuedIsPending
<1> QED BY <1>1, <1>2, QuietStep

\* CoreSignalEvent: the event is queued, or its group is about to be.
LEMMA SignalEventSignals ==
  ASSUME IndInv, SignalInv, NEW f \in Frame, f.kind = "client", f.pc \in {"run", "wait"},
         Top.kind = "client", Top.pc \in {"run", "wait"}, NEW e \in Event, SignalEvent(f, e)
  PROVE  SignalInv'
<1> DEFINE g == [f EXCEPT !.pc = "siglist", !.arg = e]
<1>1. CallOK(f) /\ f.pc # "free" /\ \A x : ~Carries(Top, x)
  BY DEF CallOK, Carries, Closes
<1>2. /\ g \in Frame /\ g.kind = "client" /\ g.pc = "siglist" /\ g.arg = e
      /\ CallOK(g) /\ Carries(g, e)
  BY DEF Frame, Pcs, CallOK, Carries
<1>3. UNCHANGED <<gEventSignalQueue, live>> /\ SignalCount \in [Event -> {0, 1}]
  BY DEF SignalEvent, IndInv, EvtTypeOK
<1>4. CASE SignalCount[e] # 0
  <2>1. EventLocked(f) /\ UNCHANGED <<SignalCount, gEventQueue, gEventPending>>
    BY <1>4 DEF SignalEvent
  <2> QED BY <1>1, <1>3, <2>1, LockedQuiet
<1>5. CASE SignalCount[e] = 0 /\ EventType[e] = "signal" /\ EventGroup[e] # NoGroup
  <2>1. /\ EventLocked(g) /\ UNCHANGED <<gEventQueue, gEventPending>>
        /\ SignalCount' = [SignalCount EXCEPT ![e] = 1]
    BY <1>5 DEF SignalEvent
  <2> HIDE DEF g
  <2>2. Becomes(stack, stack', g) /\ Top'.kind = "restore"
    BY <1>2, <2>1, LockedBecomes
  <2>3. SignalsCarried(g)
    <3> SUFFICES ASSUME NEW x \in live, SignalCount'[x] # 0, ~Carries(g, x)
                 PROVE  SignalCount[x] # 0
      BY <1>1, <2>1 DEF SignalsCarried
    <3>1. x \in Event /\ x # e
      BY <1>2 DEF IndInv, EvtTypeOK
    <3> QED BY <1>3, <2>1, <3>1
  <2>4. Walked(Top', gEventSignalQueue', gEventQueue')
    BY <2>2 DEF Walked
  <2>5. Sound(gEventQueue') /\ QueuedIsPending'
    BY <2>1 DEF SignalInv, QueuedIsPending
  <2>6. (g.pc = "free" \/ Top.pc = "free") => g.pc = Top.pc /\ g.arg = Top.arg
    BY <1>2
  <2> QED BY <1>2, <1>3, <2>2, <2>3, <2>4, <2>5, <2>6, SignalStep
<1>6. CASE SignalCount[e] = 0 /\ EventType[e] = "signal" /\ EventGroup[e] = NoGroup
  <2>1. EventLocked(f) /\ SignalCount' = [SignalCount EXCEPT ![e] = 1] /\ NotifyEvent(e)
    BY <1>6 DEF SignalEvent
  <2>2. Becomes(stack, stack', f) /\ Top'.kind = "restore"
    BY <2>1, LockedBecomes
  <2>3. (f.pc = "free" \/ Top.pc = "free") => f.pc = Top.pc /\ f.arg = Top.arg
    BY <1>1
  <2> QED BY <1>1, <1>3, <1>6, <2>1, <2>2, <2>3, NotifySignals
<1>7. CASE SignalCount[e] = 0 /\ EventType[e] # "signal"
  <2>1. /\ EventLocked(f) /\ SignalCount' = [SignalCount EXCEPT ![e] = 1]
        /\ UNCHANGED <<gEventQueue, gEventPending>>
    BY <1>7 DEF SignalEvent
  <2>2. Becomes(stack, stack', f) /\ Top'.kind = "restore"
    BY <2>1, LockedBecomes
  <2>3. SignalsCarried(f)
    <3> SUFFICES ASSUME NEW x \in live, EventType[x] = "signal", SignalCount'[x] # 0
                 PROVE  SignalCount[x] # 0
      BY <1>1, <2>1 DEF SignalsCarried
    <3>1. x \in Event /\ x # e
      BY <1>7 DEF IndInv, EvtTypeOK
    <3> QED BY <1>3, <2>1, <3>1
  <2>4. Walked(Top', gEventSignalQueue', gEventQueue')
    BY <2>2 DEF Walked
  <2>5. Sound(gEventQueue') /\ QueuedIsPending'
    BY <2>1 DEF SignalInv, QueuedIsPending
  <2>6. (f.pc = "free" \/ Top.pc = "free") => f.pc = Top.pc /\ f.arg = Top.arg
    BY <1>1
  <2> QED BY <1>1, <1>3, <2>2, <2>3, <2>4, <2>5, <2>6, SignalStep
<1> QED BY <1>3, <1>4, <1>5, <1>6, <1>7

\* CoreSignalEvent called by a client, and by CoreWaitForEvent for the idle event.
LEMMA ClientSignals ==
  ASSUME IndInv, SignalInv, WaitIdle \/ \E e \in Event : ClientSignalEvent(e)
  PROVE  SignalInv'
<1>1. ASSUME NEW e \in Event, ClientSignalEvent(e)
      PROVE  SignalInv'
  <2>1. Running /\ SignalEvent(Called, e)
    BY <1>1 DEF ClientSignalEvent
  <2>2. /\ Called \in Frame /\ Called.kind = "client" /\ Called.pc = "run"
        /\ Top.kind = "client" /\ Top.pc = "run"
    BY <2>1, CalledSame
  <2> QED BY <2>1, <2>2, SignalEventSignals
<1>2. CASE WaitIdle
  <2> DEFINE f == [Top EXCEPT !.idx = 1]
  <2>1. Top \in Frame /\ Top.kind = "client" /\ Top.pc = "wait" /\ SignalEvent(f, IdleEvent)
    BY <1>2, TopInv DEF WaitIdle, At
  <2>2. f \in Frame /\ f.kind = "client" /\ f.pc = "wait" /\ IdleEvent \in Event
    BY <2>1, EventAssumption DEF Frame
  <2> HIDE DEF f
  <2> QED BY <2>1, <2>2, SignalEventSignals
<1> QED BY <1>1, <1>2

\* The timer-check event is signalled by a tick, or by CoreSetTimer.
LEMMA TimerSignals ==
  ASSUME IndInv, SignalInv, TimerInterrupt \/ ClientSetTimerNow
  PROVE  SignalInv'
<1> DEFINE e == CheckTimerEvent
<1>1. e \in Event /\ EventType[e] # "plain"
  BY EventAssumption
<1>2. UNCHANGED <<gEventSignalQueue, live>>
  BY DEF TimerInterrupt, ClientSetTimerNow
<1>3. \/ SignalCount' = [SignalCount EXCEPT ![e] = 1] /\ NotifyEvent(e)
      \/ UNCHANGED <<SignalCount, gEventQueue, gEventPending>>
  BY DEF TimerInterrupt, ClientSetTimerNow
<1>4. ASSUME NEW f, Becomes(stack, stack', f), CallOK(f), Top'.kind = "restore",
             (f.pc = "free" \/ Top.pc = "free") => f.pc = Top.pc /\ f.arg = Top.arg,
             \A x \in Event : Carries(Top, x) => Carries(f, x)
      PROVE  SignalInv'
  <2> HIDE DEF e
  <2>1. CASE SignalCount' = [SignalCount EXCEPT ![e] = 1] /\ NotifyEvent(e)
    <3>1. Top'.kind # "list"
      BY <1>4
    <3> QED BY <1>1, <1>2, <1>4, <2>1, <3>1, NotifySignals
  <2>2. CASE UNCHANGED <<SignalCount, gEventQueue, gEventPending>>
    <3>1. SignalsCarried(f)
      BY <1>4, <2>2 DEF SignalsCarried, IndInv, EvtTypeOK
    <3>2. Walked(Top', gEventSignalQueue', gEventQueue')
      BY <1>4 DEF Walked
    <3>3. Sound(gEventQueue') /\ QueuedIsPending'
      BY <2>2 DEF SignalInv, QueuedIsPending
    <3> QED BY <1>2, <1>4, <3>1, <3>2, <3>3, SignalStep
  <2> QED BY <1>3, <2>1, <2>2
<1>5. CASE TimerInterrupt
  <2>1. Becomes(stack, stack', Top) /\ Top'.kind = "restore" /\ CallOK(Top)
    BY <1>5, TickBecomes, TopCall
  <2> QED BY <1>4, <2>1
<1>6. CASE ClientSetTimerNow
  <2> DEFINE f == Called
             r == Restore(gEfiCurrentTpl)
  <2>1. /\ f \in Frame /\ f.kind = "client" /\ f.pc = "run"
        /\ Top.kind = "client" /\ Top.pc = "run"
    BY <1>6, CalledSame DEF ClientSetTimerNow, Free
  <2>2. r \in Frame /\ Fresh(r) /\ r.kind = "restore"
    BY TopInv, RestoreFrame, NewRecords
  <2>3. stack' = Append(SetTop(f), r)
    BY <1>6 DEF ClientSetTimerNow
  <2> HIDE DEF f, r
  <2>4. Becomes(stack, stack', f) /\ Top' = r
    BY <2>1, <2>2, <2>3, PushBecomes
  <2>5. CallOK(f) /\ \A x : ~Carries(Top, x)
    BY <2>1 DEF CallOK, Carries, Closes
  <2> QED BY <1>4, <2>1, <2>2, <2>4, <2>5
<1> QED BY <1>5, <1>6

\* A client that does nothing for an event takes a step, with or without a
\* CoreRestoreTpl at its end, and no queue changes.
LEMMA ClientQuiet ==
  ASSUME IndInv, SignalInv, NEW f \in Frame, CallOK(f), f.pc # "free", f.kind = "client",
         Top.kind = "client", Top.pc \notin {"siglist", "unlink", "free"}, UNCHANGED evtVars,
         NEW l \in 0..TPL_HIGH_LEVEL,
         stack' = SetTop(f) \/ stack' = Append(SetTop(f), Restore(l))
  PROVE  SignalInv'
<1>1. /\ QueuedIsPending'
      /\ UNCHANGED <<gEventQueue, gEventSignalQueue, SignalCount, live>>
  BY PendingKept
<1>2. CASE stack' = SetTop(f)
  <2>1. Becomes(stack, stack', f) /\ Top' = f
    BY <1>2, SetBecomes
  <2> QED BY <1>1, <2>1, QuietStep
<1>3. CASE stack' = Append(SetTop(f), Restore(l))
  <2> DEFINE r == Restore(l)
  <2>1. r \in Frame /\ Fresh(r) /\ r.kind = "restore" /\ stack' = Append(SetTop(f), r)
    BY <1>3, RestoreFrame, NewRecords
  <2> HIDE DEF r
  <2>2. Becomes(stack, stack', f) /\ Top' = r
    BY <2>1, PushBecomes
  <2> QED BY <1>1, <2>1, <2>2, QuietStep
<1> QED BY <1>2, <1>3

\* The record of a client whose service returns.
LEMMA ReturnedFrame ==
  ASSUME NEW f \in Frame, f.kind = "client"
  PROVE  /\ Returned(f) \in Frame /\ Returned(f).kind = "client"
         /\ Returned(f).pc = (IF f.idx = 0 THEN "run" ELSE "wait")
         /\ Returned(f).arg = NoEvent /\ Returned(f).idx = f.idx
         /\ CallOK(Returned(f)) /\ Returned(f).pc \in {"run", "wait"}
<1>1. /\ Returned(f) \in Frame /\ Returned(f).kind = "client"
      /\ Returned(f).pc = (IF f.idx = 0 THEN "run" ELSE "wait")
      /\ Returned(f).arg = NoEvent /\ Returned(f).idx = f.idx
  BY DEF Returned, Frame, Pcs
<1>2. Returned(f).pc \in {"run", "wait"}
  BY <1>1
<1> QED BY <1>1, <1>2 DEF CallOK

\* The same for the two results of CoreCheckEvent; only a waiter goes on waiting.
LEMMA ResultFrame ==
  ASSUME NEW f \in Frame, f.kind = "client"
  PROVE  /\ NotReady(f) \in Frame /\ NotReady(f).kind = "client" /\ NotReady(f).arg = NoEvent
         /\ CallOK(NotReady(f)) /\ NotReady(f).pc \in {"run", "wait"}
         /\ Waits(NotReady(f)) => Waits(f)
         /\ Ready(f) \in Frame /\ Ready(f).kind = "client" /\ Ready(f).arg = NoEvent
         /\ CallOK(Ready(f)) /\ Ready(f).pc \in {"run", "wait"}
         /\ ~Waits(Ready(f))
<1> DEFINE n == IF f.idx = 0 THEN 0 ELSE f.idx + 1
           g == [f EXCEPT !.idx = n]
           h == [f EXCEPT !.idx = 0]
<1>1. /\ g \in Frame /\ g.kind = "client" /\ g.idx = n /\ f.idx \in Nat
      /\ h \in Frame /\ h.kind = "client" /\ h.idx = 0
  BY DEF Frame
<1>2. NotReady(f) = Returned(g) /\ Ready(f) = Returned(h)
  BY DEF NotReady, Ready
<1>3. n > 0 => f.idx > 0
  BY <1>1
<1> HIDE DEF g, h, n
<1>4. /\ Returned(g) \in Frame /\ Returned(g).kind = "client" /\ Returned(g).arg = NoEvent
      /\ CallOK(Returned(g)) /\ Returned(g).pc \in {"run", "wait"} /\ Returned(g).idx = n
  BY <1>1, ReturnedFrame
<1>5. /\ Returned(h) \in Frame /\ Returned(h).kind = "client" /\ Returned(h).arg = NoEvent
      /\ CallOK(Returned(h)) /\ Returned(h).pc \in {"run", "wait"} /\ Returned(h).idx = 0
  BY <1>1, ReturnedFrame
<1>6. ~(0 > 0)
  OBVIOUS
<1> QED BY <1>2, <1>3, <1>4, <1>5, <1>6 DEF Waits

\* Clients raise and lower their level, enter CoreWaitForEvent, CoreCheckEvent and
\* CoreCloseEvent, and come to the end of CoreSignalEvent: no queue changes.
LEMMA ClientSteps ==
  ASSUME IndInv, SignalInv,
         \/ \E new \in RaiseLevels : ClientRaiseTpl(new)
         \/ \E new \in RaiseLevels \cup {Top.base} : ClientRestoreTpl(new)
         \/ \E e \in Event : ClientCheckEvent(e) \/ CloseEvent(e)
         \/ WaitForEvent \/ WaitCheck \/ CheckEventTest \/ SignalRelock
  PROVE  SignalInv'
<1>0. Top \in Frame /\ Top.lvl \in Nat /\ Top.base \in Nat /\ gEfiCurrentTpl \in 0..TPL_HIGH_LEVEL
      /\ FrameOK(Top)
  BY TopInv
<1>1. ASSUME NEW new \in RaiseLevels, ClientRaiseTpl(new)
      PROVE  SignalInv'
  <2> DEFINE f == [Called EXCEPT !.lvl = new]
  <2>1. /\ Called \in Frame /\ Called.kind = "client" /\ Called.pc = "run"
        /\ Top.kind = "client" /\ Top.pc = "run"
    BY <1>1, CalledSame DEF ClientRaiseTpl, Free
  <2>2. new \in Nat
    BY ClientAssumption DEF TPL_APPLICATION, TPL_HIGH_LEVEL
  <2>3. f \in Frame /\ f.kind = "client" /\ f.pc = "run" /\ CallOK(f)
    BY <2>1, <2>2 DEF Frame, CallOK
  <2>4. stack' = SetTop(f) /\ UNCHANGED evtVars
    BY <1>1 DEF ClientRaiseTpl
  <2> HIDE DEF f
  <2> QED BY <1>0, <2>1, <2>3, <2>4, ClientQuiet
<1>2. ASSUME NEW new \in RaiseLevels \cup {Top.base}, ClientRestoreTpl(new)
      PROVE  SignalInv'
  <2> DEFINE f == [Top EXCEPT !.lvl = new]
  <2>1. Top.kind = "client" /\ Top.pc = "run" /\ Top.lvl <= TPL_HIGH_LEVEL /\ new < Top.lvl
    BY <1>0, <1>2 DEF ClientRestoreTpl, At, FrameOK
  <2>2. new \in 0..TPL_HIGH_LEVEL
    <3>1. new \in Nat
      BY <1>0, ClientAssumption DEF TPL_APPLICATION, TPL_HIGH_LEVEL
    <3> QED BY <1>0, <2>1, <3>1 DEF TPL_HIGH_LEVEL
  <2>3. f \in Frame /\ f.kind = "client" /\ f.pc = "run" /\ CallOK(f)
    BY <1>0, <2>1, <2>2 DEF Frame, CallOK
  <2>4. stack' = Append(SetTop(f), Restore(new)) /\ UNCHANGED evtVars
    BY <1>2 DEF ClientRestoreTpl
  <2> HIDE DEF f
  <2> QED BY <2>1, <2>2, <2>3, <2>4, ClientQuiet
<1>3. ASSUME NEW f \in Frame, f.kind = "client", NEW e \in Event, CheckEvent(f, e),
             Top.kind = "client", Top.pc \in {"run", "wait"}
      PROVE  SignalInv'
  <2> DEFINE p == IF SignalCount[e] = 0 /\ EventType[e] = "wait" THEN "queue" ELSE "check"
             g == [f EXCEPT !.pc = p, !.arg = e]
  <2>1. g \in Frame /\ g.kind = "client" /\ g.pc = p /\ g.arg = e
    BY <1>3 DEF Frame, Pcs
  <2>2. CallOK(g) /\ g.pc # "free"
    BY <2>1 DEF CallOK
  <2>3. stack' = SetTop(g) /\ UNCHANGED evtVars
    BY <1>3 DEF CheckEvent
  <2> HIDE DEF g, p
  <2> QED BY <1>0, <1>3, <2>1, <2>2, <2>3, ClientQuiet
<1>4. ASSUME NEW e \in Event, ClientCheckEvent(e)
      PROVE  SignalInv'
  <2>1. Running /\ CheckEvent(Called, e)
    BY <1>4 DEF ClientCheckEvent, Free
  <2>2. Called \in Frame /\ Called.kind = "client" /\ Top.kind = "client" /\ Top.pc = "run"
    BY <2>1, CalledSame
  <2> QED BY <1>3, <2>1, <2>2
<1>5. CASE WaitCheck
  <2>1. Top.kind = "client" /\ Top.pc = "wait" /\ Top.idx \in 1..Len(WaitList)
    BY <1>0, <1>5, TopInv, ClientAssumption DEF WaitCheck, At, FrameOK
  <2>2. WaitList[Top.idx] \in Event /\ CheckEvent(Top, WaitList[Top.idx])
    BY <1>5, <2>1, ClientAssumption DEF WaitCheck
  <2> QED BY <1>0, <1>3, <2>1, <2>2
<1>6. ASSUME NEW e \in Event, CloseEvent(e)
      PROVE  SignalInv'
  <2> DEFINE f == [Called EXCEPT !.pc = "unlink", !.arg = e]
  <2>1. /\ Called \in Frame /\ Called.kind = "client" /\ Called.pc = "run"
        /\ Top.kind = "client" /\ Top.pc = "run"
    BY <1>6, CalledSame DEF CloseEvent, Free
  <2>2. f \in Frame /\ f.kind = "client" /\ f.pc = "unlink" /\ CallOK(f)
    BY <2>1 DEF Frame, Pcs, CallOK
  <2>3. stack' = SetTop(f) \/ stack' = Append(SetTop(f), Restore(gEfiCurrentTpl))
    BY <1>6 DEF CloseEvent
  <2>4. UNCHANGED evtVars
    BY <1>6 DEF CloseEvent
  <2> HIDE DEF f
  <2> QED BY <1>0, <2>1, <2>2, <2>3, <2>4, ClientQuiet
<1>7. CASE WaitForEvent
  <2> DEFINE f == [Called EXCEPT !.pc = "wait", !.idx = 1]
  <2>1. /\ Called \in Frame /\ Called.kind = "client" /\ Called.pc = "run"
        /\ Top.kind = "client" /\ Top.pc = "run"
    BY <1>7, CalledSame DEF WaitForEvent, Free
  <2>2. f \in Frame /\ f.kind = "client" /\ f.pc = "wait" /\ CallOK(f)
    BY <2>1 DEF Frame, Pcs, CallOK
  <2>3. stack' = SetTop(f) /\ UNCHANGED evtVars
    BY <1>7 DEF WaitForEvent
  <2> HIDE DEF f
  <2> QED BY <1>0, <2>1, <2>2, <2>3, ClientQuiet
<1>8. CASE CheckEventTest
  <2> DEFINE c == [Top EXCEPT !.pc = "clear"]
             f == IF SignalCount[Top.arg] # 0 THEN c ELSE NotReady(Top)
  <2>1. Top.kind = "client" /\ Top.pc = "check"
    BY <1>8 DEF CheckEventTest, At
  <2>2. c \in Frame /\ c.kind = "client" /\ c.pc = "clear" /\ CallOK(c)
    BY <1>0, <2>1 DEF Frame, Pcs, CallOK
  <2>3. /\ NotReady(Top) \in Frame /\ NotReady(Top).kind = "client"
        /\ CallOK(NotReady(Top)) /\ NotReady(Top).pc \in {"run", "wait"}
    BY <1>0, <2>1, ResultFrame
  <2>4. f \in Frame /\ f.kind = "client" /\ f.pc # "free" /\ CallOK(f)
    BY <2>2, <2>3
  <2>5. stack' = SetTop(f) /\ UNCHANGED evtVars
    BY <1>8 DEF CheckEventTest
  <2> HIDE DEF f
  <2> QED BY <1>0, <2>1, <2>4, <2>5, ClientQuiet
<1>9. CASE SignalRelock
  <2> DEFINE f == Returned(Top)
  <2>1. Top.kind = "client" /\ Top.pc = "relock"
    BY <1>9 DEF SignalRelock, At
  <2>2. f \in Frame /\ f.kind = "client" /\ f.pc \in {"run", "wait"} /\ CallOK(f)
    BY <1>0, <2>1, ReturnedFrame
  <2>3. stack' = Append(SetTop(f), Restore(gEfiCurrentTpl)) /\ UNCHANGED evtVars
    BY <1>9 DEF SignalRelock, EventLocked
  <2> HIDE DEF f
  <2> QED BY <1>0, <2>1, <2>2, <2>3, ClientQuiet
<1> QED BY <1>1, <1>2, <1>4, <1>5, <1>6, <1>7, <1>8, <1>9

\* CoreCheckEvent queues the wait function, or finds the event signalled.
LEMMA CheckQueueSignals ==
  ASSUME IndInv, SignalInv, CheckEventQueue
  PROVE  SignalInv'
<1> DEFINE f == [Top EXCEPT !.pc = "check"]
<1>1. Top \in Frame /\ FrameOK(Top) /\ CallOK(Top) /\ Top.kind = "client" /\ Top.pc = "queue"
  BY TopCall DEF CheckEventQueue, At
<1>2. Top.arg \in Event /\ EventType[Top.arg] # "plain"
  BY <1>1 DEF FrameOK, InService, CallOK
<1>3. f \in Frame /\ f.kind = "client" /\ f.pc = "check" /\ CallOK(f)
  BY <1>1 DEF Frame, Pcs, CallOK
<1>4. /\ NotifyEvent(Top.arg) \/ UNCHANGED <<gEventQueue, gEventPending>>
      /\ EventLocked(f) /\ UNCHANGED <<gEventSignalQueue, SignalCount, live>>
  BY DEF CheckEventQueue
<1>5. (f.pc = "free" \/ Top.pc = "free") => f.pc = Top.pc /\ f.arg = Top.arg
  BY <1>1, <1>3
<1> HIDE DEF f
<1>6. Becomes(stack, stack', f) /\ Top'.kind = "restore"
  BY <1>3, <1>4, LockedBecomes
<1>7. \A x : ~Carries(Top, x)
  BY <1>1 DEF Carries, Closes
<1>8. CASE NotifyEvent(Top.arg)
  <2>1. PICK e \in Event : e = Top.arg
    BY <1>2
  <2>2. NotifyEvent(e) /\ EventType[e] # "plain"
    BY <1>2, <1>8, <2>1
  <2> QED BY <1>3, <1>4, <1>5, <1>6, <1>7, <2>2, NotifySignals
<1>9. CASE UNCHANGED <<gEventQueue, gEventPending>>
  BY <1>1, <1>3, <1>4, <1>9, LockedQuiet
<1> QED BY <1>4, <1>8, <1>9

\* CoreCheckEvent clears the signal of an event it has found signalled.
LEMMA CheckClearSignals ==
  ASSUME IndInv, SignalInv, CheckEventClear
  PROVE  SignalInv'
<1> DEFINE f == IF SignalCount[Top.arg] # 0 THEN Ready(Top) ELSE NotReady(Top)
<1>1. Top \in Frame /\ FrameOK(Top) /\ Top.kind = "client" /\ Top.pc = "clear"
  BY TopCall DEF CheckEventClear, At
<1>2. f \in Frame /\ f.kind = "client" /\ f.pc \in {"run", "wait"} /\ CallOK(f)
  BY <1>1, ResultFrame
<1>3. /\ SignalCount' = [SignalCount EXCEPT ![Top.arg] = 0] /\ EventLocked(f)
      /\ UNCHANGED <<gEventPending, gEventQueue, gEventSignalQueue, live>>
  BY DEF CheckEventClear
<1> HIDE DEF f
<1>4. Becomes(stack, stack', f) /\ Top'.kind = "restore"
  BY <1>2, <1>3, LockedBecomes
<1>5. SignalsCarried(f)
  <2> SUFFICES ASSUME NEW x \in live, SignalCount'[x] # 0
               PROVE  SignalCount[x] # 0 /\ ~Carries(Top, x)
    BY <1>3 DEF SignalsCarried
  <2>1. x \in Event /\ SignalCount \in [Event -> {0, 1}]
    BY DEF IndInv, EvtTypeOK
  <2> QED BY <1>1, <1>3, <2>1 DEF Carries, Closes
<1>6. Walked(Top', gEventSignalQueue', gEventQueue')
  BY <1>4 DEF Walked
<1>7. Sound(gEventQueue') /\ QueuedIsPending'
  BY <1>3 DEF SignalInv, QueuedIsPending
<1>8. (f.pc = "free" \/ Top.pc = "free") => f.pc = Top.pc /\ f.arg = Top.arg
  BY <1>1, <1>2
<1> QED BY <1>2, <1>3, <1>4, <1>5, <1>6, <1>7, <1>8, SignalStep

\* CoreSignalEvent enters CoreNotifySignalList, which now stands for the event.
LEMMA ListEnterSignals ==
  ASSUME IndInv, SignalInv, NotifySignalList
  PROVE  SignalInv'
<1> DEFINE f == [Top EXCEPT !.pc = "relock"]
           g == SignalList(gEfiCurrentTpl, Top.arg)
<1>1. /\ Top \in Frame /\ FrameOK(Top) /\ Top.kind = "client" /\ Top.pc = "siglist"
      /\ gEfiCurrentTpl \in 0..TPL_HIGH_LEVEL /\ Top = stack[Len(stack)]
      /\ Len(stack) \in Nat /\ Len(stack) >= 1
  BY TopInv DEF NotifySignalList, At
<1>2. f \in Frame /\ f.kind = "client" /\ f.pc = "relock" /\ CallOK(f)
  BY <1>1 DEF Frame, Pcs, CallOK
<1>3. g \in Frame /\ Fresh(g) /\ g.kind = "list" /\ g.ev = Top.arg /\ g.idx = 1
  <2>1. gEfiCurrentTpl \in Nat /\ Top.arg \in Event \cup {NoEvent}
    BY <1>1, TopCall DEF TPL_HIGH_LEVEL
  <2>2. g \in Frame
    BY <2>1 DEF SignalList, Frame, Kinds, Pcs
  <2> QED BY <2>2, NewRecords
<1>4. stack' = Append(SetTop(f), g) /\ UNCHANGED evtVars
  BY DEF NotifySignalList
<1> HIDE DEF f, g
<1>5. Becomes(stack, stack', f) /\ Top' = g /\ Len(stack') = Len(stack) + 1
  BY <1>2, <1>3, <1>4, PushBecomes
<1>6. CallsOK(stack')
  BY <1>1, <1>2, <1>5, CallsKept DEF SignalInv
<1>7. Linked(stack', gEventSignalQueue, live)
  <2>1. Linked(stack, gEventSignalQueue, live) /\ f.pc # "free" /\ stack[Len(stack)].pc # "free"
    BY <1>1, <1>2 DEF SignalInv
  <2> QED BY <1>1, <1>5, <2>1, LinkedKept
<1>8. Kept(stack', gEventQueue, SignalCount, live)
  <2> SUFFICES ASSUME NEW x \in live, EventType[x] = "signal", SignalCount[x] # 0,
                      ~In(gEventQueue, x)
               PROVE  Carried(stack', x)
    BY DEF Kept
  <2>1. Carried(stack, x)
    BY DEF SignalInv, Kept
  <2>2. CASE ~Carries(Top, x)
    BY <1>1, <1>5, <2>1, <2>2, CarriedOn
  <2>3. CASE Carries(Top, x)
    <3>1. Top.arg = x
      BY <1>1, <2>3 DEF Carries, Closes
    <3>2. stack'[Len(stack')] = g /\ Len(stack') \in 1..Len(stack')
      BY <1>1, <1>5 DEF Top
    <3> QED BY <1>3, <3>1, <3>2 DEF Carried, Carries
  <2> QED BY <2>2, <2>3
<1>9. Walked(Top', gEventSignalQueue, gEventQueue)
  <2>1. \A k \in 1..Len(gEventSignalQueue) : ~(k < 1)
    OBVIOUS
  <2> QED BY <1>3, <1>5, <2>1 DEF Walked
<1>10. QueuedIsPending'
  BY <1>4, PendingKept
<1> QED BY <1>4, <1>6, <1>7, <1>8, <1>9, <1>10 DEF SignalInv, evtVars

\* CoreNotifySignalList queues the event at its Link if it is of the group.
LEMMA ListStepSignals ==
  ASSUME IndInv, SignalInv, NotifySignalListStep
  PROVE  SignalInv'
<1> DEFINE f == [Top EXCEPT !.idx = @ + 1]
           S == gEventSignalQueue
<1>1. /\ Top \in Frame /\ FrameOK(Top) /\ CallOK(Top) /\ Top.kind = "list" /\ Top.idx \in Nat
      /\ Top.idx >= 1
  BY TopCall, TopInv DEF NotifySignalListStep, FrameOK
<1>2. /\ f \in Frame /\ f.kind = "list" /\ f.pc = Top.pc /\ f.arg = Top.arg /\ f.ev = Top.ev
      /\ f.idx = Top.idx + 1
  BY <1>1 DEF Frame
<1>3. CallOK(f) /\ \A x : Carries(Top, x) => Carries(f, x)
  BY <1>1, <1>2 DEF CallOK, Carries, Closes
<1>4. /\ stack' = SetTop(f) /\ UNCHANGED <<gEventSignalQueue, SignalCount, live>>
      /\ Top.idx <= Len(S)
  BY DEF NotifySignalListStep
<1>5. S \in Seq(Event) /\ Top.idx \in 1..Len(S) /\ S[Top.idx] \in Event
  BY <1>1, <1>4 DEF IndInv, EvtTypeOK
<1> HIDE DEF f
<1>6. Becomes(stack, stack', f) /\ Top' = f
  BY <1>4, SetBecomes
<1>7. PICK e \in Event : e = S[Top.idx]
  BY <1>5
<1>8. EventType[e] = "signal" /\ e \in live
  <2>1. Queued(S, e)
    BY <1>5, <1>7 DEF Queued
  <2> QED BY <2>1 DEF SignalInv, Linked
<1>9. CASE EventGroup[e] = EventGroup[Top.ev]
  <2>1. NotifyEvent(e)
    BY <1>7, <1>9 DEF NotifySignalListStep
  <2>2. /\ Sound(gEventQueue') /\ QueuedIsPending'
        /\ \A t \in 0..TPL_HIGH_LEVEL : \A x :
             Queued(gEventQueue'[t], x) <=>
               Queued(gEventQueue[t], x) \/ (t = NotifyTpl[e] /\ x = e)
    BY <1>8, <2>1, NotifyQueue DEF SignalInv
  <2>3. ASSUME NEW x \in Event
        PROVE  (In(gEventQueue, x) => In(gEventQueue', x)) /\ (x = e => In(gEventQueue', x))
    BY <2>2, NotifyLevel DEF In
  <2>4. SignalsCarried(f)
    BY <1>3, <1>4, <2>3 DEF SignalsCarried, IndInv, EvtTypeOK
  <2>5. Walked(f, S, gEventQueue')
    <3> SUFFICES ASSUME NEW k \in 1..Len(S), k < Top.idx + 1,
                        EventGroup[S[k]] = EventGroup[Top.ev]
                 PROVE  In(gEventQueue', S[k])
      BY <1>2 DEF Walked
    <3>1. S[k] \in Event
      BY <1>5
    <3>2. CASE k = Top.idx
      BY <1>7, <2>3, <3>1, <3>2
    <3>3. CASE k # Top.idx
      <4>1. k < Top.idx
        BY <1>1, <3>3
      <4>2. In(gEventQueue, S[k])
        BY <1>1, <4>1 DEF SignalInv, Walked
      <4> QED BY <2>3, <3>1, <4>2
    <3> QED BY <3>2, <3>3
  <2>6. (f.pc = "free" \/ Top.pc = "free") => f.pc = Top.pc /\ f.arg = Top.arg
    BY <1>2
  <2>7. Walked(Top', gEventSignalQueue', gEventQueue')
    BY <1>4, <1>6, <2>5
  <2> QED BY <1>3, <1>4, <1>6, <2>2, <2>4, <2>6, <2>7, SignalStep
<1>10. CASE EventGroup[e] # EventGroup[Top.ev]
  <2>1. UNCHANGED <<gEventQueue, gEventPending>>
    BY <1>7, <1>10 DEF NotifySignalListStep
  <2>2. SignalsCarried(f)
    BY <1>3, <1>4, <2>1 DEF SignalsCarried
  <2>3. Walked(f, S, gEventQueue)
    <3> SUFFICES ASSUME NEW k \in 1..Len(S), k < Top.idx + 1,
                        EventGroup[S[k]] = EventGroup[Top.ev]
                 PROVE  In(gEventQueue, S[k])
      BY <1>2 DEF Walked
    <3>1. k # Top.idx
      BY <1>7, <1>10
    <3>2. k < Top.idx
      BY <1>1, <3>1
    <3> QED BY <1>1, <3>2 DEF SignalInv, Walked
  <2>4. (f.pc = "free" \/ Top.pc = "free") => f.pc = Top.pc /\ f.arg = Top.arg
    BY <1>2
  <2>5. Walked(Top', gEventSignalQueue', gEventQueue')
    BY <1>4, <1>6, <2>1, <2>3
  <2>6. Sound(gEventQueue') /\ QueuedIsPending'
    BY <2>1 DEF SignalInv, QueuedIsPending
  <2> QED BY <1>3, <1>4, <1>6, <2>2, <2>4, <2>5, <2>6, SignalStep
<1> QED BY <1>9, <1>10

\* CoreNotifySignalList is at the end of the list: the event it stands for is on
\* the list or is being closed, so it has been queued or may be dropped.
LEMMA ListEndSignals ==
  ASSUME IndInv, SignalInv, NotifySignalListEnd
  PROVE  SignalInv'
<1> DEFINE f == Restore(Top.lvl)
           S == gEventSignalQueue
<1>1. /\ Top \in Frame /\ FrameOK(Top) /\ CallOK(Top) /\ Top.kind = "list" /\ Top.idx \in Nat
      /\ Top.pc \notin {"siglist", "unlink", "free"} /\ Top = stack[Len(stack)]
      /\ Len(stack) \in Nat /\ Len(stack) >= 1
  BY TopCall, TopInv DEF NotifySignalListEnd
<1>2. Fresh(f) /\ f.kind = "restore"
  BY NewRecords
<1>3. CallOK(f) /\ f.pc \notin InService
  BY <1>2 DEF CallOK, Fresh, InService
<1>4. stack' = SetTop(f) /\ UNCHANGED evtVars /\ Top.idx > Len(S)
  BY DEF NotifySignalListEnd
<1> HIDE DEF f
<1>5. Becomes(stack, stack', f) /\ Top' = f
  BY <1>4, SetBecomes
<1>6. CallsOK(stack')
  BY <1>1, <1>3, <1>5, CallsKept DEF SignalInv
<1>7. Linked(stack', S, live)
  <2>1. Linked(stack, S, live) /\ f.pc # "free" /\ stack[Len(stack)].pc # "free"
    BY <1>1, <1>3 DEF SignalInv, InService
  <2> HIDE DEF S
  <2> QED BY <1>1, <1>5, <2>1, LinkedKept
<1>8. Kept(stack', gEventQueue, SignalCount, live)
  <2> SUFFICES ASSUME NEW x \in live, EventType[x] = "signal", SignalCount[x] # 0,
                      ~In(gEventQueue, x)
               PROVE  Carried(stack', x)
    BY DEF Kept
  <2>1. Carried(stack, x)
    BY DEF SignalInv, Kept
  <2>2. CASE ~Carries(Top, x)
    BY <1>1, <1>5, <2>1, <2>2, CarriedOn
  <2>3. CASE Carries(Top, x)
    <3>1. Top.ev = x
      BY <1>1, <2>3 DEF Carries, Closes
    <3>2. ~Queued(S, x)
      <4> SUFFICES ASSUME NEW k \in 1..Len(S), S[k] = x
                   PROVE  FALSE
        BY DEF Queued
      <4>1. Len(S) \in Nat
        BY DEF IndInv, EvtTypeOK
      <4>2. k < Top.idx
        BY <1>1, <1>4, <4>1
      <4>3. In(gEventQueue, S[k])
        BY <1>1, <3>1, <4>2 DEF SignalInv, Walked
      <4> QED BY <4>3
    <3>3. Freeing(stack, x)
      BY <3>2 DEF SignalInv, Linked
    <3>4. ~Frees(Top, x)
      BY <1>1 DEF Frees
    <3>5. Freeing(stack', x)
      BY <1>1, <1>5, <3>3, <3>4, CarriedOn
    <3> QED BY <3>5 DEF Freeing, Frees, Carried, Carries, Closes
  <2> QED BY <2>2, <2>3
<1>9. Walked(Top', S, gEventQueue)
  BY <1>2, <1>5 DEF Walked
<1>10. QueuedIsPending'
  BY <1>4, PendingKept
<1> QED BY <1>4, <1>6, <1>7, <1>8, <1>9, <1>10 DEF SignalInv, evtVars

\* CoreCreateEventInternal: the new event has no signal and is on the list if it is
\* an EVT_NOTIFY_SIGNAL event.
LEMMA CreateSignals ==
  ASSUME IndInv, SignalInv, NEW e \in Event, CreateEvent(e)
  PROVE  SignalInv'
<1> DEFINE f == Called
           S == gEventSignalQueue
<1>1. /\ f \in Frame /\ f.kind = "client" /\ f.pc = "run" /\ f.arg = Top.arg
      /\ Top.kind = "client" /\ Top.pc = "run"
  BY CalledSame DEF CreateEvent, Free
<1>2. /\ e \notin live /\ live' = live \cup {e} /\ EventLocked(f)
      /\ SignalCount' = [SignalCount EXCEPT ![e] = 0]
      /\ S' = (IF EventType[e] = "signal" THEN <<e>> \o S ELSE S)
      /\ UNCHANGED <<gEventPending, gEventQueue>>
      /\ \A i \in 1..Len(stack) : stack[i].arg # e
  BY DEF CreateEvent, InCall
<1>3. Top = stack[Len(stack)] /\ Len(stack) \in Nat /\ Len(stack) >= 1
  BY TopInv
<1> HIDE DEF f
<1>4. Becomes(stack, stack', f) /\ Top'.kind = "restore"
  BY <1>1, <1>2, LockedBecomes
<1>5. CallOK(f)
  BY <1>1 DEF CallOK
<1>6. CallsOK(stack')
  BY <1>3, <1>4, <1>5, CallsKept DEF SignalInv
<1>7. Linked(stack', S, live) /\ Linked(stack, S, live)
  <2>1. Linked(stack, S, live) /\ f.pc # "free" /\ stack[Len(stack)].pc # "free"
    BY <1>1, <1>3 DEF SignalInv
  <2> HIDE DEF S
  <2> QED BY <1>3, <1>4, <2>1, LinkedKept
<1>8. S \in Seq(Event) /\ OnceIn(S) /\ ~Queued(S, e)
  BY <1>2, <1>7 DEF Linked, IndInv, EvtTypeOK
<1>9. /\ OnceIn(S')
      /\ \A x : Queued(S', x) <=> Queued(S, x) \/ (x = e /\ EventType[e] = "signal")
  <2>1. /\ OnceIn(<<e>> \o S)
        /\ \A x : Queued(<<e>> \o S, x) <=> Queued(S, x) \/ x = e
    <3> HIDE DEF S
    <3> QED BY <1>8, InsertQueued
  <2> QED BY <1>2, <1>8, <2>1
<1>10. Linked(stack', S', live')
  <2>1. \A x : Queued(S', x) => x \in live' /\ EventType[x] = "signal"
    BY <1>2, <1>7, <1>9 DEF Linked
  <2>2. \A x \in live' : EventType[x] = "signal" => Queued(S', x) \/ Freeing(stack', x)
    BY <1>2, <1>7, <1>9 DEF Linked
  <2>3. ASSUME NEW i \in 1..Len(stack'), stack'[i].pc = "free"
        PROVE  ~Queued(S', stack'[i].arg)
    <3>1. ~Queued(S, stack'[i].arg)
      BY <1>7, <2>3 DEF Linked
    <3>2. i < Len(stack)
      BY <1>1, <1>3, <1>4, <2>3 DEF Becomes, Fresh, InService
    <3>3. stack'[i].arg # e
      BY <1>2, <1>3, <1>4, <3>2 DEF Becomes
    <3> QED BY <1>9, <3>1, <3>3
  <2> HIDE DEF S
  <2> QED BY <1>9, <2>1, <2>2, <2>3 DEF Linked
<1>11. Kept(stack', gEventQueue, SignalCount', live')
  <2> SUFFICES ASSUME NEW x \in live', EventType[x] = "signal", SignalCount'[x] # 0,
                      ~In(gEventQueue, x)
               PROVE  Carried(stack', x)
    BY DEF Kept
  <2>1. SignalCount \in [Event -> {0, 1}] /\ live \subseteq Event
    BY DEF IndInv, EvtTypeOK
  <2>2. x # e
    BY <1>2, <2>1
  <2>3. x \in live /\ x \in Event /\ SignalCount[x] # 0
    BY <1>2, <2>1, <2>2
  <2>4. Carried(stack, x)
    BY <2>3 DEF SignalInv, Kept
  <2>5. ~Carries(Top, x)
    BY <1>1 DEF Carries, Closes
  <2> QED BY <1>3, <1>4, <2>4, <2>5, CarriedOn
<1>12. Walked(Top', S', gEventQueue)
  BY <1>4 DEF Walked
<1>13. Sound(gEventQueue') /\ QueuedIsPending'
  BY <1>2 DEF SignalInv, QueuedIsPending
<1> QED BY <1>2, <1>6, <1>10, <1>11, <1>12, <1>13 DEF SignalInv

\* CoreCloseEvent takes the event off its queue and off gEventSignalQueue.
LEMMA UnlinkSignals ==
  ASSUME IndInv, SignalInv, CloseEventUnlink
  PROVE  /\ SignalInv'
         /\ Becomes(stack, stack', [Top EXCEPT !.pc = "free"])
         /\ \A x : Queued(gEventSignalQueue', x) <=> Queued(gEventSignalQueue, x) /\ x # Top.arg
         /\ \A t \in 0..TPL_HIGH_LEVEL : \A x :
              Queued(gEventQueue'[t], x) <=> Queued(gEventQueue[t], x) /\ x # Top.arg
<1> DEFINE f == [Top EXCEPT !.pc = "free"]
           e == Top.arg
           S == gEventSignalQueue
           Q == gEventQueue'
<1>1. /\ Top \in Frame /\ FrameOK(Top) /\ Top.kind = "client" /\ Top.pc = "unlink"
      /\ Top = stack[Len(stack)] /\ Len(stack) \in Nat /\ Len(stack) >= 1
  BY TopInv DEF CloseEventUnlink, At
<1>2. /\ f \in Frame /\ f.kind = "client" /\ f.pc = "free" /\ f.arg = e /\ e \in Event
      /\ CallOK(f)
  BY <1>1 DEF Frame, Pcs, CallOK, FrameOK, InService
<1>3. /\ Q = [t \in 0..TPL_HIGH_LEVEL |-> RemoveEntry(gEventQueue[t], e)]
      /\ S' = RemoveEntry(S, e)
      /\ EventLocked(f) /\ UNCHANGED <<gEventPending, SignalCount, live>>
  BY DEF CloseEventUnlink
<1> HIDE DEF f
<1>4. Becomes(stack, stack', f) /\ Top'.kind = "restore"
  BY <1>2, <1>3, LockedBecomes
<1>5. Linked(stack, S, live) /\ S \in Seq(Event) /\ OnceIn(S) /\ Sound(gEventQueue)
  BY DEF SignalInv, Linked, IndInv, EvtTypeOK
<1> HIDE DEF e, Q
<1>6. OnceIn(S') /\ \A x : Queued(S', x) <=> Queued(S, x) /\ x # e
  <2>1. /\ OnceIn(RemoveEntry(S, e))
        /\ \A x : Queued(RemoveEntry(S, e), x) <=> Queued(S, x) /\ x # e
    <3> HIDE DEF S
    <3> QED BY <1>5, RemoveQueued
  <2> QED BY <1>3, <2>1
<1>7. ASSUME NEW t \in 0..TPL_HIGH_LEVEL
      PROVE  /\ Q[t] \in Seq(Event) /\ OnceIn(Q[t])
             /\ \A x : Queued(Q[t], x) <=> Queued(gEventQueue[t], x) /\ x # e
  <2>1. gEventQueue[t] \in Seq(Event) /\ OnceIn(gEventQueue[t])
    BY <1>5 DEF Sound
  <2>2. Q[t] = RemoveEntry(gEventQueue[t], e)
    BY <1>3
  <2> QED BY <2>1, <2>2, RemoveQueued
<1>8. Sound(Q)
  <2>1. Q \in [0..TPL_HIGH_LEVEL -> Seq(Event)]
    BY <1>3, <1>7
  <2> QED BY <1>5, <1>7, <2>1 DEF Sound
<1>9. ASSUME NEW t \in 0..TPL_HIGH_LEVEL, Q[t] # << >>
      PROVE  t \in gEventPending
  <2>1. gEventQueue[t] \in Seq(Event)
    BY <1>5 DEF Sound
  <2>2. \E x : Queued(Q[t], x)
    BY <1>7, <1>9, QueuedNonempty
  <2>3. \E x : Queued(gEventQueue[t], x)
    BY <1>7, <2>2
  <2>4. gEventQueue[t] # << >>
    BY <2>1, <2>3, QueuedNonempty
  <2> QED BY <2>4 DEF SignalInv, QueuedIsPending
<1>10. QueuedIsPending'
  BY <1>3, <1>9 DEF QueuedIsPending, Q
<1>11. CallsOK(stack')
  BY <1>1, <1>2, <1>4, CallsKept DEF SignalInv
<1>12. Linked(stack', S', live)
  <2>1. \A x : Queued(S', x) => x \in live /\ EventType[x] = "signal"
    BY <1>5, <1>6 DEF Linked
  <2>2. ASSUME NEW x \in live, EventType[x] = "signal"
        PROVE  Queued(S', x) \/ Freeing(stack', x)
    <3>1. CASE x = e
      <4>1. Frees(f, x)
        BY <1>2, <3>1 DEF Frees
      <4> QED BY <1>1, <1>4, <4>1, CarriedOn
    <3>2. CASE x # e
      <4>1. Queued(S, x) \/ Freeing(stack, x)
        BY <1>5, <2>2 DEF Linked
      <4>2. ~Frees(Top, x)
        BY <1>1 DEF Frees
      <4>3. Freeing(stack, x) => Freeing(stack', x)
        BY <1>1, <1>4, <4>2, CarriedOn
      <4> QED BY <1>6, <3>2, <4>1, <4>3
    <3> QED BY <3>1, <3>2
  <2>3. ASSUME NEW i \in 1..Len(stack'), stack'[i].pc = "free"
        PROVE  ~Queued(S', stack'[i].arg)
    <3>1. CASE i < Len(stack)
      <4>1. ~Queued(S, stack'[i].arg)
        BY <1>1, <1>4, <1>5, <2>3, <3>1 DEF Becomes, Linked
      <4> QED BY <1>6, <4>1
    <3>2. CASE i = Len(stack)
      BY <1>2, <1>4, <1>6, <3>2 DEF Becomes
    <3>3. CASE i > Len(stack)
      BY <1>4, <2>3, <3>3 DEF Becomes, Fresh, InService
    <3> QED BY <1>1, <1>4, <3>1, <3>2, <3>3 DEF Becomes
  <2> HIDE DEF S
  <2> QED BY <1>6, <2>1, <2>2, <2>3 DEF Linked
<1>13. Kept(stack', Q, SignalCount, live)
  <2> SUFFICES ASSUME NEW x \in live, EventType[x] = "signal", SignalCount[x] # 0,
                      ~In(Q, x)
               PROVE  Carried(stack', x)
    BY DEF Kept
  <2>1. CASE x = e
    <3>1. Carries(f, x)
      BY <1>2, <2>1 DEF Carries, Closes
    <3> QED BY <1>1, <1>4, <3>1, CarriedOn
  <2>2. CASE x # e
    <3>1. NotifyTpl[x] \in 0..TPL_HIGH_LEVEL
      BY NotifyLevel DEF IndInv, EvtTypeOK
    <3>2. ~In(gEventQueue, x)
      BY <1>7, <2>2, <3>1 DEF In
    <3>3. Carried(stack, x)
      BY <3>2 DEF SignalInv, Kept
    <3>4. ~Carries(Top, x)
      BY <1>1, <2>2 DEF Carries, Closes, e
    <3> QED BY <1>1, <1>4, <3>3, <3>4, CarriedOn
  <2> QED BY <2>1, <2>2
<1>14. Walked(Top', S', Q)
  BY <1>4 DEF Walked
<1>15. SignalInv'
  BY <1>3, <1>8, <1>10, <1>11, <1>12, <1>13, <1>14 DEF SignalInv, Q
<1> QED BY <1>4, <1>6, <1>7, <1>15 DEF f, e, Q

\* CoreCloseEvent frees the event.
LEMMA FreeSignals ==
  ASSUME IndInv, SignalInv, CloseEventFree
  PROVE  SignalInv'
<1> DEFINE f == Returned(Top)
           e == Top.arg
<1>1. /\ Top \in Frame /\ FrameOK(Top) /\ Top.kind = "client" /\ Top.pc = "free"
      /\ Top = stack[Len(stack)] /\ Len(stack) \in Nat /\ Len(stack) >= 1
  BY TopInv DEF CloseEventFree, At
<1>2. f \in Frame /\ f.kind = "client" /\ f.pc \in {"run", "wait"} /\ CallOK(f)
  BY <1>1, ReturnedFrame
<1>3. /\ live' = live \ {e} /\ stack' = SetTop(f)
      /\ UNCHANGED <<gEventPending, gEventQueue, gEventSignalQueue, SignalCount>>
  BY DEF CloseEventFree
<1> HIDE DEF f
<1>4. Becomes(stack, stack', f) /\ Top' = f
  BY <1>3, SetBecomes
<1>5. CallsOK(stack')
  BY <1>1, <1>2, <1>4, CallsKept DEF SignalInv
<1>6. Linked(stack, gEventSignalQueue, live) /\ ~Queued(gEventSignalQueue, e)
  BY <1>1 DEF SignalInv, Linked
<1>7. Linked(stack', gEventSignalQueue, live')
  <2>1. \A x : Queued(gEventSignalQueue, x) => x \in live' /\ EventType[x] = "signal"
    BY <1>3, <1>6 DEF Linked
  <2>2. ASSUME NEW x \in live', EventType[x] = "signal"
        PROVE  Queued(gEventSignalQueue, x) \/ Freeing(stack', x)
    <3>1. x \in live /\ x # e
      BY <1>3
    <3>2. Queued(gEventSignalQueue, x) \/ Freeing(stack, x)
      BY <1>6, <2>2, <3>1 DEF Linked
    <3>3. ~Frees(Top, x)
      BY <3>1 DEF Frees
    <3> QED BY <1>1, <1>4, <3>2, <3>3, CarriedOn
  <2>3. ASSUME NEW i \in 1..Len(stack'), stack'[i].pc = "free"
        PROVE  ~Queued(gEventSignalQueue, stack'[i].arg)
    <3>1. i < Len(stack)
      BY <1>1, <1>2, <1>4, <2>3 DEF Becomes, Fresh, InService
    <3> QED BY <1>1, <1>4, <1>6, <2>3, <3>1 DEF Becomes, Linked
  <2> QED BY <1>6, <2>1, <2>2, <2>3 DEF Linked
<1>8. Kept(stack', gEventQueue, SignalCount, live')
  <2> SUFFICES ASSUME NEW x \in live', EventType[x] = "signal", SignalCount[x] # 0,
                      ~In(gEventQueue, x)
               PROVE  Carried(stack', x)
    BY DEF Kept
  <2>1. x \in live /\ x # e
    BY <1>3
  <2>2. Carried(stack, x)
    BY <2>1 DEF SignalInv, Kept
  <2>3. ~Carries(Top, x)
    BY <1>1, <2>1 DEF Carries, Closes
  <2> QED BY <1>1, <1>4, <2>2, <2>3, CarriedOn
<1>9. Walked(Top', gEventSignalQueue, gEventQueue)
  BY <1>2, <1>4 DEF Walked
<1>10. QueuedIsPending'
  BY <1>3 DEF SignalInv, QueuedIsPending
<1> QED BY <1>3, <1>5, <1>7, <1>8, <1>9, <1>10 DEF SignalInv

-----------------------------------------------------------------------------
\* CoreInitializeEventServices.
LEMMA InitSignals ==
  ASSUME Init
  PROVE  SignalInv
<1> DEFINE c == Client(TPL_APPLICATION, NoEvent)
           S == <<IdleEvent, CheckTimerEvent>>
<1>1. /\ stack = <<c>> /\ gEventSignalQueue = S /\ live = {CheckTimerEvent, IdleEvent}
      /\ gEventQueue = [t \in 0..TPL_HIGH_LEVEL |-> << >>]
      /\ SignalCount = [e \in Event |-> 0]
  BY DEF Init
<1>2. Fresh(c) /\ c.kind = "client"
  BY NewRecords
<1>3. Len(stack) = 1 /\ stack[1] = c /\ Top = c
  BY <1>1 DEF Top
<1> HIDE DEF c
<1>4. \A t \in 0..TPL_HIGH_LEVEL : gEventQueue[t] = << >>
  BY <1>1
<1>5. Sound(gEventQueue) /\ QueuedIsPending
  <2>1. << >> \in Seq(Event) /\ Len(<< >>) = 0
    OBVIOUS
  <2>2. OnceIn(<< >>) /\ \A x : ~Queued(<< >>, x)
    BY <2>1 DEF OnceIn, Queued
  <2>3. gEventQueue \in [0..TPL_HIGH_LEVEL -> Seq(Event)]
    BY <1>1, <2>1
  <2> QED BY <1>4, <2>2, <2>3 DEF Sound, QueuedIsPending
<1>6. CallsOK(stack)
  <2>1. CallOK(c)
    BY <1>2 DEF CallOK, Fresh, InService
  <2> QED BY <1>3, <2>1 DEF CallsOK
<1>7. Linked(stack, S, live)
  <2>1. \A k \in 1..Len(S) : (k = 1 /\ S[k] = IdleEvent) \/ (k = 2 /\ S[k] = CheckTimerEvent)
    OBVIOUS
  <2>2. 1 \in 1..Len(S) /\ 2 \in 1..Len(S) /\ S[1] = IdleEvent /\ S[2] = CheckTimerEvent
    OBVIOUS
  <2> HIDE DEF S
  <2>3. \A x : Queued(S, x) <=> x \in live
    BY <1>1, <2>1, <2>2 DEF Queued
  <2>4. OnceIn(S)
    BY <2>1, EventAssumption DEF OnceIn
  <2>5. \A x \in live : EventType[x] = "signal"
    BY <1>1, EventAssumption
  <2>6. \A i \in 1..Len(stack) : stack[i].pc # "free"
    BY <1>2, <1>3 DEF Fresh, InService
  <2> QED BY <2>3, <2>4, <2>5, <2>6 DEF Linked
<1>8. Kept(stack, gEventQueue, SignalCount, live)
  BY <1>1, EventAssumption DEF Kept
<1>9. Walked(Top, gEventSignalQueue, gEventQueue)
  BY <1>2, <1>3 DEF Walked
<1> QED BY <1>1, <1>5, <1>6, <1>7, <1>8, <1>9 DEF SignalInv

\* Every step keeps the invariant of queues and signals.
LEMMA NextSignals ==
  ASSUME IndInv, SignalInv, [Next]_vars
  PROVE  SignalInv'
<1>1. CASE Core
  <2>1. CASE RestoreTest \/ RestoreHighBit \/ RestoreDispatch \/ RestoreExit
    BY <2>1, RestoreSignals
  <2>2. CASE DispatchNext BY <2>2, DispatchNextSignals
  <2>3. CASE DispatchCall BY <2>3, DispatchCallSignals
  <2>4. CASE DispatchEmpty BY <2>4, DispatchEmptySignals
  <2>5. CASE DispatchReturn \/ InterruptReturn BY <2>5, ReturnSignals
  <2>6. CASE NotifySignalList BY <2>6, ListEnterSignals
  <2>7. CASE NotifySignalListStep BY <2>7, ListStepSignals
  <2>8. CASE NotifySignalListEnd BY <2>8, ListEndSignals
  <2>9. CASE SignalRelock \/ CheckEventTest \/ WaitCheck BY <2>9, ClientSteps
  <2>10. CASE CheckEventQueue BY <2>10, CheckQueueSignals
  <2>11. CASE CheckEventClear BY <2>11, CheckClearSignals
  <2>12. CASE WaitIdle BY <2>12, ClientSignals
  <2>13. CASE CloseEventUnlink BY <2>13, UnlinkSignals
  <2>14. CASE CloseEventFree BY <2>14, FreeSignals
  <2> QED BY <1>1, <2>1, <2>2, <2>3, <2>4, <2>5, <2>6, <2>7, <2>8, <2>9, <2>10, <2>11,
             <2>12, <2>13, <2>14 DEF Core
<1>2. CASE Call
  <2>1. CASE \E new \in RaiseLevels : ClientRaiseTpl(new) BY <2>1, ClientSteps
  <2>2. CASE \E e \in Event : ClientCheckEvent(e) \/ CloseEvent(e) BY <2>2, ClientSteps
  <2>3. CASE \E e \in Event : ClientSignalEvent(e) BY <2>3, ClientSignals
  <2>4. CASE \E e \in Event : CreateEvent(e) BY <2>4, CreateSignals
  <2>5. CASE ClientSetTimerNow BY <2>5, TimerSignals
  <2>6. CASE WaitForEvent BY <2>6, ClientSteps
  <2> QED BY <1>2, <2>1, <2>2, <2>3, <2>4, <2>5, <2>6 DEF Call
<1>3. CASE Unwind
  <2>1. CASE \E new \in RaiseLevels \cup {Top.base} : ClientRestoreTpl(new)
    BY <2>1, ClientSteps
  <2>2. CASE NotifyReturn BY <2>2, ReturnSignals
  <2> QED BY <1>3, <2>1, <2>2 DEF Unwind
<1>4. CASE TimerInterrupt BY <1>4, TimerSignals
<1>5. CASE UNCHANGED vars
  BY <1>5 DEF vars, SignalInv, QueuedIsPending, Top
<1> QED BY <1>1, <1>2, <1>3, <1>4, <1>5 DEF Next

(***************************************************************************)
(* The invariant of queues and signals holds for every set of events, with *)
(* disciplined clients and others.                                         *)
(***************************************************************************)
THEOREM SignalInvariant ==
  ASSUME ~ReloadPending
  PROVE  Spec => []SignalInv
<1>1. Init => SignalInv
  BY InitSignals
<1>2. IndInv /\ SignalInv /\ [Next]_vars => SignalInv'
  BY NextSignals
<1> QED BY <1>1, <1>2, InductiveInvariant, PTL DEF Spec

(***************************************************************************)
(* gEventQueue and gEventPending stay in step (CoreNotifyEvent,            *)
(* CoreDispatchEventNotifies, CoreCloseEvent): a queued event has its bit, *)
(* is queued once and at its own NotifyTpl.                                *)
(***************************************************************************)
THEOREM QueuesStaySound ==
  ASSUME ~ReloadPending
  PROVE  Spec => []QueuesSound
<1>1. ASSUME SignalInv
      PROVE  QueuesSound
  <2>1. Sound(gEventQueue) /\ QueuedIsPending
    BY <1>1 DEF SignalInv
  <2>2. ASSUME NEW t \in 0..TPL_HIGH_LEVEL, NEW i \in 1..Len(gEventQueue[t])
        PROVE  /\ NotifyTpl[gEventQueue[t][i]] = t
               /\ \A j \in 1..Len(gEventQueue[t]) :
                    gEventQueue[t][i] = gEventQueue[t][j] => i = j
    <3>1. Queued(gEventQueue[t], gEventQueue[t][i])
      BY DEF Queued
    <3> QED BY <2>1, <3>1 DEF Sound, OnceIn
  <2> QED BY <2>1, <2>2 DEF QueuesSound, QueuedOnce
<1> QED BY <1>1, SignalInvariant, PTL

(***************************************************************************)
(* No signal is lost (CoreSignalEvent, CoreNotifySignalList): a signalled  *)
(* EVT_NOTIFY_SIGNAL event is queued, or a call on the stack is about to   *)
(* queue its group, or it is being closed.                                 *)
(***************************************************************************)
THEOREM NoSignalLost ==
  ASSUME ~ReloadPending
  PROVE  Spec => []SignalNotLost
<1>1. ASSUME SignalInv
      PROVE  SignalNotLost
  <2> SUFFICES ASSUME NEW e \in live, EventType[e] = "signal", SignalCount[e] # 0
               PROVE  \/ Queued(gEventQueue[NotifyTpl[e]], e)
                      \/ \E i \in 1..Len(stack) :
                           \/ /\ stack[i].kind = "client"
                              /\ stack[i].pc = "siglist"
                              /\ stack[i].arg = e
                           \/ stack[i].kind = "list" /\ stack[i].ev = e
                      \/ Closing(e)
    BY DEF SignalNotLost
  <2>1. In(gEventQueue, e) \/ Carried(stack, e)
    BY <1>1 DEF SignalInv, Kept
  <2> QED BY <2>1 DEF In, Carried, Carries, Closes, Closing
<1> QED BY <1>1, SignalInvariant, PTL

-----------------------------------------------------------------------------
(* Disciplined clients: no freed event is used. *)

\* A service call is at work on its event without the event lock.
Uses(f) == f.pc \in {"siglist", "queue", "check", "clear"}
\* CoreCloseEvent is under way.
Closer(f) == f.pc \in {"unlink", "free"}

\* What calls in progress refer to exists.
UsersOK(s, L) ==
  \A i \in 1..Len(s) :
    /\ Uses(s[i]) \/ Closer(s[i]) => s[i].arg \in L
    /\ Calling(s[i]) => s[i].ev \in L
    /\ Waits(s[i]) => \A m \in 1..Len(WaitList) : WaitList[m] \in L

(***************************************************************************)
(* A dispatcher that has dequeued an event runs at the event's level.  Only*)
(* higher levels come between it and its call, never a client at its own.  *)
(***************************************************************************)
CallersOK(s) ==
  \A k \in 1..Len(s) : Calling(s[k]) =>
    /\ NotifyTpl[s[k].ev] = s[k].lvl /\ EventType[s[k].ev] # "plain"
    /\ k < Len(s) => s[k + 1].kind # "client"

(***************************************************************************)
(* Nobody else has to do with an event that is being closed, except a      *)
(* dispatcher above the caller of CoreCloseEvent, which ends before it     *)
(* goes on.                                                                *)
(***************************************************************************)
ClosersOK(s) ==
  \A i \in 1..Len(s) : Closer(s[i]) =>
    /\ s[i].arg \notin {CheckTimerEvent, IdleEvent}
    /\ \A j \in 1..Len(s) :
         /\ j # i => s[j].arg # s[i].arg
         /\ Waits(s[j]) => ~Queued(WaitList, s[i].arg)
         /\ j < i /\ Calling(s[j]) => s[j].ev # s[i].arg

\* Queued events exist, and are not on their way out.
QueuedLive(s, Q, L) ==
  /\ \A t \in 0..TPL_HIGH_LEVEL : \A x : Queued(Q[t], x) => x \in L
  /\ \A i \in 1..Len(s) : s[i].pc = "free" =>
       \A t \in 0..TPL_HIGH_LEVEL : ~Queued(Q[t], s[i].arg)

LiveInv ==
  /\ UsersOK(stack, live)
  /\ CallersOK(stack)
  /\ ClosersOK(stack)
  /\ QueuedLive(stack, gEventQueue, live)
  /\ {CheckTimerEvent, IdleEvent} \subseteq live

\* CoreCloseEvent has an event.
LEMMA CloserArg ==
  ASSUME IndInv, SignalInv, NEW i \in 1..Len(stack), Closer(stack[i]) \/ Uses(stack[i])
  PROVE  stack[i].arg \in Event /\ stack[i].kind = "client" /\ stack[i].arg # NoEvent
<1>1. CallOK(stack[i]) /\ FrameOK(stack[i])
  BY DEF SignalInv, CallsOK, IndInv, StackOK
<1>2. stack[i].pc \in InService
  BY DEF Closer, Uses, InService
<1>3. stack[i].kind = "client"
  BY <1>1, <1>2 DEF CallOK
<1>4. stack[i].arg \in Event
  BY <1>1, <1>2, <1>3 DEF FrameOK
<1> QED BY <1>3, <1>4, EventAssumption

\* The running record does not reach for an event that is being closed, nor for
\* one that does not exist.
Harmless(f) ==
  /\ f.arg \in {Top.arg, NoEvent} \/ ~Closing(f.arg)
  /\ Uses(f) => f.arg \in live
  /\ Closer(f) => Closer(Top) /\ f.arg = Top.arg
  /\ f.pc = "free" => \/ Top.pc = "free"
                      \/ \A t \in 0..TPL_HIGH_LEVEL : ~Queued(gEventQueue'[t], f.arg)
  /\ Waits(f) => \/ Waits(Top)
                 \/ \A m \in 1..Len(WaitList) : WaitList[m] \in live /\ ~Closing(WaitList[m])
  /\ f.kind = "client" => Top.kind = "client"
  /\ Calling(f) => /\ f.ev \in live /\ NotifyTpl[f.ev] = f.lvl /\ EventType[f.ev] # "plain"
                   /\ Len(stack') > Len(stack) => stack'[Len(stack) + 1].kind # "client"

\* The queues get only events that exist and stay.
QueuesHarmless ==
  \A t \in 0..TPL_HIGH_LEVEL : \A x :
    Queued(gEventQueue'[t], x) =>
      Queued(gEventQueue[t], x) \/ (x \in live /\ ~Freeing(stack, x))

\* A step that starts to close nothing and frees nothing keeps freed events out of use.
LEMMA LiveStep ==
  ASSUME IndInv, SignalInv, LiveInv, NEW f, Becomes(stack, stack', f), Harmless(f),
         QueuesHarmless, live \subseteq live'
  PROVE  LiveInv'
<1> DEFINE n == Len(stack)
<1>1. Top = stack[n] /\ n \in Nat /\ n >= 1 /\ n \in 1..n
  BY TopInv
<1>2. /\ Len(stack') \in Nat /\ Len(stack') >= n /\ stack'[n] = f
      /\ \A i \in 1..Len(stack') : i < n => i \in 1..n /\ stack'[i] = stack[i]
      /\ \A i \in 1..Len(stack') : i > n => Fresh(stack'[i])
  BY <1>1 DEF Becomes
<1>3. \A i \in 1..Len(stack') : i > n => /\ ~Uses(stack'[i]) /\ ~Closer(stack'[i])
                                         /\ ~Calling(stack'[i]) /\ ~Waits(stack'[i])
                                         /\ stack'[i].arg = NoEvent
  BY <1>2 DEF Fresh, Uses, Closer, InService
<1> HIDE DEF n
<1>4. UsersOK(stack', live')
  <2> SUFFICES ASSUME NEW i \in 1..Len(stack')
               PROVE  /\ Uses(stack'[i]) \/ Closer(stack'[i]) => stack'[i].arg \in live
                      /\ Calling(stack'[i]) => stack'[i].ev \in live
                      /\ Waits(stack'[i]) => \A m \in 1..Len(WaitList) : WaitList[m] \in live
    BY DEF UsersOK
  <2>1. CASE i < n
    BY <1>2, <2>1 DEF LiveInv, UsersOK, n
  <2>2. CASE i = n
    <3>1. /\ Uses(Top) \/ Closer(Top) => Top.arg \in live
          /\ Waits(Top) => \A m \in 1..Len(WaitList) : WaitList[m] \in live
      BY <1>1 DEF LiveInv, UsersOK, n
    <3>2. Closer(f) => Closer(Top)
      BY DEF Harmless
    <3> QED BY <1>2, <2>2, <3>1, <3>2 DEF Harmless
  <2>3. CASE i > n
    BY <1>3, <2>3
  <2> QED BY <1>1, <1>2, <2>1, <2>2, <2>3
<1>5. CallersOK(stack')
  <2> SUFFICES ASSUME NEW k \in 1..Len(stack'), Calling(stack'[k])
               PROVE  /\ NotifyTpl[stack'[k].ev] = stack'[k].lvl
                      /\ EventType[stack'[k].ev] # "plain"
                      /\ k < Len(stack') => stack'[k + 1].kind # "client"
    BY DEF CallersOK
  <2>1. CASE k < n
    <3>1. stack'[k] = stack[k] /\ k \in 1..n
      BY <1>2, <2>1
    <3>2. /\ NotifyTpl[stack[k].ev] = stack[k].lvl /\ EventType[stack[k].ev] # "plain"
          /\ stack[k + 1].kind # "client"
      BY <2>1, <3>1 DEF LiveInv, CallersOK, n
    <3>3. stack'[k + 1].kind # "client"
      <4>1. CASE k + 1 < n
        BY <1>1, <1>2, <3>1, <3>2, <4>1
      <4>2. CASE k + 1 = n
        BY <1>1, <1>2, <3>2, <4>2 DEF Harmless
      <4> QED BY <1>1, <2>1, <4>1, <4>2
    <3> QED BY <3>1, <3>2, <3>3
  <2>2. CASE k = n
    BY <1>2, <2>2 DEF Harmless, n
  <2>3. CASE k > n
    BY <1>3, <2>3
  <2> QED BY <1>1, <1>2, <2>1, <2>2, <2>3
<1>6. ClosersOK(stack')
  <2>1. ASSUME NEW i \in 1..Len(stack'), Closer(stack'[i])
        PROVE  i \in 1..n /\ Closer(stack[i]) /\ stack'[i].arg = stack[i].arg
               /\ stack[i].arg \in Event /\ stack[i].arg # NoEvent
    <3>1. i \in 1..n
      BY <1>1, <1>2, <1>3, <2>1
    <3>2. Closer(stack[i]) /\ stack'[i].arg = stack[i].arg
      <4>1. CASE i < n
        BY <1>2, <2>1, <4>1
      <4>2. CASE i = n
        BY <1>1, <1>2, <2>1, <4>2 DEF Harmless
      <4> QED BY <1>1, <3>1, <4>1, <4>2
    <3> QED BY <3>1, <3>2, CloserArg DEF n
  <2> SUFFICES ASSUME NEW i \in 1..Len(stack'), Closer(stack'[i]), NEW j \in 1..Len(stack')
               PROVE  /\ stack'[i].arg \notin {CheckTimerEvent, IdleEvent}
                      /\ j # i => stack'[j].arg # stack'[i].arg
                      /\ Waits(stack'[j]) => ~Queued(WaitList, stack'[i].arg)
                      /\ j < i /\ Calling(stack'[j]) => stack'[j].ev # stack'[i].arg
    BY DEF ClosersOK
  <2>2. i \in 1..n /\ Closer(stack[i]) /\ stack'[i].arg = stack[i].arg
        /\ stack[i].arg \in Event /\ stack[i].arg # NoEvent
    BY <2>1
  <2>3. /\ stack[i].arg \notin {CheckTimerEvent, IdleEvent}
        /\ \A k \in 1..n : /\ k # i => stack[k].arg # stack[i].arg
                           /\ Waits(stack[k]) => ~Queued(WaitList, stack[i].arg)
                           /\ k < i /\ Calling(stack[k]) => stack[k].ev # stack[i].arg
    BY <2>2 DEF LiveInv, ClosersOK, n
  <2>4. CASE j < n
    BY <1>2, <2>2, <2>3, <2>4
  <2>5. CASE j = n
    <3>1. Closing(stack[i].arg)
      BY <2>2 DEF Closing, Closer, n
    <3>2. j # i => f.arg # stack[i].arg
      <4>1. f.arg = Top.arg \/ f.arg = NoEvent \/ ~Closing(f.arg)
        BY DEF Harmless
      <4> QED BY <1>1, <2>2, <2>3, <2>5, <3>1, <4>1
    <3>3. Waits(f) => ~Queued(WaitList, stack[i].arg)
      <4>1. CASE Waits(Top)
        BY <1>1, <2>3, <4>1
      <4>2. CASE \A m \in 1..Len(WaitList) : WaitList[m] \in live /\ ~Closing(WaitList[m])
        BY <3>1, <4>2 DEF Queued
      <4> QED BY <4>1, <4>2 DEF Harmless
    <3>4. ~(j < i)
      BY <1>1, <2>2, <2>5
    <3> QED BY <1>2, <2>2, <2>3, <2>5, <3>2, <3>3, <3>4
  <2>6. CASE j > n
    BY <1>1, <1>3, <2>2, <2>3, <2>6
  <2> QED BY <1>1, <2>4, <2>5, <2>6
<1>7. QueuedLive(stack', gEventQueue', live')
  <2>1. ASSUME NEW t \in 0..TPL_HIGH_LEVEL, NEW x, Queued(gEventQueue'[t], x)
        PROVE  x \in live'
    BY <2>1 DEF QueuesHarmless, LiveInv, QueuedLive
  <2>2. ASSUME NEW i \in 1..Len(stack'), stack'[i].pc = "free", NEW t \in 0..TPL_HIGH_LEVEL,
               Queued(gEventQueue'[t], stack'[i].arg)
        PROVE  FALSE
    <3>1. i \in 1..n /\ stack[i].pc = "free" /\ stack'[i].arg = stack[i].arg
      <4>1. CASE i < n
        BY <1>2, <2>2, <4>1
      <4>2. CASE i = n
        <5>1. stack'[i] = f /\ Closer(f)
          BY <1>2, <2>2, <4>2 DEF Closer
        <5>2. Top.pc = "free" /\ f.arg = Top.arg
          BY <2>2, <5>1 DEF Harmless
        <5> QED BY <1>1, <4>2, <5>1, <5>2
      <4>3. CASE i > n
        BY <1>3, <2>2, <4>3 DEF Closer
      <4> QED BY <1>1, <1>2, <4>1, <4>2, <4>3
    <3>2. Freeing(stack, stack[i].arg)
      BY <3>1 DEF Freeing, Frees, n
    <3>3. ~Queued(gEventQueue[t], stack[i].arg)
      BY <3>1 DEF LiveInv, QueuedLive, n
    <3> QED BY <2>2, <3>1, <3>2, <3>3 DEF QueuesHarmless
  <2> QED BY <2>1, <2>2 DEF QueuedLive
<1>8. {CheckTimerEvent, IdleEvent} \subseteq live'
  BY DEF LiveInv
<1> QED BY <1>4, <1>5, <1>6, <1>7, <1>8 DEF LiveInv

\* A record that is in no service call, and was called by nobody else.
LEMMA PlainHarmless ==
  ASSUME NEW f, f.pc \notin {"siglist", "queue", "check", "clear", "unlink", "free"},
         ~Calling(f), f.arg \in {Top.arg, NoEvent}, Waits(f) => Waits(Top),
         f.kind = "client" => Top.kind = "client"
  PROVE  Harmless(f)
BY DEF Harmless, Uses, Closer

\* A return keeps freed events out of use.
LEMMA LiveReturn ==
  ASSUME IndInv, LiveInv, Returns(stack, stack'), UNCHANGED evtVars
  PROVE  LiveInv'
<1>1. Len(stack) \in Nat /\ Len(stack) >= 1
  BY TopInv
<1>2. \A i \in 1..Len(stack') : i \in 1..Len(stack) /\ stack'[i] = stack[i]
  BY <1>1 DEF Returns
<1>3. \A i \in 1..Len(stack') : i < Len(stack') => i + 1 \in 1..Len(stack') /\ i < Len(stack)
  BY <1>1 DEF Returns
<1>4. UNCHANGED <<live, gEventQueue>>
  BY DEF evtVars
<1>5. UsersOK(stack', live)
  BY <1>2 DEF LiveInv, UsersOK
<1>6. CallersOK(stack')
  BY <1>2, <1>3 DEF LiveInv, CallersOK
<1>7. ClosersOK(stack')
  BY <1>2 DEF LiveInv, ClosersOK
<1>8. QueuedLive(stack', gEventQueue, live)
  BY <1>2 DEF LiveInv, QueuedLive
<1> QED BY <1>4, <1>5, <1>6, <1>7, <1>8 DEF LiveInv

\* CoreRestoreTpl touches no event.
LEMMA RestoreLive ==
  ASSUME IndInv, SignalInv, LiveInv,
         RestoreTest \/ RestoreHighBit \/ RestoreDispatch \/ RestoreExit
  PROVE  LiveInv'
<1>1. Top.kind = "restore" /\ Top \in Frame
  BY TopInv DEF RestoreTest, RestoreHighBit, RestoreDispatch, RestoreExit, At
<1>2. UNCHANGED evtVars /\ live \subseteq live' /\ QueuesHarmless
  BY DEF RestoreTest, RestoreHighBit, RestoreDispatch, RestoreExit, evtVars, QueuesHarmless
<1>3. ASSUME NEW p \in {"test", "high", "act"}, NEW n
      PROVE  Harmless([Top EXCEPT !.pc = p, !.idx = n])
  <2> DEFINE f == [Top EXCEPT !.pc = p, !.idx = n]
  <2>1. f.kind = "restore" /\ f.pc = p /\ f.arg = Top.arg
    BY <1>1 DEF Frame
  <2>2. ~Calling(f) /\ ~Waits(f)
    BY <2>1 DEF Calling, Waits
  <2> HIDE DEF f
  <2>3. Harmless(f)
    BY <2>1, <2>2, PlainHarmless
  <2> QED BY <2>3 DEF f
<1>4. ASSUME NEW p \in {"test", "high", "act"}, NEW n, stack' = SetTop([Top EXCEPT !.pc = p, !.idx = n])
      PROVE  LiveInv'
  <2> DEFINE f == [Top EXCEPT !.pc = p, !.idx = n]
  <2>1. Harmless(f) /\ stack' = SetTop(f)
    BY <1>3, <1>4
  <2> HIDE DEF f
  <2>2. Becomes(stack, stack', f)
    BY <2>1, SetBecomes
  <2> QED BY <1>2, <2>1, <2>2, LiveStep
<1>5. CASE RestoreTest
  BY <1>4, <1>5 DEF RestoreTest
<1>6. CASE RestoreHighBit
  <2> DEFINE n == IF ReloadPending THEN HighBitSet64(gEventPending) ELSE Top.idx
  <2>1. stack' = SetTop([Top EXCEPT !.pc = "act", !.idx = n])
    BY <1>6 DEF RestoreHighBit
  <2> HIDE DEF n
  <2> QED BY <1>4, <2>1
<1>7. CASE RestoreDispatch
  <2> DEFINE f == [Top EXCEPT !.pc = "test", !.idx = 0]
             d == Dispatch(Top.idx)
  <2>1. Harmless(f)
    BY <1>3
  <2>2. f \in Frame
    BY <1>1 DEF Frame, Pcs
  <2>3. Fresh(d) /\ d \in Frame
    BY <1>1, NewRecords DEF Dispatch, Frame, Kinds, Pcs
  <2>4. stack' = Append(SetTop(f), d)
    BY <1>7 DEF RestoreDispatch
  <2> HIDE DEF f, d
  <2>5. Becomes(stack, stack', f)
    BY <2>2, <2>3, <2>4, PushBecomes
  <2> QED BY <1>2, <2>1, <2>5, LiveStep
<1>8. CASE RestoreExit
  <2>1. Returns(stack, stack')
    BY <1>1, <1>8, BelowReturns DEF RestoreExit
  <2> QED BY <1>2, <2>1, LiveReturn
<1> QED BY <1>5, <1>6, <1>7, <1>8

\* Returns from the dispatcher, the interrupt handler and a notification function.
LEMMA ReturnLive ==
  ASSUME IndInv, LiveInv, DispatchReturn \/ InterruptReturn \/ NotifyReturn
  PROVE  LiveInv'
<1>1. stack' = Below /\ UNCHANGED evtVars
  BY DEF DispatchReturn, InterruptReturn, NotifyReturn
<1>2. Top.kind # "client" \/ Top.ev # NoEvent
  BY DEF DispatchReturn, InterruptReturn, NotifyReturn, At
<1> QED BY <1>1, <1>2, BelowReturns, LiveReturn

\* The dispatcher.  The event it takes exists, because it was queued.
LEMMA DispatchLive ==
  ASSUME IndInv, SignalInv, LiveInv, DispatchNext \/ DispatchCall \/ DispatchEmpty
  PROVE  LiveInv'
<1>1. Top.kind = "dispatch" /\ Top \in Frame /\ FrameOK(Top) /\ Top.lvl \in Nat
  BY TopInv DEF DispatchNext, DispatchCall, DispatchEmpty, At
<1>2. CASE DispatchNext
  <2> DEFINE e == Head(gEventQueue[Top.lvl])
             f == [Top EXCEPT !.pc = "call", !.ev = e]
  <2>1. /\ Queued(gEventQueue[Top.lvl], e) /\ e \in Event
        /\ Becomes(stack, stack', f)
        /\ \A t \in 0..TPL_HIGH_LEVEL : \A x :
             Queued(gEventQueue'[t], x) => Queued(gEventQueue[t], x)
    BY <1>2, DispatchNextSignals
  <2>2. Top.lvl \in 0..TPL_HIGH_LEVEL
    BY <1>1 DEF FrameOK, TPL_HIGH_LEVEL
  <2>3. e \in live /\ NotifyTpl[e] = Top.lvl /\ EventType[e] # "plain"
    BY <2>1, <2>2 DEF LiveInv, QueuedLive, SignalInv, Sound
  <2>4. /\ f \in Frame /\ f.pc = "call" /\ f.ev = e /\ f.lvl = Top.lvl /\ f.arg = Top.arg
        /\ f.kind = "dispatch"
    <3> HIDE DEF e
    <3> QED BY <1>1, <2>1 DEF Frame, Pcs
  <2>5. stack'[Len(stack) + 1].kind # "client"
    BY <1>2, <2>4, LockedBecomes DEF DispatchNext
  <2>6. Harmless(f)
    BY <2>3, <2>4, <2>5 DEF Harmless, Uses, Closer, Waits
  <2>7. QueuesHarmless /\ live \subseteq live'
    BY <1>2, <2>1 DEF QueuesHarmless, DispatchNext
  <2> HIDE DEF f
  <2> QED BY <2>1, <2>6, <2>7, LiveStep
<1>3. CASE DispatchCall
  <2> DEFINE f == [Top EXCEPT !.pc = "next", !.ev = NoEvent]
             c == Client(gEfiCurrentTpl, Top.ev)
  <2>1. f \in Frame /\ f.pc = "next" /\ f.arg = Top.arg /\ f.kind = "dispatch"
    BY <1>1 DEF Frame, Pcs
  <2>2. Harmless(f)
    BY <2>1, PlainHarmless DEF Calling, Waits
  <2>3. c \in Frame /\ Fresh(c)
    <3>0. gEfiCurrentTpl \in 0..TPL_HIGH_LEVEL
      BY TopInv
    <3>1. gEfiCurrentTpl \in Nat /\ Top.ev \in Event \cup {NoEvent}
      BY <1>1, <3>0 DEF Frame, TPL_HIGH_LEVEL
    <3>2. c \in Frame
      BY <3>1, ClientAssumption DEF Client, Frame, Kinds, Pcs
    <3> QED BY <3>2, NewRecords
  <2>4. stack' = Append(SetTop(f), c) /\ QueuesHarmless /\ live \subseteq live'
    BY <1>3 DEF DispatchCall, evtVars, QueuesHarmless
  <2> HIDE DEF f, c
  <2>5. Becomes(stack, stack', f)
    BY <2>1, <2>3, <2>4, PushBecomes
  <2> QED BY <2>2, <2>4, <2>5, LiveStep
<1>4. CASE DispatchEmpty
  <2> DEFINE f == [Top EXCEPT !.pc = "done"]
  <2>1. f \in Frame /\ f.pc = "done" /\ f.arg = Top.arg /\ f.kind = "dispatch"
    BY <1>1 DEF Frame, Pcs
  <2>2. Harmless(f)
    BY <2>1, PlainHarmless DEF Calling, Waits
  <2>3. EventLocked(f) /\ QueuesHarmless /\ live \subseteq live'
    BY <1>4 DEF DispatchEmpty, QueuesHarmless
  <2> HIDE DEF f
  <2>4. Becomes(stack, stack', f)
    BY <2>1, <2>3, LockedBecomes
  <2> QED BY <2>2, <2>3, <2>4, LiveStep
<1> QED BY <1>2, <1>3, <1>4

\* CoreNotifyEvent queues an event that exists and is not on its way out.
LEMMA NotifyHarmless ==
  ASSUME IndInv, SignalInv, NEW e \in Event, EventType[e] # "plain", NotifyEvent(e),
         e \in live, ~Freeing(stack, e)
  PROVE  QueuesHarmless
<1>1. \A t \in 0..TPL_HIGH_LEVEL : \A x :
        Queued(gEventQueue'[t], x) <=>
          Queued(gEventQueue[t], x) \/ (t = NotifyTpl[e] /\ x = e)
  BY NotifyQueue DEF SignalInv
<1> QED BY <1>1 DEF QueuesHarmless

\* The events of the core are never on their way out.
LEMMA CoreEventsStay ==
  ASSUME LiveInv, NEW e \in {CheckTimerEvent, IdleEvent}
  PROVE  e \in live /\ ~Freeing(stack, e) /\ ~Closing(e)
<1>1. ASSUME NEW i \in 1..Len(stack), Closer(stack[i])
      PROVE  stack[i].arg # e
  BY <1>1 DEF LiveInv, ClosersOK
<1> QED BY <1>1 DEF LiveInv, Freeing, Frees, Closing, Closer

\* A step of the running function, with or without a CoreRestoreTpl at its end.
LEMMA LiveClient ==
  ASSUME IndInv, SignalInv, LiveInv, NEW f \in Frame, Harmless(f), QueuesHarmless,
         live \subseteq live', NEW l \in 0..TPL_HIGH_LEVEL,
         stack' = SetTop(f) \/ stack' = Append(SetTop(f), Restore(l))
  PROVE  LiveInv'
<1>1. CASE stack' = SetTop(f)
  <2>1. Becomes(stack, stack', f)
    BY <1>1, SetBecomes
  <2> QED BY <2>1, LiveStep
<1>2. CASE stack' = Append(SetTop(f), Restore(l))
  <2> DEFINE r == Restore(l)
  <2>1. r \in Frame /\ Fresh(r) /\ stack' = Append(SetTop(f), r)
    BY <1>2, RestoreFrame, NewRecords
  <2> HIDE DEF r
  <2>2. Becomes(stack, stack', f)
    BY <2>1, PushBecomes
  <2> QED BY <2>2, LiveStep
<1> QED BY <1>1, <1>2

\* Clients raise and lower their level, come to the end of CoreSignalEvent and of
\* CoreCheckEvent: they reach for no event.
LEMMA ClientLive ==
  ASSUME IndInv, SignalInv, LiveInv,
         \/ \E new \in RaiseLevels : ClientRaiseTpl(new)
         \/ \E new \in RaiseLevels \cup {Top.base} : ClientRestoreTpl(new)
         \/ SignalRelock \/ CheckEventTest \/ CheckEventClear
  PROVE  LiveInv'
<1>1. /\ Top \in Frame /\ Top.lvl \in Nat /\ Top.base \in Nat /\ FrameOK(Top)
      /\ gEfiCurrentTpl \in 0..TPL_HIGH_LEVEL /\ Top = stack[Len(stack)]
      /\ Len(stack) \in 1..Len(stack)
  BY TopInv
<1>2. QueuesHarmless /\ live \subseteq live'
  BY DEF ClientRaiseTpl, ClientRestoreTpl, SignalRelock, CheckEventTest, CheckEventClear,
         evtVars, QueuesHarmless
<1>3. ASSUME NEW f \in Frame, f.kind = "client", f.pc \in {"run", "wait"},
             f.arg \in {Top.arg, NoEvent}, Waits(f) => Waits(Top), Top.kind = "client",
             NEW l \in 0..TPL_HIGH_LEVEL,
             stack' = SetTop(f) \/ stack' = Append(SetTop(f), Restore(l))
      PROVE  LiveInv'
  <2>1. ~Calling(f) /\ f.pc \notin {"siglist", "queue", "check", "clear", "unlink", "free"}
    BY <1>3 DEF Calling
  <2>2. Harmless(f)
    BY <1>3, <2>1, PlainHarmless
  <2> QED BY <1>2, <1>3, <2>2, LiveClient
<1>4. ASSUME NEW new \in RaiseLevels, ClientRaiseTpl(new)
      PROVE  LiveInv'
  <2> DEFINE f == [Called EXCEPT !.lvl = new]
  <2>1. /\ Called \in Frame /\ Called.kind = "client" /\ Called.pc = "run"
        /\ Called.arg = Top.arg /\ Called.idx = Top.idx /\ Top.kind = "client"
    BY <1>4, CalledSame DEF ClientRaiseTpl, Free
  <2>2. new \in Nat
    BY ClientAssumption DEF TPL_APPLICATION, TPL_HIGH_LEVEL
  <2>3. /\ f \in Frame /\ f.kind = "client" /\ f.pc = "run" /\ f.arg = Top.arg
        /\ f.idx = Top.idx
    BY <2>1, <2>2 DEF Frame
  <2>4. stack' = SetTop(f)
    BY <1>4 DEF ClientRaiseTpl
  <2> HIDE DEF f
  <2>5. Waits(f) => Waits(Top)
    BY <2>1, <2>3 DEF Waits
  <2> QED BY <1>1, <1>3, <2>1, <2>3, <2>4, <2>5
<1>5. ASSUME NEW new \in RaiseLevels \cup {Top.base}, ClientRestoreTpl(new)
      PROVE  LiveInv'
  <2> DEFINE f == [Top EXCEPT !.lvl = new]
  <2>1. Top.kind = "client" /\ Top.pc = "run" /\ Top.lvl <= TPL_HIGH_LEVEL /\ new < Top.lvl
    BY <1>1, <1>5 DEF ClientRestoreTpl, At, FrameOK
  <2>2. new \in 0..TPL_HIGH_LEVEL
    <3>1. new \in Nat
      BY <1>1, ClientAssumption DEF TPL_APPLICATION, TPL_HIGH_LEVEL
    <3> QED BY <1>1, <2>1, <3>1 DEF TPL_HIGH_LEVEL
  <2>3. /\ f \in Frame /\ f.kind = "client" /\ f.pc = "run" /\ f.arg = Top.arg
        /\ f.idx = Top.idx
    BY <1>1, <2>1, <2>2 DEF Frame
  <2>4. stack' = Append(SetTop(f), Restore(new))
    BY <1>5 DEF ClientRestoreTpl
  <2> HIDE DEF f
  <2>5. Waits(f) => Waits(Top)
    BY <2>1, <2>3 DEF Waits
  <2> QED BY <1>3, <2>1, <2>2, <2>3, <2>4, <2>5
<1>6. CASE SignalRelock
  <2> DEFINE f == Returned(Top)
  <2>1. Top.kind = "client"
    BY <1>6 DEF SignalRelock, At
  <2>2. /\ f \in Frame /\ f.kind = "client" /\ f.pc \in {"run", "wait"} /\ f.arg = NoEvent
        /\ f.idx = Top.idx
    BY <1>1, <2>1, ReturnedFrame
  <2>3. stack' = Append(SetTop(f), Restore(gEfiCurrentTpl))
    BY <1>6 DEF SignalRelock, EventLocked
  <2> HIDE DEF f
  <2>4. Waits(f) => Waits(Top)
    BY <2>1, <2>2 DEF Waits
  <2> QED BY <1>1, <1>3, <2>1, <2>2, <2>3, <2>4
<1>7. CASE CheckEventClear
  <2> DEFINE f == IF SignalCount[Top.arg] # 0 THEN Ready(Top) ELSE NotReady(Top)
  <2>1. Top.kind = "client"
    BY <1>7 DEF CheckEventClear, At
  <2>2. /\ f \in Frame /\ f.kind = "client" /\ f.pc \in {"run", "wait"} /\ f.arg = NoEvent
        /\ Waits(f) => Waits(Top)
    BY <1>1, <2>1, ResultFrame
  <2>3. stack' = Append(SetTop(f), Restore(gEfiCurrentTpl))
    BY <1>7 DEF CheckEventClear, EventLocked
  <2> HIDE DEF f
  <2> QED BY <1>1, <1>3, <2>1, <2>2, <2>3
<1>8. CASE CheckEventTest /\ SignalCount[Top.arg] = 0
  <2> DEFINE f == NotReady(Top)
  <2>1. Top.kind = "client" /\ stack' = SetTop(f)
    BY <1>8 DEF CheckEventTest, At
  <2>2. /\ f \in Frame /\ f.kind = "client" /\ f.pc \in {"run", "wait"} /\ f.arg = NoEvent
        /\ Waits(f) => Waits(Top)
    BY <1>1, <2>1, ResultFrame
  <2> HIDE DEF f
  <2> QED BY <1>1, <1>3, <2>1, <2>2
<1>9. CASE CheckEventTest /\ SignalCount[Top.arg] # 0
  <2> DEFINE f == [Top EXCEPT !.pc = "clear"]
  <2>1. Top.kind = "client" /\ Top.pc = "check" /\ stack' = SetTop(f)
    BY <1>9 DEF CheckEventTest, At
  <2>2. /\ f \in Frame /\ f.kind = "client" /\ f.pc = "clear" /\ f.arg = Top.arg
        /\ f.idx = Top.idx
    BY <1>1, <2>1 DEF Frame, Pcs
  <2>3. Top.arg \in live
    BY <1>1, <2>1 DEF LiveInv, UsersOK, Uses
  <2> HIDE DEF f
  <2>4. Harmless(f)
    BY <2>1, <2>2, <2>3 DEF Harmless, Uses, Closer, Waits, Calling
  <2> QED BY <1>1, <1>2, <2>1, <2>2, <2>4, LiveClient
<1> QED BY <1>4, <1>5, <1>6, <1>7, <1>8, <1>9

\* An event that nobody closes is not on its way out.
LEMMA NotFreeing ==
  ASSUME NEW e, ~Closing(e)
  PROVE  ~Freeing(stack, e)
BY DEF Closing, Freeing, Frees

\* The event of the running service call, and those the running wait is for, exist
\* and are not being closed.
LEMMA UsedStay ==
  ASSUME IndInv, LiveInv
  PROVE  /\ Uses(Top) => Top.arg \in live /\ ~Closing(Top.arg)
         /\ Waits(Top) => \A m \in 1..Len(WaitList) :
                            WaitList[m] \in live /\ ~Closing(WaitList[m])
<1> DEFINE n == Len(stack)
<1>1. Top = stack[n] /\ n \in 1..n
  BY TopInv
<1> HIDE DEF n
<1>2. ASSUME NEW i \in 1..Len(stack), Closer(stack[i])
      PROVE  /\ n # i => Top.arg # stack[i].arg
             /\ Waits(Top) => ~Queued(WaitList, stack[i].arg)
  BY <1>1, <1>2 DEF LiveInv, ClosersOK, n
<1>3. ASSUME Uses(Top)
      PROVE  Top.arg \in live /\ ~Closing(Top.arg)
  <2>1. Top.arg \in live /\ ~Closer(Top)
    BY <1>1, <1>3 DEF LiveInv, UsersOK, n, Uses, Closer
  <2>2. ~Closing(Top.arg)
    BY <1>1, <1>2, <2>1 DEF Closing, Closer
  <2> QED BY <2>1, <2>2
<1>4. ASSUME Waits(Top), NEW m \in 1..Len(WaitList)
      PROVE  WaitList[m] \in live /\ ~Closing(WaitList[m])
  <2>1. WaitList[m] \in live
    BY <1>1, <1>4 DEF LiveInv, UsersOK, n
  <2>2. Queued(WaitList, WaitList[m])
    BY DEF Queued
  <2> QED BY <1>2, <1>4, <2>1, <2>2 DEF Closing, Closer
<1> QED BY <1>3, <1>4

\* CoreCheckEvent is called for an event that exists and is not being closed.
LEMMA CheckLive ==
  ASSUME IndInv, SignalInv, LiveInv, NEW f \in Frame, f.kind = "client", Top.kind = "client",
         Waits(f) => Waits(Top), NEW e \in Event, e \in live, ~Closing(e), CheckEvent(f, e)
  PROVE  LiveInv'
<1> DEFINE p == IF SignalCount[e] = 0 /\ EventType[e] = "wait" THEN "queue" ELSE "check"
           g == [f EXCEPT !.pc = p, !.arg = e]
<1>1. g \in Frame /\ g.kind = "client" /\ g.pc = p /\ g.arg = e /\ g.idx = f.idx
  BY DEF Frame, Pcs
<1>2. g.pc \in {"queue", "check"}
  BY <1>1
<1>3. stack' = SetTop(g) /\ QueuesHarmless /\ live \subseteq live'
  BY DEF CheckEvent, QueuesHarmless, evtVars
<1> HIDE DEF g, p
<1>4. Waits(g) => Waits(Top)
  BY <1>1 DEF Waits
<1>5. Harmless(g)
  BY <1>1, <1>2, <1>4 DEF Harmless, Uses, Closer, Calling
<1>6. Becomes(stack, stack', g)
  BY <1>3, SetBecomes
<1> QED BY <1>3, <1>5, <1>6, LiveStep

\* CoreSignalEvent is called for an event that exists and is not being closed.
LEMMA SignalLive ==
  ASSUME IndInv, SignalInv, LiveInv, NEW f \in Frame, f.kind = "client", Top.kind = "client",
         f.pc \in {"run", "wait"}, f.arg \in {Top.arg, NoEvent}, Waits(f) => Waits(Top),
         NEW e \in Event, e \in live, ~Closing(e), SignalEvent(f, e)
  PROVE  LiveInv'
<1> DEFINE g == [f EXCEPT !.pc = "siglist", !.arg = e]
<1>1. g \in Frame /\ g.kind = "client" /\ g.pc = "siglist" /\ g.arg = e /\ g.idx = f.idx
  BY DEF Frame, Pcs
<1>2. \/ EventLocked(f)
      \/ EventLocked(g)
  BY DEF SignalEvent
<1>3. \/ NotifyEvent(e) /\ EventType[e] # "plain"
      \/ UNCHANGED gEventQueue
  BY DEF SignalEvent
<1>4. live \subseteq live'
  BY DEF SignalEvent
<1> HIDE DEF g
<1>5. QueuesHarmless
  <2>1. CASE NotifyEvent(e) /\ EventType[e] # "plain"
    BY <2>1, NotFreeing, NotifyHarmless
  <2>2. CASE UNCHANGED gEventQueue
    BY <2>2 DEF QueuesHarmless
  <2> QED BY <1>3, <2>1, <2>2
<1>6. CASE EventLocked(f)
  <2>1. ~Calling(f) /\ f.pc \notin {"siglist", "queue", "check", "clear", "unlink", "free"}
    BY DEF Calling
  <2>2. Harmless(f)
    BY <2>1, PlainHarmless
  <2>3. Becomes(stack, stack', f)
    BY <1>6, LockedBecomes
  <2> QED BY <1>4, <1>5, <2>2, <2>3, LiveStep
<1>7. CASE EventLocked(g)
  <2>1. Waits(g) => Waits(Top)
    BY <1>1 DEF Waits
  <2>2. Harmless(g)
    BY <1>1, <2>1 DEF Harmless, Uses, Closer, Calling
  <2>3. Becomes(stack, stack', g)
    BY <1>1, <1>7, LockedBecomes
  <2> QED BY <1>4, <1>5, <2>2, <2>3, LiveStep
<1> QED BY <1>2, <1>6, <1>7

\* Disciplined clients call services on events that exist and are not being closed;
\* CoreWaitForEvent keeps that for its events.
LEMMA UseLive ==
  ASSUME IndInv, SignalInv, LiveInv, Disciplined,
         \/ \E e \in Event : ClientSignalEvent(e) \/ ClientCheckEvent(e)
         \/ WaitForEvent \/ WaitCheck \/ WaitIdle
  PROVE  LiveInv'
<1>1. Top \in Frame /\ FrameOK(Top) /\ Top.idx \in Nat
  BY TopInv
<1>2. ASSUME NEW e \in Event, ClientSignalEvent(e) \/ ClientCheckEvent(e)
      PROVE  LiveInv'
  <2>1. Running /\ e \in live /\ ~Closing(e)
    BY <1>2 DEF ClientSignalEvent, ClientCheckEvent, Free, MayUse
  <2>2. /\ Called \in Frame /\ Called.kind = "client" /\ Called.pc = "run"
        /\ Called.arg = Top.arg /\ Called.idx = Top.idx /\ Top.kind = "client"
    BY <2>1, CalledSame
  <2>3. Waits(Called) => Waits(Top)
    BY <2>2 DEF Waits
  <2>4. CASE SignalEvent(Called, e)
    BY <2>1, <2>2, <2>3, <2>4, SignalLive
  <2>5. CASE CheckEvent(Called, e)
    BY <2>1, <2>2, <2>3, <2>5, CheckLive
  <2> QED BY <1>2, <2>4, <2>5 DEF ClientSignalEvent, ClientCheckEvent
<1>3. CASE WaitForEvent
  <2> DEFINE f == [Called EXCEPT !.pc = "wait", !.idx = 1]
  <2>1. /\ Called \in Frame /\ Called.kind = "client" /\ Called.arg = Top.arg
        /\ Top.kind = "client"
    BY <1>3, CalledSame DEF WaitForEvent, Free
  <2>2. f \in Frame /\ f.kind = "client" /\ f.pc = "wait" /\ f.arg = Top.arg
    BY <2>1 DEF Frame, Pcs
  <2>3. stack' = SetTop(f) /\ QueuesHarmless /\ live \subseteq live'
    BY <1>3 DEF WaitForEvent, QueuesHarmless, evtVars
  <2>4. \A m \in 1..Len(WaitList) : WaitList[m] \in live /\ ~Closing(WaitList[m])
    BY <1>3 DEF WaitForEvent, MayUse
  <2> HIDE DEF f
  <2>5. Harmless(f)
    BY <2>1, <2>2, <2>4 DEF Harmless, Uses, Closer, Calling
  <2>6. Becomes(stack, stack', f)
    BY <2>3, SetBecomes
  <2> QED BY <2>3, <2>5, <2>6, LiveStep
<1>4. ASSUME Top.kind = "client", Top.pc = "wait"
      PROVE  Waits(Top) /\ Top.idx >= 1
  BY <1>1, <1>4 DEF FrameOK, Waits
<1>5. CASE WaitCheck
  <2>1. /\ Top.kind = "client" /\ Top.pc = "wait" /\ Top.idx <= Len(WaitList)
        /\ CheckEvent(Top, WaitList[Top.idx])
    BY <1>5 DEF WaitCheck, At
  <2>2. Waits(Top) /\ Top.idx \in 1..Len(WaitList)
    BY <1>1, <1>4, <2>1, ClientAssumption
  <2>3. PICK e : e = WaitList[Top.idx]
    OBVIOUS
  <2>4. e \in live /\ ~Closing(e) /\ e \in Event
    BY <2>2, <2>3, UsedStay, ClientAssumption
  <2>5. CheckEvent(Top, e)
    BY <2>1, <2>3
  <2> QED BY <1>1, <2>1, <2>4, <2>5, CheckLive
<1>6. CASE WaitIdle
  <2> DEFINE f == [Top EXCEPT !.idx = 1]
  <2>1. Top.kind = "client" /\ Top.pc = "wait" /\ SignalEvent(f, IdleEvent)
    BY <1>6 DEF WaitIdle, At
  <2>2. f \in Frame /\ f.kind = "client" /\ f.pc = "wait" /\ f.arg = Top.arg
    BY <1>1, <2>1 DEF Frame
  <2>3. Waits(Top)
    BY <1>4, <2>1
  <2>4. IdleEvent \in live /\ ~Closing(IdleEvent) /\ IdleEvent \in Event
    BY CoreEventsStay, EventAssumption
  <2> HIDE DEF f
  <2> QED BY <2>1, <2>2, <2>3, <2>4, SignalLive
<1> QED BY <1>2, <1>3, <1>5, <1>6

\* CoreCheckEvent queues the wait function of its event.
LEMMA CheckQueueLive ==
  ASSUME IndInv, SignalInv, LiveInv, CheckEventQueue
  PROVE  LiveInv'
<1> DEFINE f == [Top EXCEPT !.pc = "check"]
<1>1. Top \in Frame /\ FrameOK(Top) /\ CallOK(Top) /\ Top.kind = "client" /\ Top.pc = "queue"
  BY TopCall DEF CheckEventQueue, At
<1>2. PICK e \in Event : e = Top.arg /\ EventType[e] # "plain"
  BY <1>1 DEF FrameOK, InService, CallOK
<1>3. f \in Frame /\ f.kind = "client" /\ f.pc = "check" /\ f.arg = Top.arg /\ f.idx = Top.idx
  BY <1>1 DEF Frame, Pcs
<1>4. /\ NotifyEvent(e) \/ UNCHANGED gEventQueue
      /\ EventLocked(f) /\ live \subseteq live'
  BY <1>2 DEF CheckEventQueue
<1>5. e \in live /\ ~Closing(e)
  BY <1>1, <1>2, UsedStay DEF Uses
<1> HIDE DEF f
<1>6. QueuesHarmless
  <2>1. CASE NotifyEvent(e)
    BY <1>2, <1>5, <2>1, NotFreeing, NotifyHarmless
  <2>2. CASE UNCHANGED gEventQueue
    BY <2>2 DEF QueuesHarmless
  <2> QED BY <1>4, <2>1, <2>2
<1>7. Harmless(f)
  BY <1>1, <1>2, <1>3, <1>5 DEF Harmless, Uses, Closer, Waits, Calling
<1>8. Becomes(stack, stack', f)
  BY <1>3, <1>4, LockedBecomes
<1> QED BY <1>4, <1>6, <1>7, <1>8, LiveStep

\* CoreNotifySignalList walks events that exist.
LEMMA ListLive ==
  ASSUME IndInv, SignalInv, LiveInv,
         NotifySignalList \/ NotifySignalListStep \/ NotifySignalListEnd
  PROVE  LiveInv'
<1>1. /\ Top \in Frame /\ FrameOK(Top) /\ CallOK(Top) /\ Top.idx \in Nat
      /\ gEfiCurrentTpl \in 0..TPL_HIGH_LEVEL
  BY TopInv, TopCall
<1>2. live \subseteq live'
  BY DEF NotifySignalList, NotifySignalListStep, NotifySignalListEnd, evtVars
<1>3. CASE NotifySignalList
  <2> DEFINE f == [Top EXCEPT !.pc = "relock"]
             g == SignalList(gEfiCurrentTpl, Top.arg)
  <2>1. Top.kind = "client" /\ Top.pc = "siglist" /\ stack' = Append(SetTop(f), g)
    BY <1>3 DEF NotifySignalList, At
  <2>2. /\ f \in Frame /\ f.kind = "client" /\ f.pc = "relock" /\ f.arg = Top.arg
        /\ f.idx = Top.idx
    BY <1>1, <2>1 DEF Frame, Pcs
  <2>3. g \in Frame /\ Fresh(g)
    <3>1. gEfiCurrentTpl \in Nat /\ Top.arg \in Event \cup {NoEvent}
      BY <1>1 DEF TPL_HIGH_LEVEL, Frame
    <3>2. g \in Frame
      BY <3>1 DEF SignalList, Frame, Kinds, Pcs
    <3> QED BY <3>2, NewRecords
  <2>4. QueuesHarmless
    BY <1>3 DEF NotifySignalList, evtVars, QueuesHarmless
  <2> HIDE DEF f, g
  <2>5. Harmless(f)
    BY <2>1, <2>2, PlainHarmless DEF Calling, Waits
  <2>6. Becomes(stack, stack', f)
    BY <2>1, <2>2, <2>3, PushBecomes
  <2> QED BY <1>2, <2>4, <2>5, <2>6, LiveStep
<1>4. CASE NotifySignalListStep
  <2> DEFINE f == [Top EXCEPT !.idx = @ + 1]
             S == gEventSignalQueue
  <2>1. Top.kind = "list" /\ Top.idx <= Len(S) /\ stack' = SetTop(f) /\ Top.idx >= 1
    BY <1>1, <1>4 DEF NotifySignalListStep, FrameOK
  <2>2. f \in Frame /\ f.kind = "list" /\ f.pc = Top.pc /\ f.arg = Top.arg
    BY <1>1, <2>1 DEF Frame
  <2>3. S \in Seq(Event) /\ Top.idx \in 1..Len(S)
    BY <1>1, <2>1 DEF IndInv, EvtTypeOK
  <2>4. PICK e \in Event : e = S[Top.idx]
    BY <2>3
  <2>5. Queued(S, e)
    BY <2>3, <2>4 DEF Queued
  <2>6. EventType[e] # "plain" /\ e \in live /\ ~Freeing(stack, e)
    BY <2>5 DEF SignalInv, Linked, Freeing, Frees
  <2>7. NotifyEvent(e) \/ UNCHANGED gEventQueue
    BY <1>4, <2>4 DEF NotifySignalListStep
  <2> HIDE DEF f
  <2>8. QueuesHarmless
    <3>1. CASE NotifyEvent(e)
      BY <2>6, <3>1, NotifyHarmless
    <3>2. CASE UNCHANGED gEventQueue
      BY <3>2 DEF QueuesHarmless
    <3> QED BY <2>7, <3>1, <3>2
  <2>9. Harmless(f)
    <3>1. f.pc \notin InService /\ ~Calling(f) /\ ~Waits(f)
      BY <1>1, <2>1, <2>2 DEF CallOK, Calling, Waits
    <3> QED BY <2>2, <3>1, PlainHarmless DEF InService
  <2>10. Becomes(stack, stack', f)
    BY <2>1, SetBecomes
  <2> QED BY <1>2, <2>8, <2>9, <2>10, LiveStep
<1>5. CASE NotifySignalListEnd
  <2> DEFINE f == Restore(Top.lvl)
  <2>1. Fresh(f) /\ f.kind = "restore"
    BY NewRecords
  <2>2. stack' = SetTop(f) /\ QueuesHarmless
    BY <1>5 DEF NotifySignalListEnd, evtVars, QueuesHarmless
  <2> HIDE DEF f
  <2>3. Harmless(f)
    BY <2>1, PlainHarmless DEF Fresh, InService
  <2>4. Becomes(stack, stack', f)
    BY <2>2, SetBecomes
  <2> QED BY <1>2, <2>2, <2>3, <2>4, LiveStep
<1> QED BY <1>3, <1>4, <1>5

\* The timer-check event is never closed; the tick leaves the interrupted call as
\* it is.
LEMMA TimerLive ==
  ASSUME IndInv, SignalInv, LiveInv, TimerInterrupt \/ ClientSetTimerNow
  PROVE  LiveInv'
<1> DEFINE e == CheckTimerEvent
<1>1. e \in Event /\ EventType[e] # "plain" /\ e \in live /\ ~Freeing(stack, e)
  BY EventAssumption, CoreEventsStay
<1>2. live \subseteq live' /\ (NotifyEvent(e) \/ UNCHANGED gEventQueue)
  BY DEF TimerInterrupt, ClientSetTimerNow
<1> HIDE DEF e
<1>3. QueuesHarmless
  <2>1. CASE NotifyEvent(e)
    BY <1>1, <2>1, NotifyHarmless
  <2>2. CASE UNCHANGED gEventQueue
    BY <2>2 DEF QueuesHarmless
  <2> QED BY <1>2, <2>1, <2>2
<1>4. CASE TimerInterrupt
  <2>1. Becomes(stack, stack', Top) /\ stack'[Len(stack) + 1].kind # "client"
    BY <1>4, TickBecomes
  <2>2. Top = stack[Len(stack)] /\ Len(stack) \in 1..Len(stack)
    BY TopInv
  <2>3. /\ Uses(Top) => Top.arg \in live
        /\ Calling(Top) => /\ Top.ev \in live /\ NotifyTpl[Top.ev] = Top.lvl
                           /\ EventType[Top.ev] # "plain"
    BY <2>2 DEF LiveInv, UsersOK, CallersOK
  <2>4. Harmless(Top)
    BY <2>1, <2>3 DEF Harmless
  <2> QED BY <1>2, <1>3, <2>1, <2>4, LiveStep
<1>5. CASE ClientSetTimerNow
  <2> DEFINE f == Called
  <2>1. /\ f \in Frame /\ f.kind = "client" /\ f.pc = "run" /\ f.arg = Top.arg
        /\ f.idx = Top.idx /\ Top.kind = "client"
    BY <1>5, CalledSame DEF ClientSetTimerNow, Free
  <2>2. stack' = Append(SetTop(f), Restore(gEfiCurrentTpl)) /\ gEfiCurrentTpl \in 0..TPL_HIGH_LEVEL
    BY <1>5, TopInv DEF ClientSetTimerNow
  <2> HIDE DEF f
  <2>3. Harmless(f)
    BY <2>1, PlainHarmless DEF Calling, Waits
  <2> QED BY <1>2, <1>3, <2>1, <2>2, <2>3, LiveClient
<1> QED BY <1>4, <1>5

\* A new event.
LEMMA CreateLive ==
  ASSUME IndInv, SignalInv, LiveInv, NEW e \in Event, CreateEvent(e)
  PROVE  LiveInv'
<1> DEFINE f == Called
<1>1. /\ f \in Frame /\ f.kind = "client" /\ f.pc = "run" /\ f.arg = Top.arg
      /\ f.idx = Top.idx /\ Top.kind = "client"
  BY CalledSame DEF CreateEvent, Free
<1>2. EventLocked(f) /\ QueuesHarmless /\ live \subseteq live'
  BY DEF CreateEvent, QueuesHarmless
<1> HIDE DEF f
<1>3. Harmless(f)
  BY <1>1, PlainHarmless DEF Calling, Waits
<1>4. Becomes(stack, stack', f)
  BY <1>1, <1>2, LockedBecomes
<1> QED BY <1>2, <1>3, <1>4, LiveStep

\* CoreCloseEvent has unlinked the event.
LEMMA UnlinkLive ==
  ASSUME IndInv, SignalInv, LiveInv, CloseEventUnlink
  PROVE  LiveInv'
<1> DEFINE f == [Top EXCEPT !.pc = "free"]
<1>1. Top \in Frame /\ Top.kind = "client" /\ Top.pc = "unlink"
  BY TopInv DEF CloseEventUnlink, At
<1>2. f.kind = "client" /\ f.pc = "free" /\ f.arg = Top.arg /\ f.idx = Top.idx
  BY <1>1 DEF Frame
<1>3. /\ Becomes(stack, stack', f)
      /\ \A t \in 0..TPL_HIGH_LEVEL : \A x :
           Queued(gEventQueue'[t], x) <=> Queued(gEventQueue[t], x) /\ x # Top.arg
  BY UnlinkSignals
<1>4. live \subseteq live'
  BY DEF CloseEventUnlink
<1>5. QueuesHarmless
  BY <1>3 DEF QueuesHarmless
<1> HIDE DEF f
<1>6. \A t \in 0..TPL_HIGH_LEVEL : ~Queued(gEventQueue'[t], f.arg)
  BY <1>2, <1>3
<1>7. Harmless(f)
  BY <1>1, <1>2, <1>6 DEF Harmless, Uses, Closer, Waits, Calling
<1> QED BY <1>3, <1>4, <1>5, <1>7, LiveStep

(***************************************************************************)
(* Below a client that runs no higher than NotifyTpl of e there is no      *)
(* dispatcher that has dequeued e and not called its function: what is     *)
(* directly above such a dispatcher is at its level or higher, and a       *)
(* client further up is strictly higher than that.                         *)
(***************************************************************************)
LEMMA NoDispatcherBelow ==
  ASSUME IndInv, LiveInv, Top.kind = "client", NEW e,
         EventType[e] = "plain" \/ Top.lvl <= NotifyTpl[e],
         NEW k \in 1..Len(stack), k < Len(stack), Calling(stack[k])
  PROVE  stack[k].ev # e
<1> SUFFICES ASSUME stack[k].ev = e PROVE FALSE
  OBVIOUS
<1> DEFINE n == Len(stack)
           m == k + 1
<1>1. /\ Top = stack[n] /\ n \in Nat /\ n \in 1..n /\ Top.lvl \in Nat /\ Top.base \in Nat
      /\ StackOK(stack) /\ FrameOK(Top)
  BY TopInv
<1>2. /\ NotifyTpl[e] = stack[k].lvl /\ EventType[e] # "plain" /\ stack[m].kind # "client"
  BY DEF LiveInv, CallersOK
<1>3. m \in 1..n /\ m \in 2..n /\ m < n /\ k < m /\ m - 1 = k
  BY <1>1, <1>2
<1> HIDE DEF n, m
<1>4. Link(stack[k], stack[m]) /\ stack[k] \in Frame /\ stack[m] \in Frame /\ FrameOK(stack[m])
  <2>1. Link(stack[m - 1], stack[m])
    BY <1>1, <1>3 DEF StackOK, n
  <2> QED BY <1>1, <1>3, <2>1 DEF StackOK, n
<1>5. stack[m].kind # "dispatch"
  BY <1>4 DEF Link, Calling
<1>6. stack[k].lvl <= stack[m].base
  BY <1>1, <1>3 DEF StackOK, LevelsOK, n
<1>7. stack[m].lvl < Top.base
  BY <1>1, <1>3, <1>5 DEF StackOK, LevelsOK, n
<1>8. /\ stack[m].base <= stack[m].lvl /\ Top.base <= Top.lvl
      /\ stack[k].lvl \in Nat /\ stack[m].base \in Nat /\ stack[m].lvl \in Nat
  BY <1>1, <1>4 DEF FrameOK, Frame
<1> QED BY <1>1, <1>2, <1>6, <1>7, <1>8, SMTT(30)

\* CoreCloseEvent, called as the discipline has it: nobody else has to do with the
\* event from now on.
LEMMA CloseLive ==
  ASSUME IndInv, SignalInv, LiveInv, Disciplined, NEW e \in Event, CloseEvent(e)
  PROVE  LiveInv'
<1> DEFINE f == [Called EXCEPT !.pc = "unlink", !.arg = e]
           n == Len(stack)
<1>1. /\ Called \in Frame /\ Called.kind = "client" /\ Called.idx = Top.idx
      /\ Top.kind = "client" /\ Top.pc = "run"
  BY CalledSame DEF CloseEvent, Free
<1>2. /\ f \in Frame /\ f.kind = "client" /\ f.pc = "unlink" /\ f.arg = e /\ f.idx = Top.idx
  BY <1>1 DEF Frame, Pcs
<1>3. /\ e \in live /\ e \notin {CheckTimerEvent, IdleEvent} /\ ~InCall(e)
      /\ EventType[e] = "plain" \/ Top.lvl <= NotifyTpl[e]
      /\ UNCHANGED <<gEventQueue, live>>
      /\ stack' = SetTop(f) \/ stack' = Append(SetTop(f), Restore(gEfiCurrentTpl))
  BY DEF CloseEvent, MayClose, evtVars
<1>4. /\ Top = stack[n] /\ n \in Nat /\ n >= 1 /\ n \in 1..n
      /\ gEfiCurrentTpl \in 0..TPL_HIGH_LEVEL
  BY TopInv
<1> HIDE DEF f
<1>5. Becomes(stack, stack', f)
  <2> DEFINE r == Restore(gEfiCurrentTpl)
  <2>1. r \in Frame /\ Fresh(r)
    BY <1>4, RestoreFrame, NewRecords
  <2>2. stack' = SetTop(f) \/ stack' = Append(SetTop(f), r)
    BY <1>3
  <2> HIDE DEF r
  <2> QED BY <1>2, <2>1, <2>2, SetBecomes, PushBecomes
<1>6. /\ Len(stack') \in Nat /\ Len(stack') >= n /\ stack'[n] = f
      /\ \A i \in 1..Len(stack') : i < n => i \in 1..n /\ stack'[i] = stack[i]
      /\ \A i \in 1..Len(stack') : i > n => Fresh(stack'[i])
  BY <1>4, <1>5 DEF Becomes
<1>7. \A i \in 1..Len(stack') : i > n => /\ ~Uses(stack'[i]) /\ ~Closer(stack'[i])
                                         /\ ~Calling(stack'[i]) /\ ~Waits(stack'[i])
                                         /\ stack'[i].arg = NoEvent
  BY <1>6 DEF Fresh, Uses, Closer, InService
<1>8. /\ ~Uses(f) /\ Closer(f) /\ ~Calling(f) /\ (Waits(f) => Waits(Top)) /\ ~Closer(Top)
  BY <1>1, <1>2 DEF Uses, Closer, Calling, Waits
<1>9. \A j \in 1..n : stack[j].arg # e /\ (Waits(stack[j]) => ~Queued(WaitList, e))
  BY <1>3 DEF InCall, Waits, n
<1> HIDE DEF n
<1>10. UsersOK(stack', live)
  <2> SUFFICES ASSUME NEW i \in 1..Len(stack')
               PROVE  /\ Uses(stack'[i]) \/ Closer(stack'[i]) => stack'[i].arg \in live
                      /\ Calling(stack'[i]) => stack'[i].ev \in live
                      /\ Waits(stack'[i]) => \A m \in 1..Len(WaitList) : WaitList[m] \in live
    BY DEF UsersOK
  <2>1. CASE i < n
    BY <1>6, <2>1 DEF LiveInv, UsersOK, n
  <2>2. CASE i = n
    <3>1. Waits(Top) => \A m \in 1..Len(WaitList) : WaitList[m] \in live
      BY <1>4 DEF LiveInv, UsersOK, n
    <3> QED BY <1>2, <1>3, <1>6, <1>8, <2>2, <3>1
  <2>3. CASE i > n
    BY <1>7, <2>3
  <2> QED BY <1>4, <1>6, <2>1, <2>2, <2>3
<1>11. CallersOK(stack')
  <2> SUFFICES ASSUME NEW k \in 1..Len(stack'), Calling(stack'[k])
               PROVE  /\ NotifyTpl[stack'[k].ev] = stack'[k].lvl
                      /\ EventType[stack'[k].ev] # "plain"
                      /\ k < Len(stack') => stack'[k + 1].kind # "client"
    BY DEF CallersOK
  <2>1. k < n
    BY <1>4, <1>6, <1>7, <1>8
  <2>2. stack'[k] = stack[k] /\ k \in 1..n
    BY <1>6, <2>1
  <2>3. /\ NotifyTpl[stack[k].ev] = stack[k].lvl /\ EventType[stack[k].ev] # "plain"
        /\ stack[k + 1].kind # "client"
    BY <2>1, <2>2 DEF LiveInv, CallersOK, n
  <2>4. k + 1 < n /\ k + 1 \in 1..Len(stack')
    BY <1>1, <1>4, <1>6, <2>1, <2>2, <2>3
  <2> QED BY <1>6, <2>2, <2>3, <2>4
<1>12. ClosersOK(stack')
  <2> SUFFICES ASSUME NEW i \in 1..Len(stack'), Closer(stack'[i]), NEW j \in 1..Len(stack')
               PROVE  /\ stack'[i].arg \notin {CheckTimerEvent, IdleEvent}
                      /\ j # i => stack'[j].arg # stack'[i].arg
                      /\ Waits(stack'[j]) => ~Queued(WaitList, stack'[i].arg)
                      /\ j < i /\ Calling(stack'[j]) => stack'[j].ev # stack'[i].arg
    BY DEF ClosersOK
  <2>1. CASE i < n
    <3>1. i \in 1..n /\ stack'[i] = stack[i] /\ Closer(stack[i])
      BY <1>6, <2>1
    <3>2. stack[i].arg # NoEvent
      BY <3>1, CloserArg DEF n
    <3>3. /\ stack[i].arg \notin {CheckTimerEvent, IdleEvent}
          /\ \A k \in 1..n : /\ k # i => stack[k].arg # stack[i].arg
                             /\ Waits(stack[k]) => ~Queued(WaitList, stack[i].arg)
                             /\ k < i /\ Calling(stack[k]) => stack[k].ev # stack[i].arg
      BY <3>1 DEF LiveInv, ClosersOK, n
    <3>4. CASE j < n
      BY <1>6, <3>1, <3>3, <3>4
    <3>5. CASE j = n
      <4>1. stack[i].arg # e
        BY <1>9, <3>1
      <4>2. Waits(f) => ~Queued(WaitList, stack[i].arg)
        BY <1>4, <1>8, <3>3
      <4> QED BY <1>2, <1>6, <1>8, <3>1, <3>3, <3>5, <4>1, <4>2
    <3>6. CASE j > n
      BY <1>7, <3>1, <3>2, <3>3, <3>6
    <3> QED BY <1>4, <3>4, <3>5, <3>6
  <2>2. CASE i = n
    <3>1. stack'[i].arg = e /\ e # NoEvent
      BY <1>2, <1>6, <2>2, EventAssumption
    <3>2. CASE j < n
      <4>1. j \in 1..n /\ stack'[j] = stack[j]
        BY <1>6, <3>2
      <4>2. stack[j].arg # e /\ (Waits(stack[j]) => ~Queued(WaitList, e))
        BY <1>9, <4>1
      <4>3. Calling(stack[j]) => stack[j].ev # e
        BY <1>1, <1>3, <3>2, <4>1, NoDispatcherBelow DEF n
      <4> QED BY <1>3, <3>1, <4>1, <4>2, <4>3
    <3>3. CASE j = n
      <4>1. Waits(f) => ~Queued(WaitList, e)
        BY <1>4, <1>8, <1>9
      <4> QED BY <1>3, <1>6, <2>2, <3>1, <3>3, <4>1
    <3>4. CASE j > n
      BY <1>3, <1>7, <3>1, <3>4
    <3> QED BY <1>4, <3>2, <3>3, <3>4
  <2>3. i <= n
    BY <1>4, <1>6, <1>7
  <2> QED BY <1>4, <2>1, <2>2, <2>3
<1>13. QueuedLive(stack', gEventQueue, live)
  <2>1. ASSUME NEW i \in 1..Len(stack'), stack'[i].pc = "free"
        PROVE  i \in 1..n /\ stack'[i] = stack[i]
    BY <1>2, <1>4, <1>6, <1>7, <2>1 DEF Closer
  <2> QED BY <2>1 DEF LiveInv, QueuedLive, n
<1> QED BY <1>3, <1>10, <1>11, <1>12, <1>13 DEF LiveInv

\* CoreCloseEvent frees the event: nobody has to do with it.
LEMMA FreeLive ==
  ASSUME IndInv, SignalInv, LiveInv, CloseEventFree
  PROVE  LiveInv'
<1> DEFINE f == Returned(Top)
           n == Len(stack)
<1>1. /\ Top \in Frame /\ Top.kind = "client" /\ Top.pc = "free"
      /\ Top = stack[n] /\ n \in Nat /\ n >= 1 /\ n \in 1..n
  BY TopInv DEF CloseEventFree, At
<1>2. /\ f \in Frame /\ f.kind = "client" /\ f.pc \in {"run", "wait"} /\ f.arg = NoEvent
      /\ f.idx = Top.idx
  BY <1>1, ReturnedFrame
<1>3. PICK e : e = Top.arg
  OBVIOUS
<1>4. live' = live \ {e} /\ stack' = SetTop(f) /\ UNCHANGED gEventQueue
  BY <1>3 DEF CloseEventFree
<1> HIDE DEF f
<1>5. Becomes(stack, stack', f) /\ Len(stack') = n
  BY <1>4, SetBecomes
<1>6. /\ stack'[n] = f
      /\ \A i \in 1..Len(stack') : i # n => i \in 1..n /\ i < n /\ stack'[i] = stack[i]
  BY <1>1, <1>5 DEF Becomes
<1>7. ~Uses(f) /\ ~Closer(f) /\ ~Calling(f) /\ (Waits(f) => Waits(Top))
  BY <1>1, <1>2 DEF Uses, Closer, Calling, Waits
<1>8. /\ e \notin {CheckTimerEvent, IdleEvent}
      /\ \A j \in 1..n : /\ j # n => stack[j].arg # e
                         /\ Waits(stack[j]) => ~Queued(WaitList, e)
                         /\ j < n /\ Calling(stack[j]) => stack[j].ev # e
  BY <1>1, <1>3 DEF LiveInv, ClosersOK, Closer
<1> HIDE DEF n
<1>9. UsersOK(stack', live')
  <2>1. ASSUME NEW j \in 1..n, Waits(stack[j]), NEW m \in 1..Len(WaitList)
        PROVE  WaitList[m] \in live'
    <3>1. WaitList[m] \in live
      BY <2>1 DEF LiveInv, UsersOK, n
    <3>2. WaitList[m] # e
      BY <1>8, <2>1 DEF Queued
    <3> QED BY <1>4, <3>1, <3>2
  <2> SUFFICES ASSUME NEW i \in 1..Len(stack')
               PROVE  /\ Uses(stack'[i]) \/ Closer(stack'[i]) => stack'[i].arg \in live'
                      /\ Calling(stack'[i]) => stack'[i].ev \in live'
                      /\ Waits(stack'[i]) => \A m \in 1..Len(WaitList) : WaitList[m] \in live'
    BY DEF UsersOK
  <2>2. CASE i = n
    BY <1>1, <1>6, <1>7, <2>1, <2>2
  <2>3. CASE i # n
    <3>1. i \in 1..n /\ i < n /\ stack'[i] = stack[i]
      BY <1>6, <2>3
    <3>2. /\ Uses(stack[i]) \/ Closer(stack[i]) => stack[i].arg \in live
          /\ Calling(stack[i]) => stack[i].ev \in live
      BY <3>1 DEF LiveInv, UsersOK, n
    <3> QED BY <1>4, <1>8, <2>1, <2>3, <3>1, <3>2
  <2> QED BY <2>2, <2>3
<1>10. CallersOK(stack')
  <2> SUFFICES ASSUME NEW k \in 1..Len(stack'), Calling(stack'[k])
               PROVE  /\ NotifyTpl[stack'[k].ev] = stack'[k].lvl
                      /\ EventType[stack'[k].ev] # "plain"
                      /\ k < Len(stack') => stack'[k + 1].kind # "client"
    BY DEF CallersOK
  <2>1. k # n
    BY <1>6, <1>7
  <2>2. stack'[k] = stack[k] /\ k \in 1..n /\ k < n
    BY <1>6, <2>1
  <2>3. /\ NotifyTpl[stack[k].ev] = stack[k].lvl /\ EventType[stack[k].ev] # "plain"
        /\ stack[k + 1].kind # "client"
    BY <2>2 DEF LiveInv, CallersOK, n
  <2>4. k + 1 # n /\ k + 1 \in 1..Len(stack')
    BY <1>1, <1>5, <2>2, <2>3 DEF n
  <2> QED BY <1>6, <2>2, <2>3, <2>4
<1>11. ClosersOK(stack')
  <2> SUFFICES ASSUME NEW i \in 1..Len(stack'), Closer(stack'[i]), NEW j \in 1..Len(stack')
               PROVE  /\ stack'[i].arg \notin {CheckTimerEvent, IdleEvent}
                      /\ j # i => stack'[j].arg # stack'[i].arg
                      /\ Waits(stack'[j]) => ~Queued(WaitList, stack'[i].arg)
                      /\ j < i /\ Calling(stack'[j]) => stack'[j].ev # stack'[i].arg
    BY DEF ClosersOK
  <2>1. i \in 1..n /\ stack'[i] = stack[i] /\ Closer(stack[i])
    BY <1>6, <1>7
  <2>2. stack[i].arg # NoEvent
    BY <2>1, CloserArg DEF n
  <2>3. /\ stack[i].arg \notin {CheckTimerEvent, IdleEvent}
        /\ \A k \in 1..n : /\ k # i => stack[k].arg # stack[i].arg
                           /\ Waits(stack[k]) => ~Queued(WaitList, stack[i].arg)
                           /\ k < i /\ Calling(stack[k]) => stack[k].ev # stack[i].arg
    BY <2>1 DEF LiveInv, ClosersOK, n
  <2>4. CASE j = n
    <3>1. Waits(f) => ~Queued(WaitList, stack[i].arg)
      BY <1>1, <1>7, <2>3
    <3> QED BY <1>2, <1>6, <1>7, <2>1, <2>2, <2>3, <2>4, <3>1
  <2>5. CASE j # n
    BY <1>6, <2>1, <2>3, <2>5
  <2> QED BY <2>4, <2>5
<1>12. QueuedLive(stack', gEventQueue, live')
  <2>1. ASSUME NEW t \in 0..TPL_HIGH_LEVEL, NEW x, Queued(gEventQueue[t], x)
        PROVE  x \in live'
    <3>1. x \in live
      BY <2>1 DEF LiveInv, QueuedLive
    <3>2. ~Queued(gEventQueue[t], e)
      BY <1>1, <1>3 DEF LiveInv, QueuedLive, n
    <3> QED BY <1>4, <2>1, <3>1, <3>2
  <2>2. ASSUME NEW i \in 1..Len(stack'), stack'[i].pc = "free"
        PROVE  i \in 1..n /\ stack'[i] = stack[i]
    BY <1>2, <1>6, <2>2
  <2> QED BY <2>1, <2>2 DEF LiveInv, QueuedLive, n
<1>13. {CheckTimerEvent, IdleEvent} \subseteq live'
  BY <1>4, <1>8 DEF LiveInv
<1> QED BY <1>4, <1>9, <1>10, <1>11, <1>12, <1>13 DEF LiveInv

-----------------------------------------------------------------------------
\* CoreInitializeEventServices: no call is in progress and nothing is queued.
LEMMA InitLive ==
  ASSUME Init
  PROVE  LiveInv
<1> DEFINE c == Client(TPL_APPLICATION, NoEvent)
<1>1. /\ stack = <<c>> /\ live = {CheckTimerEvent, IdleEvent}
      /\ gEventQueue = [t \in 0..TPL_HIGH_LEVEL |-> << >>]
  BY DEF Init
<1>2. Fresh(c)
  BY NewRecords
<1> HIDE DEF c
<1>3. \A i \in 1..Len(stack) : stack[i] = c
  BY <1>1
<1>4. \A i \in 1..Len(stack) : /\ ~Uses(stack[i]) /\ ~Closer(stack[i]) /\ ~Calling(stack[i])
                               /\ ~Waits(stack[i])
  BY <1>2, <1>3 DEF Fresh, Uses, Closer, InService
<1>5. \A t \in 0..TPL_HIGH_LEVEL : \A x : ~Queued(gEventQueue[t], x)
  BY <1>1 DEF Queued
<1> QED BY <1>1, <1>4, <1>5 DEF LiveInv, UsersOK, CallersOK, ClosersOK, QueuedLive

\* Every step of a system of disciplined clients keeps freed events out of use.
LEMMA NextLive ==
  ASSUME Disciplined, IndInv, SignalInv, LiveInv, [Next]_vars
  PROVE  LiveInv'
<1>1. CASE Core
  <2>1. CASE RestoreTest \/ RestoreHighBit \/ RestoreDispatch \/ RestoreExit
    BY <2>1, RestoreLive
  <2>2. CASE DispatchNext \/ DispatchCall \/ DispatchEmpty BY <2>2, DispatchLive
  <2>3. CASE DispatchReturn \/ InterruptReturn BY <2>3, ReturnLive
  <2>4. CASE NotifySignalList \/ NotifySignalListStep \/ NotifySignalListEnd
    BY <2>4, ListLive
  <2>5. CASE SignalRelock \/ CheckEventTest \/ CheckEventClear BY <2>5, ClientLive
  <2>6. CASE CheckEventQueue BY <2>6, CheckQueueLive
  <2>7. CASE WaitCheck \/ WaitIdle BY <2>7, UseLive
  <2>8. CASE CloseEventUnlink BY <2>8, UnlinkLive
  <2>9. CASE CloseEventFree BY <2>9, FreeLive
  <2> QED BY <1>1, <2>1, <2>2, <2>3, <2>4, <2>5, <2>6, <2>7, <2>8, <2>9 DEF Core
<1>2. CASE Call
  <2>1. CASE \E new \in RaiseLevels : ClientRaiseTpl(new) BY <2>1, ClientLive
  <2>2. CASE \E e \in Event : ClientSignalEvent(e) \/ ClientCheckEvent(e) BY <2>2, UseLive
  <2>3. CASE \E e \in Event : CreateEvent(e) BY <2>3, CreateLive
  <2>4. CASE \E e \in Event : CloseEvent(e) BY <2>4, CloseLive
  <2>5. CASE ClientSetTimerNow BY <2>5, TimerLive
  <2>6. CASE WaitForEvent BY <2>6, UseLive
  <2> QED BY <1>2, <2>1, <2>2, <2>3, <2>4, <2>5, <2>6 DEF Call
<1>3. CASE Unwind
  <2>1. CASE \E new \in RaiseLevels \cup {Top.base} : ClientRestoreTpl(new)
    BY <2>1, ClientLive
  <2>2. CASE NotifyReturn BY <2>2, ReturnLive
  <2> QED BY <1>3, <2>1, <2>2 DEF Unwind
<1>4. CASE TimerInterrupt BY <1>4, TimerLive
<1>5. CASE UNCHANGED vars
  BY <1>5 DEF vars, LiveInv
<1> QED BY <1>1, <1>2, <1>3, <1>4, <1>5 DEF Next

(***************************************************************************)
(* With clients that keep the CloseEvent discipline, nobody has to do with *)
(* an event that CoreCloseEvent is closing, for every set of events and    *)
(* every choice of levels.                                                 *)
(***************************************************************************)
THEOREM LiveInvariant ==
  ASSUME ~ReloadPending, Disciplined
  PROVE  Spec => []LiveInv
<1>1. Init => LiveInv
  BY InitLive
<1>2. IndInv /\ SignalInv /\ LiveInv /\ [Next]_vars => LiveInv'
  BY NextLive
<1> QED BY <1>1, <1>2, InductiveInvariant, SignalInvariant, PTL DEF Spec

(***************************************************************************)
(* No freed event is used (CoreDispatchEventNotifies, CoreSignalEvent and  *)
(* CoreCheckEvent across the windows in which they have dropped the lock), *)
(* by clients that keep the CloseEvent discipline.                         *)
(***************************************************************************)
THEOREM NoFreedEventUsed ==
  ASSUME ~ReloadPending, Disciplined
  PROVE  Spec => []NoStaleEvent
<1>1. ASSUME SignalInv, LiveInv
      PROVE  NoStaleEvent
  <2>1. ASSUME NEW t \in 0..TPL_HIGH_LEVEL, NEW i \in 1..Len(gEventQueue[t])
        PROVE  gEventQueue[t][i] \in live
    <3>1. Queued(gEventQueue[t], gEventQueue[t][i])
      BY DEF Queued
    <3> QED BY <1>1, <3>1 DEF LiveInv, QueuedLive
  <2>2. ASSUME NEW i \in 1..Len(gEventSignalQueue)
        PROVE  gEventSignalQueue[i] \in live
    <3>1. Queued(gEventSignalQueue, gEventSignalQueue[i])
      BY DEF Queued
    <3> QED BY <1>1, <3>1 DEF SignalInv, Linked
  <2>3. ASSUME NEW i \in 1..Len(stack)
        PROVE  /\ (stack[i].kind = "dispatch" /\ stack[i].pc = "call") => stack[i].ev \in live
               /\ stack[i].pc \in {"siglist", "queue", "check", "clear"}
                    => stack[i].arg \in live
    BY <1>1 DEF LiveInv, UsersOK, Uses, Calling
  <2> QED BY <2>1, <2>2, <2>3 DEF NoStaleEvent
<1> QED BY <1>1, SignalInvariant, LiveInvariant, PTL

=============================================================================
