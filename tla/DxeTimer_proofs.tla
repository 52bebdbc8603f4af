-------------------------- MODULE DxeTimer_proofs --------------------------
(***************************************************************************)
(* Proofs about the timer services: for any number of timers, any delays   *)
(* and any ticks, the timer list is what the code that looks at its head   *)
(* only takes it for, and no timer is signalled early.                     *)
(***************************************************************************)
EXTENDS DxeTimer, SequenceTheorems, WellFoundedInduction, TLAPS

(***************************************************************************)
(* What holds of the locals of the code that has mEfiTimerLock.  Without   *)
(* the lock there are none; an event that was taken off the list, or is    *)
(* about to be inserted, is not on it; the SystemTime of CoreCheckTimers   *)
(* is not ahead of the clock.                                              *)
(***************************************************************************)
OffList == {"setTime", "setInsert", "checkSignal", "checkPeriod", "checkInsert"}
Checking == {"checkHead", "checkSignal", "checkPeriod", "checkInsert"}

HolderOK ==
  /\ At("none") => holder = NoHolder
  /\ At("checkTime") => holder.ev = NoEvent
  /\ At("setCheck") => holder.ev \in Event /\ Armed(holder.ev)
  /\ holder.pc \in OffList =>
       holder.ev \in Event /\ ~Armed(holder.ev)
  /\ holder.pc \in Checking => holder.time <= mEfiSystemTime

ListInv == TimerListOK /\ HolderOK

NoDup(list) == \A i, j \in 1..Len(list) : list[i] = list[j] => i = j
In(list, e) == \E i \in 1..Len(list) : list[i] = e

-----------------------------------------------------------------------------
(* The list operations. *)

\* A set of positions has a first one, which CoreInsertEventTimer looks for.
LEMMA LeastPosition ==
  ASSUME NEW S, S \subseteq Nat, S # {}
  PROVE  \E x \in S : \A y \in S : x <= y
<1> DEFINE R == OpToRel(<, Nat)
<1>1. PICK x \in S : \A y \in S : <<y, x>> \notin R
  <2> HIDE DEF R
  <2>1. IsWellFoundedOn(R, Nat)
    BY NatLessThanWellFounded DEF R
  <2> QED BY <2>1, WFMin
<1>2. ASSUME NEW y \in S
      PROVE  x <= y
  <2>1. x \in Nat /\ y \in Nat
    OBVIOUS
  <2>2. ~(y < x)
    BY <1>1, <2>1 DEF OpToRel
  <2> QED BY <2>1, <2>2
<1> QED BY <1>2

\* RemoveEntryList takes e off the list, and only e; the others keep their
\* order and none is duplicated.
LEMMA RemoveFacts ==
  ASSUME NEW list \in Seq(Event), NoDup(list), NEW e,
         NEW s, s = RemoveEntry(list, e)
  PROVE  /\ s \in Seq(Event) /\ NoDup(s)
         /\ ~In(s, e)
         /\ \A x : x # e => (In(s, x) <=> In(list, x))
         /\ \A i, j \in 1..Len(s) : i <= j =>
              \E p, q \in 1..Len(list) :
                p <= q /\ s[i] = list[p] /\ s[j] = list[q]
<1> DEFINE n == Len(list)
           at == CHOOSE i \in 1..Len(list) : list[i] = e
           r == [i \in 1..(Len(list) - 1) |->
                   IF i < at THEN list[i] ELSE list[i + 1]]
<1>1. CASE In(list, e)
  <2>1. at \in 1..Len(list) /\ list[at] = e /\ n \in Nat
    BY <1>1 DEF In
  <2>2. s = r
    BY <1>1 DEF RemoveEntry, In
  <2> HIDE DEF at
  <2>3. r \in [1..(n - 1) -> Event] /\ n - 1 \in Nat
    BY <2>1
  <2>4. r \in Seq(Event) /\ Len(r) = n - 1 /\ DOMAIN r = 1..(n - 1)
    BY <2>3, SeqDef
  <2> DEFINE src(i) == IF i < at THEN i ELSE i + 1
  <2>5. \A i \in 1..(n - 1) : src(i) \in 1..n /\ src(i) # at /\ r[i] = list[src(i)]
    BY <2>1
  <2>6. \A i, j \in 1..(n - 1) : /\ src(i) = src(j) => i = j
                                 /\ i <= j => src(i) <= src(j)
    BY <2>1
  <2>7. \A p \in 1..n : p # at => \E i \in 1..(n - 1) : p = src(i)
    <3> TAKE p \in 1..n
    <3> HAVE p # at
    <3>1. CASE p < at
      <4>1. p \in 1..(n - 1) /\ p = src(p)
        BY <2>1, <3>1
      <4> QED BY <4>1
    <3>2. CASE p > at
      <4>1. (p - 1) \in 1..(n - 1) /\ p = src(p - 1)
        BY <2>1, <3>2
      <4> QED BY <4>1
    <3> QED BY <2>1, <3>1, <3>2
  <2> HIDE DEF src, r
  <2>8. NoDup(r)
    BY <2>4, <2>5, <2>6 DEF NoDup, n
  <2>9. ~In(r, e)
    BY <2>1, <2>4, <2>5 DEF NoDup, In, n
  <2>10. \A x : x # e => (In(r, x) <=> In(list, x))
    <3> TAKE x
    <3> HAVE x # e
    <3>1. In(r, x) => In(list, x)
      BY <2>4, <2>5 DEF In
    <3>2. ASSUME In(list, x)
          PROVE  In(r, x)
      <4>1. PICK p \in 1..n : list[p] = x
        BY <3>2 DEF In
      <4>2. p # at
        BY <2>1, <4>1
      <4> QED BY <2>4, <2>5, <2>7, <4>1, <4>2 DEF In
    <3> QED BY <3>1, <3>2
  <2>11. \A i, j \in 1..Len(r) : i <= j =>
           \E p, q \in 1..Len(list) : p <= q /\ r[i] = list[p] /\ r[j] = list[q]
    <3> TAKE i, j \in 1..Len(r)
    <3> HAVE i <= j
    <3>1. /\ src(i) \in 1..n /\ src(j) \in 1..n /\ src(i) <= src(j)
          /\ r[i] = list[src(i)] /\ r[j] = list[src(j)]
      BY <2>4, <2>5, <2>6
    <3> QED BY <3>1
  <2> QED BY <2>2, <2>4, <2>8, <2>9, <2>10, <2>11
<1>2. CASE ~In(list, e)
  <2>1. s = list
    BY <1>2 DEF RemoveEntry, In
  <2> QED BY <1>2, <2>1
<1> QED BY <1>1, <1>2

\* CoreInsertEventTimer puts e on the list once, and keeps it in order.
LEMMA InsertFacts ==
  ASSUME TypeOK, Sorted, NEW e \in Event, ~Armed(e), InsertEventTimer(e)
  PROVE  /\ mEfiTimerList' \in Seq(Event) /\ NoDup(mEfiTimerList')
         /\ \A x : In(mEfiTimerList', x) <=> In(mEfiTimerList, x) \/ x = e
         /\ \A i, j \in 1..Len(mEfiTimerList') :
              i <= j => TriggerTime[mEfiTimerList'[i]] <= TriggerTime[mEfiTimerList'[j]]
<1> DEFINE n == Len(mEfiTimerList)
           T(i) == TriggerTime[mEfiTimerList[i]]
           later == {i \in 1..n : T(i) > TriggerTime[e]}
           S == later \cup {n + 1}
           at == CHOOSE i \in S : \A j \in S : i <= j
           r == [i \in 1..(n + 1) |->
                   IF i < at THEN mEfiTimerList[i]
                   ELSE IF i = at THEN e ELSE mEfiTimerList[i - 1]]
<1>1. n \in Nat /\ \A i \in 1..n : mEfiTimerList[i] \in Event /\ mEfiTimerList[i] # e
  BY SMTT(30) DEF TypeOK, Armed
<1>2. TriggerTime[e] \in Int /\ \A i \in 1..n : T(i) \in Int
  <2>1. TriggerTime \in [Event -> Int]
    BY TimerAssumption DEF TypeOK
  <2> QED BY <1>1, <2>1
<1>3. mEfiTimerList' = r
  BY DEF InsertEventTimer
<1>4. at \in S /\ \A j \in S : at <= j
  <2>1. \E i \in S : \A j \in S : i <= j
    <3>1. S \subseteq Nat /\ S # {}
      BY <1>1
    <3> HIDE DEF S
    <3> QED BY <3>1, LeastPosition
  <2> HIDE DEF S
  <2> QED BY <2>1
<1>5. at \in 1..(n + 1)
  BY <1>1, <1>4
<1>6. \A i \in 1..n : i < at => T(i) <= TriggerTime[e]
  <2> SUFFICES ASSUME NEW i \in 1..n, i < at
               PROVE  T(i) <= TriggerTime[e]
    OBVIOUS
  <2>1. i \notin later
    BY <1>1, <1>4, <1>5
  <2> QED BY <2>1, <1>2
<1>7. \A i \in 1..n : i >= at => T(i) >= TriggerTime[e]
  <2> SUFFICES ASSUME NEW i \in 1..n, i >= at
               PROVE  T(i) >= TriggerTime[e]
    OBVIOUS
  <2>1. at \in 1..n /\ at \in later
    BY <1>1, <1>4, <1>5
  <2>2. T(at) <= T(i)
    BY <2>1 DEF Sorted
  <2>3. T(at) > TriggerTime[e]
    BY <2>1
  <2> QED BY <2>1, <2>2, <2>3, <1>2
<1> HIDE DEF at
<1>8. r \in [1..(n + 1) -> Event] /\ n + 1 \in Nat
  BY <1>1, <1>5
<1>9. r \in Seq(Event) /\ Len(r) = n + 1
  BY <1>8, SeqDef
<1> DEFINE dst(i) == IF i < at THEN i ELSE i + 1
<1>10. \A i \in 1..n : dst(i) \in 1..(n + 1) /\ dst(i) # at /\ r[dst(i)] = mEfiTimerList[i]
  BY <1>1, <1>5
<1>11. r[at] = e
  BY <1>1, <1>5
<1>12. \A k \in 1..(n + 1) : k # at =>
         \E i \in 1..n : k = dst(i) /\ (k < at <=> i < at)
  <2> TAKE k \in 1..(n + 1)
  <2> HAVE k # at
  <2>1. CASE k < at
    <3>1. k \in 1..n /\ k = dst(k)
      BY <1>1, <1>5, <2>1
    <3> QED BY <3>1
  <2>2. CASE k > at
    <3>1. (k - 1) \in 1..n /\ k = dst(k - 1) /\ ~(k < at) /\ ~(k - 1 < at)
      BY <1>1, <1>5, <2>2
    <3> QED BY <3>1
  <2> QED BY <1>5, <2>1, <2>2
<1>13. \A i, j \in 1..n : (dst(i) <= dst(j) => i <= j) /\ (i < at => dst(i) < at)
  BY <1>5
<1> HIDE DEF r, dst
<1>14. NoDup(r)
  <2> SUFFICES ASSUME NEW k \in 1..(n + 1), NEW l \in 1..(n + 1), r[k] = r[l]
               PROVE  k = l
    BY <1>9 DEF NoDup
  <2>0. \A m \in 1..(n + 1) : m # at => r[m] # e
    <3> TAKE m \in 1..(n + 1)
    <3> HAVE m # at
    <3>1. PICK i \in 1..n : m = dst(i)
      BY <1>12
    <3> QED BY <3>1, <1>1, <1>10
  <2>1. CASE k = at \/ l = at
    BY <2>0, <2>1, <1>11
  <2>2. CASE k # at /\ l # at
    <3>1. PICK i \in 1..n : k = dst(i)
      BY <2>2, <1>12
    <3>2. PICK j \in 1..n : l = dst(j)
      BY <2>2, <1>12
    <3>3. mEfiTimerList[i] = mEfiTimerList[j]
      BY <3>1, <3>2, <1>10
    <3> QED BY <3>1, <3>2, <3>3 DEF TypeOK
  <2> QED BY <2>1, <2>2
<1>15. \A x : In(r, x) <=> In(mEfiTimerList, x) \/ x = e
  <2> TAKE x
  <2>1. ASSUME In(r, x)
        PROVE  In(mEfiTimerList, x) \/ x = e
    <3>1. PICK k \in 1..(n + 1) : r[k] = x
      BY <2>1, <1>9 DEF In
    <3>2. CASE k # at
      <4>1. PICK i \in 1..n : k = dst(i)
        BY <3>2, <1>12
      <4> QED BY <3>1, <4>1, <1>10 DEF In
    <3> QED BY <3>1, <3>2, <1>11
  <2>2. ASSUME In(mEfiTimerList, x)
        PROVE  In(r, x)
    BY <2>2, <1>9, <1>10 DEF In
  <2>3. ASSUME x = e
        PROVE  In(r, x)
    BY <2>3, <1>5, <1>9, <1>11 DEF In
  <2> QED BY <2>1, <2>2, <2>3
<1>16. ASSUME NEW k \in 1..Len(r), NEW l \in 1..Len(r), k <= l
       PROVE  TriggerTime[r[k]] <= TriggerTime[r[l]]
  <2>1. k \in 1..(n + 1) /\ l \in 1..(n + 1)
    BY <1>9
  <2>2. CASE k = at /\ l = at
    BY <2>2, <1>2, <1>11
  <2>3. CASE k = at /\ l # at
    <3>1. PICK j \in 1..n : l = dst(j) /\ ~(j < at)
      BY <2>1, <2>3, <1>5, <1>12, <1>16
    <3> QED BY <2>3, <3>1, <1>5, <1>7, <1>10, <1>11
  <2>4. CASE k # at /\ l = at
    <3>1. PICK i \in 1..n : k = dst(i) /\ i < at
      BY <2>1, <2>4, <1>5, <1>12, <1>16
    <3> QED BY <2>4, <3>1, <1>6, <1>10, <1>11
  <2>5. CASE k # at /\ l # at
    <3>1. PICK i \in 1..n : k = dst(i)
      BY <2>1, <2>5, <1>12
    <3>2. PICK j \in 1..n : l = dst(j)
      BY <2>1, <2>5, <1>12
    <3>3. i <= j
      BY <3>1, <3>2, <1>13, <1>16
    <3> QED BY <3>1, <3>2, <3>3, <1>10 DEF Sorted
  <2> QED BY <2>2, <2>3, <2>4, <2>5
<1> QED BY <1>3, <1>9, <1>14, <1>15, <1>16

-----------------------------------------------------------------------------
(* The timer list, action by action. *)

\* The mEfiTimerList and the timers stay as they are: what the list promises
\* needs to be looked at for the lock holder only.
LEMMA ListFrame ==
  ASSUME ListInv, UNCHANGED <<mEfiTimerList, TriggerTime, Period>>
  PROVE  /\ Sorted'
         /\ \A e : Armed(e)' <=> Armed(e)
         /\ mEfiTimerList' \in Seq(Event) /\ NoDup(mEfiTimerList')
BY DEF ListInv, TimerListOK, TypeOK, Sorted, Armed, NoDup

\* Reset, no lock holder: the list is empty.
LEMMA InitList == Init => ListInv
<1> SUFFICES ASSUME Init PROVE ListInv
  OBVIOUS
<1> USE TimerAssumption DEF Init
<1>1. mEfiTimerList \in Seq(Event) /\ Len(mEfiTimerList) = 0
  BY EmptySeq
<1>2. TypeOK
  <2>1. TriggerTime \in [Event -> 0..(TIME - 1)] /\ mEfiSystemTime \in 0..MaxTime
    OBVIOUS
  <2>2. holder \in [pc : Pcs, ev : Event \cup {NoEvent}, time : Nat]
    BY DEF NoHolder, Pcs
  <2>3. \A i, j \in 1..Len(mEfiTimerList) : mEfiTimerList[i] = mEfiTimerList[j] => i = j
    BY <1>1
  <2> QED BY <1>1, <2>1, <2>2, <2>3 DEF TypeOK
<1>3. Sorted /\ TimersLive /\ PeriodicStays
  BY <1>1 DEF Sorted, TimersLive, PeriodicStays, At, NoHolder
<1>4. HolderOK
  BY DEF HolderOK, At, NoHolder, OffList, Checking
<1> QED BY <1>2, <1>3, <1>4 DEF ListInv, TimerListOK

\* CoreTimerTick moves the clock forward and leaves the list alone.
LEMMA TickList ==
  ASSUME ListInv, NEW d \in Durations, TimerTick(d)
  PROVE  ListInv' /\ mEfiSystemTime <= mEfiSystemTime'
<1> USE DEF ListInv, TimerListOK
<1>1. mEfiSystemTime' \in 0..MaxTime /\ mEfiSystemTime <= mEfiSystemTime'
  BY TimerAssumption DEF TypeOK, TimerTick
<1>2. TypeOK'
  BY <1>1 DEF TypeOK, TimerTick, timers
<1>3. Sorted' /\ TimersLive' /\ PeriodicStays'
  BY DEF Sorted, TimersLive, MayBeArmed, PeriodicStays, Armed, InHand, At, TimerTick, timers
<1>4. HolderOK'
  BY <1>1 DEF HolderOK, TypeOK, Armed, At, TimerTick, timers
<1> QED BY <1>1, <1>2, <1>3, <1>4

\* CoreSetTimer takes the timer off the list before it looks at the clock.
LEMMA SetTimerList ==
  ASSUME ListInv, NEW e \in Event,
         NEW type \in {"cancel", "periodic", "relative"}, NEW t \in Nat,
         SetTimer(e, type, t),
         closing' \subseteq live, rearmed' \subseteq Event,
         \A x \in MayBeArmed : x # e => x \in MayBeArmed',
         type # "cancel" => e \in MayBeArmed'
  PROVE  ListInv'
<1> USE DEF ListInv, TimerListOK
<1> DEFINE time == IF type = "periodic" /\ t = 0 THEN TimerPeriod ELSE t
<1>1. At("none") /\ holder = NoHolder
  BY DEF SetTimer, HolderOK
<1>2. /\ mEfiTimerList' \in Seq(Event) /\ NoDup(mEfiTimerList')
      /\ ~In(mEfiTimerList', e)
      /\ \A x : x # e => (In(mEfiTimerList', x) <=> In(mEfiTimerList, x))
      /\ \A i, j \in 1..Len(mEfiTimerList') : i <= j =>
           \E p, q \in 1..Len(mEfiTimerList) :
             p <= q /\ mEfiTimerList'[i] = mEfiTimerList[p] /\ mEfiTimerList'[j] = mEfiTimerList[q]
  <2>1. mEfiTimerList \in Seq(Event) /\ NoDup(mEfiTimerList)
    BY DEF TypeOK, NoDup
  <2>2. mEfiTimerList' = RemoveEntry(mEfiTimerList, e)
    BY DEF SetTimer
  <2> DEFINE l == mEfiTimerList
             r == mEfiTimerList'
  <2>3. l \in Seq(Event) /\ NoDup(l) /\ r = RemoveEntry(l, e)
    BY <2>1, <2>2
  <2> HIDE DEF l, r
  <2>4. /\ r \in Seq(Event) /\ NoDup(r) /\ ~In(r, e)
        /\ \A x : x # e => (In(r, x) <=> In(l, x))
        /\ \A i, j \in 1..Len(r) : i <= j =>
             \E p, q \in 1..Len(l) : p <= q /\ r[i] = l[p] /\ r[j] = l[q]
    BY <2>3, RemoveFacts, SMTT(30)
  <2> QED BY <2>4 DEF l, r
<1>3. time \in Nat /\ (t = 0 /\ type = "periodic" => time # 0)
  BY TimerAssumption
<1>4. \A i \in 1..Len(mEfiTimerList') : mEfiTimerList'[i] \in Event \ {e}
  BY <1>2 DEF In
<1>5. /\ TriggerTime' = [TriggerTime EXCEPT ![e] = 0]
      /\ Period' = [Period EXCEPT ![e] = IF type = "periodic" THEN time ELSE 0]
      /\ holder' = IF type = "cancel" THEN NoHolder
                   ELSE [pc |-> "setTime", ev |-> e, time |-> time]
      /\ due' = [due EXCEPT ![e] = IF type = "cancel" THEN 0 ELSE mEfiSystemTime + time]
      /\ UNCHANGED <<mEfiSystemTime, signalled, checkSignalled, live>>
  BY <1>1 DEF SetTimer
<1> HIDE DEF time
<1>6. TypeOK'
  <2>1. holder' \in [pc : Pcs, ev : Event \cup {NoEvent}, time : Nat]
    BY <1>3, <1>5 DEF NoHolder, Pcs
  <2>2. due' \in [Event -> Nat] /\ Period' \in [Event -> Nat]
    BY <1>3, <1>5, TimerAssumption DEF TypeOK
  <2>3. TriggerTime' \in [Event -> 0..(TIME - 1)]
    BY <1>5, TimerAssumption DEF TypeOK
  <2>4. closing' \subseteq live' /\ rearmed' \subseteq Event
    BY <1>5
  <2> QED BY <1>2, <1>5, <2>1, <2>2, <2>3, <2>4 DEF TypeOK, NoDup
<1>7. Sorted'
  <2> SUFFICES ASSUME NEW i \in 1..Len(mEfiTimerList'), NEW j \in 1..Len(mEfiTimerList'), i <= j
               PROVE  TriggerTime'[mEfiTimerList'[i]] <= TriggerTime'[mEfiTimerList'[j]]
    BY DEF Sorted
  <2>1. PICK p, q \in 1..Len(mEfiTimerList) :
          p <= q /\ mEfiTimerList'[i] = mEfiTimerList[p] /\ mEfiTimerList'[j] = mEfiTimerList[q]
    BY <1>2
  <2>2. TriggerTime[mEfiTimerList[p]] <= TriggerTime[mEfiTimerList[q]]
    BY <2>1 DEF Sorted
  <2>3. mEfiTimerList'[i] \in Event \ {e} /\ mEfiTimerList'[j] \in Event \ {e}
    BY <1>4
  <2> QED BY <1>5, <2>1, <2>2, <2>3 DEF TypeOK
<1>8. \A x : Armed(x)' <=> Armed(x) /\ x # e
  BY <1>2 DEF Armed, In
<1>9. TimersLive'
  <2>1. \A i \in 1..Len(mEfiTimerList') : mEfiTimerList'[i] \in MayBeArmed'
    <3> TAKE i \in 1..Len(mEfiTimerList')
    <3>1. In(mEfiTimerList, mEfiTimerList'[i])
      BY <1>2, <1>4 DEF In
    <3> QED BY <3>1, <1>4 DEF In, TimersLive
  <2>2. holder'.ev \in MayBeArmed' \cup {NoEvent}
    BY <1>5 DEF NoHolder
  <2> QED BY <2>1, <2>2 DEF TimersLive
<1>10. PeriodicStays'
  <2> SUFFICES ASSUME NEW x \in Event
               PROVE  Period'[x] # 0 => Armed(x)' \/ InHand(x)'
    BY DEF PeriodicStays
  <2>1. ~InHand(x)
    BY <1>1, TimerAssumption DEF InHand, NoHolder
  <2>2. CASE x = e
    BY <2>2, <1>5, <1>8, TimerAssumption DEF TypeOK, InHand, At, NoHolder
  <2>3. CASE x # e
    BY <2>1, <2>3, <1>5, <1>8, TimerAssumption DEF TypeOK, PeriodicStays, InHand, At, NoHolder
  <2> QED BY <2>2, <2>3
<1>11. HolderOK'
  BY <1>5, <1>8 DEF HolderOK, At, NoHolder, OffList, Checking
<1> QED BY <1>6, <1>7, <1>9, <1>10, <1>11

\* SetTime and CheckPeriod give a new TriggerTime to a timer that is not on
\* the list.
LEMMA TriggerList ==
  ASSUME ListInv, holder.pc \in OffList,
         NEW time \in 0..(TIME - 1), NEW pc \in OffList,
         TriggerTime' = [TriggerTime EXCEPT ![holder.ev] = time],
         holder' = [holder EXCEPT !.pc = pc],
         holder.pc \in Checking \/ pc \notin Checking,
         checkSignalled' \in BOOLEAN,
         UNCHANGED <<mEfiSystemTime, mEfiTimerList, Period, signalled, live, closing, due, rearmed>>
  PROVE  ListInv'
<1> USE DEF ListInv, TimerListOK
<1>1. holder.ev \in Event /\ ~Armed(holder.ev)
  BY DEF HolderOK
<1>2. holder' \in [pc : Pcs, ev : Event \cup {NoEvent}, time : Nat]
  BY DEF TypeOK, OffList, Pcs
<1>3. holder'.pc = pc /\ holder'.ev = holder.ev /\ holder'.time = holder.time
  BY DEF TypeOK
<1>4. TypeOK'
  <2>1. TriggerTime' \in [Event -> 0..(TIME - 1)]
    BY DEF TypeOK
  <2> QED BY <1>2, <2>1 DEF TypeOK
<1>5. Sorted'
  <2>1. \A i \in 1..Len(mEfiTimerList) :
          /\ mEfiTimerList[i] \in Event /\ mEfiTimerList[i] # holder.ev
          /\ TriggerTime'[mEfiTimerList[i]] = TriggerTime[mEfiTimerList[i]]
    BY <1>1, SMTT(30) DEF Armed, TypeOK
  <2> QED BY <2>1 DEF Sorted
<1>6. \A x : Armed(x)' <=> Armed(x)
  BY DEF Armed
<1>7. TimersLive'
  BY <1>1, <1>3 DEF TimersLive, MayBeArmed, At, OffList
<1>8. PeriodicStays'
  BY <1>1, <1>3, <1>6 DEF PeriodicStays, InHand, At, OffList
<1>9. HolderOK'
  BY <1>1, <1>3, <1>6 DEF HolderOK, At, OffList, Checking
<1> QED BY <1>4, <1>5, <1>7, <1>8, <1>9

\* SetInsert and CheckInsert put the timer in hand back on the list.
LEMMA InsertList ==
  ASSUME ListInv, holder.pc \in OffList, InsertEventTimer(holder.ev),
         NEW pc \in {"setCheck", "checkHead"},
         holder' = [holder EXCEPT !.pc = pc],
         holder.pc \in Checking \/ pc = "setCheck",
         UNCHANGED <<mEfiSystemTime, TriggerTime, Period, signalled,
                     checkSignalled, live, closing, due, rearmed>>
  PROVE  ListInv'
<1> USE DEF ListInv, TimerListOK
<1>1. holder.ev \in Event /\ ~Armed(holder.ev)
  BY DEF HolderOK
<1>2. /\ mEfiTimerList' \in Seq(Event) /\ NoDup(mEfiTimerList')
      /\ \A x : In(mEfiTimerList', x) <=> In(mEfiTimerList, x) \/ x = holder.ev
      /\ \A i, j \in 1..Len(mEfiTimerList') :
           i <= j => TriggerTime[mEfiTimerList'[i]] <= TriggerTime[mEfiTimerList'[j]]
  BY <1>1, InsertFacts
<1>3. holder' \in [pc : Pcs, ev : Event \cup {NoEvent}, time : Nat]
  BY DEF TypeOK, Pcs
<1>4. holder'.pc = pc /\ holder'.ev = holder.ev /\ holder'.time = holder.time
  BY DEF TypeOK
<1>5. TypeOK'
  BY <1>2, <1>3 DEF TypeOK, NoDup
<1>6. Sorted'
  BY <1>2 DEF Sorted
<1>7. \A x : Armed(x)' <=> Armed(x) \/ x = holder.ev
  BY <1>2 DEF Armed, In
<1>8. TimersLive'
  <2>1. holder.ev \in MayBeArmed /\ MayBeArmed' = MayBeArmed
    BY <1>1, TimerAssumption DEF TimersLive, MayBeArmed, At, OffList
  <2>2. \A x : Armed(x)' => x \in MayBeArmed'
    BY <1>7, <2>1 DEF TimersLive, Armed
  <2> QED BY <1>4, <2>1, <2>2 DEF TimersLive, At, Armed
<1>9. PeriodicStays'
  BY <1>1, <1>4, <1>7 DEF PeriodicStays, InHand, At
<1>10. HolderOK'
  BY <1>1, <1>4, <1>7 DEF HolderOK, At, OffList, Checking
<1> QED BY <1>5, <1>6, <1>8, <1>9, <1>10

\* Taking the first timer off a list in order leaves a list in order.
LEMMA TailFacts ==
  ASSUME NEW list \in Seq(Event), NoDup(list), list # << >>
  PROVE  /\ Tail(list) \in Seq(Event) /\ NoDup(Tail(list))
         /\ Head(list) \in Event /\ In(list, Head(list))
         /\ Len(Tail(list)) = Len(list) - 1
         /\ \A i \in 1..Len(Tail(list)) : i + 1 \in 1..Len(list) /\ Tail(list)[i] = list[i + 1]
         /\ \A x : In(Tail(list), x) <=> In(list, x) /\ x # Head(list)
<1>1. Len(list) \in Nat /\ Len(list) >= 1 /\ Head(list) = list[1]
  BY EmptySeq, HeadTailProperties
<1>2. /\ Tail(list) \in Seq(Event) /\ Len(Tail(list)) = Len(list) - 1
      /\ \A i \in 1..Len(Tail(list)) : i + 1 \in 1..Len(list) /\ Tail(list)[i] = list[i + 1]
  BY <1>1, HeadTailProperties
<1> DEFINE t == Tail(list)
<1> HIDE DEF t
<1>3. NoDup(t)
  BY <1>1, <1>2 DEF NoDup, t
<1>4. \A x : In(t, x) => In(list, x) /\ x # Head(list)
  BY <1>1, <1>2 DEF In, NoDup, t
<1>5. ASSUME NEW x, In(list, x), x # Head(list)
      PROVE  In(t, x)
  <2>1. PICK i \in 1..Len(list) : list[i] = x
    BY <1>5 DEF In
  <2>2. i - 1 \in 1..Len(t) /\ t[i - 1] = x
    BY <1>1, <1>2, <1>5, <2>1 DEF t
  <2> QED BY <2>2 DEF In
<1> QED BY <1>1, <1>2, <1>3, <1>4, <1>5 DEF t, In

\* CoreCheckTimers takes an expired timer off the head of the list.
LEMMA CheckHeadList ==
  ASSUME ListInv, CheckHead
  PROVE  ListInv'
<1> USE DEF ListInv, TimerListOK
<1> DEFINE l == mEfiTimerList
           e == Head(mEfiTimerList)
<1>1. l \in Seq(Event) /\ NoDup(l) /\ l # << >>
  BY DEF TypeOK, NoDup, CheckHead, Expired
<1>2. /\ At("checkHead") /\ mEfiTimerList' = Tail(l)
      /\ holder' = [holder EXCEPT !.pc = "checkSignal", !.ev = e]
      /\ UNCHANGED <<mEfiSystemTime, TriggerTime, Period, signalled,
                     checkSignalled, live, closing, due, rearmed>>
  BY DEF CheckHead
<1>3. /\ holder'.pc = "checkSignal" /\ holder'.ev = e /\ holder'.time = holder.time
      /\ holder.pc = "checkHead"
  BY <1>2 DEF TypeOK, At
<1> HIDE DEF e
<1>4. /\ Tail(l) \in Seq(Event) /\ NoDup(Tail(l))
      /\ e \in Event /\ In(l, e)
      /\ \A i \in 1..Len(Tail(l)) : i + 1 \in 1..Len(l) /\ Tail(l)[i] = l[i + 1]
      /\ \A x : In(Tail(l), x) <=> In(l, x) /\ x # e
  <2> HIDE DEF l
  <2> QED BY <1>1, TailFacts DEF e, l
<1>5. TypeOK'
  <2>1. holder' \in [pc : Pcs, ev : Event \cup {NoEvent}, time : Nat]
    BY <1>2, <1>4 DEF TypeOK, Pcs
  <2> QED BY <1>2, <1>4, <2>1 DEF TypeOK, NoDup
<1>6. Sorted'
  BY <1>2, <1>4 DEF Sorted
<1>7. \A x : Armed(x)' <=> Armed(x) /\ x # e
  BY <1>2, <1>4 DEF Armed, In
<1>8. e \in MayBeArmed /\ Armed(e) /\ MayBeArmed' = MayBeArmed
  BY <1>2, <1>4 DEF TimersLive, In, Armed, MayBeArmed
<1>9. TimersLive'
  BY <1>2, <1>3, <1>4, <1>8 DEF TimersLive, At
<1>10. PeriodicStays'
  BY <1>2, <1>3, <1>4, <1>7, <1>8 DEF PeriodicStays, InHand, At
<1>11. HolderOK'
  BY <1>2, <1>3, <1>4, <1>7, <1>8 DEF HolderOK, PeriodicStays, At, OffList, Checking
<1> QED BY <1>5, <1>6, <1>9, <1>10, <1>11

\* The other steps under the lock leave the list and the timers alone.
LEMMA LockedList ==
  ASSUME ListInv, SetCheck \/ CheckTimers \/ CheckTime \/ CheckSignal \/ CheckEnd
  PROVE  ListInv'
<1> USE DEF ListInv, TimerListOK
<1>1. UNCHANGED <<mEfiSystemTime, mEfiTimerList, TriggerTime, Period, live, closing>>
  BY DEF SetCheck, CheckTimers, CheckTime, CheckSignal, CheckEnd, timers
<1>2. Sorted' /\ (\A x : Armed(x)' <=> Armed(x))
  BY <1>1, ListFrame
<1>3. CASE SetCheck
  <2>1. holder' = NoHolder /\ checkSignalled' \in BOOLEAN /\ holder.pc = "setCheck"
    BY <1>3 DEF SetCheck, TypeOK, At
  <2>2. holder.ev \in Event /\ Armed(holder.ev)
    BY <2>1 DEF HolderOK, At
  <2>3. TypeOK'
    BY <1>1, <1>3, <2>1 DEF TypeOK, SetCheck, NoHolder, Pcs
  <2>4. TimersLive'
    BY <1>1, <1>3, <2>1 DEF TimersLive, MayBeArmed, SetCheck, At, NoHolder
  <2>5. PeriodicStays'
    BY <1>1, <1>2, <2>1, <2>2, TimerAssumption DEF PeriodicStays, InHand, At, NoHolder
  <2>6. HolderOK'
    BY <2>1 DEF HolderOK, At, NoHolder, OffList, Checking
  <2> QED BY <1>2, <2>3, <2>4, <2>5, <2>6
<1>4. CASE CheckTimers
  <2>1. holder = NoHolder /\ holder' = [holder EXCEPT !.pc = "checkTime"]
    BY <1>4 DEF CheckTimers, Goto, HolderOK
  <2>2. holder' = [pc |-> "checkTime", ev |-> NoEvent, time |-> 0]
    BY <2>1 DEF NoHolder
  <2>3. TypeOK'
    BY <1>1, <1>4, <2>2 DEF TypeOK, CheckTimers, Pcs
  <2>4. TimersLive'
    BY <1>1, <1>4, <2>2 DEF TimersLive, MayBeArmed, CheckTimers, At
  <2>5. PeriodicStays'
    BY <1>1, <1>2, <2>1, <2>2, TimerAssumption DEF PeriodicStays, InHand, At, NoHolder
  <2>6. HolderOK'
    BY <2>2 DEF HolderOK, At, OffList, Checking
  <2> QED BY <1>2, <2>3, <2>4, <2>5, <2>6
<1>5. CASE CheckTime
  <2>1. holder' = [holder EXCEPT !.pc = "checkHead", !.time = mEfiSystemTime]
    BY <1>5 DEF CheckTime
  <2>2. holder.ev = NoEvent /\ holder' = [pc |-> "checkHead", ev |-> NoEvent, time |-> mEfiSystemTime]
    BY <1>5, <2>1 DEF HolderOK, CheckTime, TypeOK
  <2>3. TypeOK'
    BY <1>1, <1>5, <2>2, TimerAssumption DEF TypeOK, CheckTime, Pcs
  <2>4. TimersLive'
    BY <1>1, <1>5, <2>2 DEF TimersLive, MayBeArmed, CheckTime, At
  <2>5. PeriodicStays'
    BY <1>1, <1>2, <2>2, TimerAssumption DEF PeriodicStays, InHand, At
  <2>6. HolderOK'
    BY <1>1, <2>2, TimerAssumption DEF HolderOK, TypeOK, At, OffList, Checking
  <2> QED BY <1>2, <2>3, <2>4, <2>5, <2>6
<1>6. CASE CheckSignal
  <2>0. /\ holder.pc = "checkSignal" /\ holder.ev \in Event /\ holder.time <= mEfiSystemTime
        /\ ~Armed(holder.ev)
    BY <1>6 DEF CheckSignal, At, HolderOK, OffList, Checking
  <2>1. /\ holder'.ev = holder.ev /\ holder'.time = holder.time
        /\ holder'.pc = IF Period[holder.ev] # 0 THEN "checkPeriod" ELSE "checkHead"
        /\ holder' \in [pc : Pcs, ev : Event \cup {NoEvent}, time : Nat]
    BY <1>6 DEF CheckSignal, Goto, TypeOK, Pcs
  <2>2. due' \in [Event -> Nat] /\ signalled' \subseteq Event /\ rearmed' \subseteq Event
    BY <1>6, <2>0 DEF CheckSignal, TypeOK
  <2>3. TypeOK'
    BY <1>1, <1>6, <2>1, <2>2 DEF TypeOK, CheckSignal
  <2>4. TimersLive'
    <3>1. \A x \in MayBeArmed : x # holder.ev => x \in MayBeArmed'
      BY <1>1, <1>6 DEF MayBeArmed, CheckSignal
    <3>2. Period[holder.ev] # 0 => MayBeArmed' = MayBeArmed
      BY <1>1, <1>6 DEF MayBeArmed, CheckSignal
    <3>3. \A i \in 1..Len(mEfiTimerList') : mEfiTimerList'[i] \in MayBeArmed'
      BY <1>1, <2>0, <3>1 DEF TimersLive, Armed
    <3> QED BY <2>0, <2>1, <3>2, <3>3 DEF TimersLive, At
  <2>5. PeriodicStays'
    BY <1>1, <1>2, <2>0, <2>1 DEF PeriodicStays, InHand, At
  <2>6. HolderOK'
    BY <1>1, <1>2, <2>0, <2>1 DEF HolderOK, At, OffList, Checking
  <2> QED BY <1>2, <2>3, <2>4, <2>5, <2>6
<1>7. CASE CheckEnd
  <2>1. holder' = NoHolder /\ holder.pc = "checkHead"
    BY <1>7 DEF CheckEnd, At
  <2>2. TypeOK'
    BY <1>1, <1>7, <2>1 DEF TypeOK, CheckEnd, NoHolder, Pcs
  <2>3. TimersLive' /\ HolderOK'
    BY <1>1, <1>7, <2>1 DEF TimersLive, MayBeArmed, CheckEnd, HolderOK, At, NoHolder, OffList, Checking
  <2>4. PeriodicStays'
    BY <1>1, <1>2, <2>1, TimerAssumption DEF PeriodicStays, InHand, At, NoHolder
  <2> QED BY <1>2, <2>2, <2>3, <2>4
<1> QED BY <1>3, <1>4, <1>5, <1>6, <1>7

\* Freeing a closed event, and dispatching a notification.
LEMMA EventList ==
  ASSUME ListInv, NEW e \in Event, CloseFree(e) \/ Notify(e)
  PROVE  ListInv'
<1> USE DEF ListInv, TimerListOK
<1>1. /\ UNCHANGED <<mEfiSystemTime, mEfiTimerList, TriggerTime, Period, checkSignalled, holder, due,
                     rearmed>>
      /\ signalled' \subseteq signalled /\ closing' \subseteq closing /\ At("none")
  BY DEF CloseFree, Notify, timers
<1>2. \/ live' = live /\ closing' = closing
      \/ live' = live \ {e} /\ closing' = closing \ {e} /\ e \in closing
  BY DEF CloseFree, Notify
<1>3. Sorted' /\ (\A x : Armed(x)' <=> Armed(x))
  BY <1>1, ListFrame
<1>4. TypeOK'
  BY <1>1, <1>2 DEF TypeOK
<1>5. TimersLive'
  BY <1>1, <1>2 DEF TimersLive, MayBeArmed, At
<1>6. PeriodicStays'
  BY <1>1, <1>3 DEF PeriodicStays, InHand, At
<1>7. HolderOK'
  BY <1>1, <1>3 DEF HolderOK, At, NoHolder, OffList, Checking
<1> QED BY <1>3, <1>4, <1>5, <1>6, <1>7

\* A time that wraps at TIME.
LEMMA WrapFacts ==
  ASSUME NEW n \in Nat
  PROVE  n % TIME \in 0..(TIME - 1)
<1>1. TIME \in Nat /\ TIME > 0
  BY TimerAssumption
<1> QED BY <1>1

\* The timer list is kept by every step.
LEMMA NextList ==
  ASSUME ListInv, [Next]_vars
  PROVE  ListInv'
<1>1. CASE Tick
  BY <1>1, TickList DEF Tick
<1>2. CASE SetTime
  <2> DEFINE time == (mEfiSystemTime + holder.time) % TIME
  <2>0. mEfiSystemTime \in Nat /\ holder.time \in Nat
    BY TimerAssumption DEF ListInv, TimerListOK, TypeOK
  <2>1. time \in 0..(TIME - 1)
    <3>1. mEfiSystemTime + holder.time \in Nat
      BY <2>0
    <3> QED BY <3>1, WrapFacts
  <2>2. holder.pc \in OffList /\ "setInsert" \in OffList /\ "setInsert" \notin Checking
    BY <1>2 DEF SetTime, At, OffList, Checking
  <2>3. checkSignalled' \in BOOLEAN
    BY <1>2 DEF SetTime, ListInv, TimerListOK, TypeOK
  <2> QED BY <1>2, <2>1, <2>2, <2>3, TriggerList DEF SetTime, Goto
<1>3. CASE CheckPeriod
  <2> DEFINE next == (TriggerTime[holder.ev] + Period[holder.ev]) % TIME
             time == IF next <= holder.time THEN holder.time ELSE next
  <2>1. holder.pc \in OffList \cap Checking /\ "checkInsert" \in OffList
    BY <1>3 DEF CheckPeriod, At, OffList, Checking
  <2>2. holder.ev \in Event /\ holder.time \in 0..(TIME - 1)
    BY <2>1, TimerAssumption DEF ListInv, TimerListOK, TypeOK, HolderOK
  <2>3. TriggerTime[holder.ev] \in Nat /\ Period[holder.ev] \in Nat
    BY <2>2, TimerAssumption DEF ListInv, TimerListOK, TypeOK
  <2>4. next \in 0..(TIME - 1)
    <3>1. TriggerTime[holder.ev] + Period[holder.ev] \in Nat
      BY <2>3
    <3> QED BY <3>1, WrapFacts
  <2>5. time \in 0..(TIME - 1)
    BY <2>2, <2>4
  <2>6. /\ checkSignalled' \in BOOLEAN
        /\ TriggerTime' = [TriggerTime EXCEPT ![holder.ev] = time]
    BY <1>3 DEF CheckPeriod, ListInv, TimerListOK, TypeOK
  <2> HIDE DEF time
  <2> QED BY <1>3, <2>1, <2>5, <2>6, TriggerList DEF CheckPeriod, Goto
<1>4. CASE SetInsert
  BY <1>4, InsertList DEF SetInsert, Goto, At, OffList
<1>5. CASE CheckInsert
  BY <1>5, InsertList DEF CheckInsert, Goto, At, OffList, Checking
<1>6. CASE CheckHead
  BY <1>6, CheckHeadList
<1>7. CASE SetCheck \/ CheckTimers \/ CheckTime \/ CheckSignal \/ CheckEnd
  BY <1>7, LockedList
<1>8. ASSUME NEW e \in Event, ClientSetTimer(e) \/ CloseEvent(e)
      PROVE  ListInv'
  <2>0. closing \subseteq live /\ live' = live /\ rearmed \subseteq Event
    BY <1>8 DEF ListInv, TimerListOK, TypeOK, ClientSetTimer, CloseEvent, SetTimer
  <2>1. CASE ClientSetTimer(e)
    <3>1. PICK type \in {"cancel", "periodic", "relative"}, t \in Nat :
            /\ SetTimer(e, type, t) /\ e \in live /\ closing' = closing
            /\ \/ type = "cancel" /\ rearmed' = rearmed \ {e}
               \/ type # "cancel" /\ rearmed' = rearmed \cup ({e} \cap closing)
      BY <2>1, TimerAssumption DEF ClientSetTimer
    <3>2. closing' \subseteq live /\ rearmed' \subseteq Event
      BY <2>0, <3>1
    <3>3. /\ \A x \in MayBeArmed : x # e => x \in MayBeArmed'
          /\ type # "cancel" => e \in MayBeArmed'
      BY <2>0, <3>1 DEF MayBeArmed
    <3> QED BY <3>1, <3>2, <3>3, SetTimerList
  <2>2. CASE CloseEvent(e)
    <3>1. /\ SetTimer(e, "cancel", 0) /\ e \in live
          /\ closing' = closing \cup {e} /\ rearmed' = rearmed
      BY <2>2 DEF CloseEvent
    <3>2. closing' \subseteq live /\ rearmed' \subseteq Event
      BY <2>0, <3>1
    <3>3. \A x \in MayBeArmed : x # e => x \in MayBeArmed'
      BY <2>0, <3>1 DEF MayBeArmed
    <3> QED BY <3>1, <3>2, <3>3, SetTimerList
  <2> QED BY <1>8, <2>1, <2>2
<1>9. ASSUME NEW e \in Event, CloseFree(e) \/ Notify(e)
      PROVE  ListInv'
  BY <1>9, EventList
<1>10. CASE UNCHANGED vars
  BY <1>10 DEF vars, ListInv, TimerListOK, TypeOK, Sorted, TimersLive, MayBeArmed, PeriodicStays,
    HolderOK, Armed, InHand, At
<1> QED
  BY <1>1, <1>2, <1>3, <1>4, <1>5, <1>6, <1>7, <1>8, <1>9, <1>10 DEF Next, Locked

(***************************************************************************)
(* Whatever the ticks and the clients do between its steps, the code that  *)
(* changes mEfiTimerList keeps it sorted, free of duplicates and complete  *)
(* for the periodic timers; the timer of an event that is closed, or being *)
(* closed, is on it only if a client armed it after CoreCloseEvent had     *)
(* cancelled it.                                                           *)
(***************************************************************************)
THEOREM TimerListCorrect == Spec => []TimerListOK
<1>1. Init => ListInv
  BY InitList
<1>2. ListInv /\ [Next]_vars => ListInv'
  BY NextList
<1>3. ListInv => TimerListOK
  BY DEF ListInv
<1> QED BY <1>1, <1>2, <1>3, PTL DEF Spec

-----------------------------------------------------------------------------
(* No timer expires early. *)

(***************************************************************************)
(* The sum of the clock and a delay does not wrap around: UINT64 counts    *)
(* 100ns units for more than 50000 years.  (CoreSetTimer does not test it; *)
(* a client that passes a delay near 2^64 gets a timer in the past.)       *)
(***************************************************************************)
NoWrap == \A t \in TriggerTimes \cup {TimerPeriod} : MaxTime + t < TIME

(***************************************************************************)
(* The TriggerTime of a timer on the list, or on its way there, is not     *)
(* before it is due, and CoreCheckTimers has in hand only what has expired *)
(* by the time it read.                                                    *)
(***************************************************************************)
DueOK ==
  /\ \A e \in Event : Armed(e) => due[e] <= TriggerTime[e]
  /\ holder.pc \in {"setInsert", "checkSignal", "checkInsert"} =>
       due[holder.ev] <= TriggerTime[holder.ev]
  /\ At("setTime") => /\ due[holder.ev] <= mEfiSystemTime + holder.time
                      /\ MaxTime + holder.time < TIME
  /\ At("checkPeriod") => due[holder.ev] <= TriggerTime[holder.ev] + Period[holder.ev]
  /\ holder.pc \in {"checkSignal", "checkPeriod"} => TriggerTime[holder.ev] <= holder.time
  /\ \A e \in Event : MaxTime + Period[e] < TIME

\* The steps that neither read nor move a clock keep DueOK, because they touch
\* neither the timers nor the place of the lock holder.
LEMMA DueFrame ==
  ASSUME ListInv, DueOK,
         UNCHANGED <<mEfiTimerList, TriggerTime, Period, holder, due>>,
         mEfiSystemTime' \in Nat, mEfiSystemTime <= mEfiSystemTime'
  PROVE  DueOK'
<1>1. \A e : Armed(e)' <=> Armed(e)
  BY DEF Armed
<1>2. mEfiSystemTime \in Nat /\ holder.time \in Nat
  BY TimerAssumption DEF ListInv, TimerListOK, TypeOK
<1>3. At("setTime") => due[holder.ev] \in Nat
  BY DEF ListInv, TimerListOK, TypeOK, HolderOK, At, OffList
<1>4. At("setTime") => due[holder.ev] <= mEfiSystemTime' + holder.time
  BY <1>2, <1>3 DEF DueOK
<1> QED BY <1>1, <1>4 DEF DueOK, At

\* CoreSetTimer: the timer is due its delay after the call.
LEMMA DueSetTimer ==
  ASSUME ListInv, DueOK, NEW e \in Event, SetTimer(e, "cancel", 0) \/
           \E type \in {"periodic", "relative"}, t \in TriggerTimes : SetTimer(e, type, t),
         NoWrap
  PROVE  DueOK'
<1>1. PICK type \in {"cancel", "periodic", "relative"}, t \in TriggerTimes \cup {0} :
        SetTimer(e, type, t) /\ (type # "cancel" => t \in TriggerTimes)
  OBVIOUS
<1> DEFINE time == IF type = "periodic" /\ t = 0 THEN TimerPeriod ELSE t
<1>2. time \in Nat /\ (type # "cancel" => MaxTime + time < TIME) /\ MaxTime < TIME
  BY <1>1, TimerAssumption DEF NoWrap
<1>3. /\ TriggerTime' = [TriggerTime EXCEPT ![e] = 0]
      /\ Period' = [Period EXCEPT ![e] = IF type = "periodic" THEN time ELSE 0]
      /\ holder' = IF type = "cancel" THEN NoHolder
                   ELSE [pc |-> "setTime", ev |-> e, time |-> time]
      /\ due' = [due EXCEPT ![e] = IF type = "cancel" THEN 0 ELSE mEfiSystemTime + time]
      /\ UNCHANGED mEfiSystemTime
      /\ mEfiTimerList' = RemoveEntry(mEfiTimerList, e)
  BY <1>1 DEF SetTimer, ListInv, HolderOK
<1> HIDE DEF time
<1>4. \A x : Armed(x)' => Armed(x) /\ x # e
  <2> DEFINE l == mEfiTimerList
             r == mEfiTimerList'
  <2>1. l \in Seq(Event) /\ NoDup(l) /\ r = RemoveEntry(l, e)
    BY <1>3 DEF ListInv, TimerListOK, TypeOK, NoDup
  <2> HIDE DEF l, r
  <2>2. ~In(r, e) /\ \A x : x # e => (In(r, x) <=> In(l, x))
    BY <2>1, RemoveFacts
  <2> QED BY <2>2 DEF In, Armed, l, r
<1>5. /\ TriggerTime \in [Event -> 0..(TIME - 1)] /\ Period \in [Event -> Nat]
      /\ due \in [Event -> Nat] /\ mEfiSystemTime \in Nat
  BY TimerAssumption DEF ListInv, TimerListOK, TypeOK
<1>6. \A x \in Event : Armed(x)' => due'[x] <= TriggerTime'[x]
  BY <1>3, <1>4, <1>5 DEF DueOK
<1>7. \A x \in Event : MaxTime + Period'[x] < TIME
  BY <1>2, <1>3, <1>5, TimerAssumption DEF DueOK
<1>8. At("setTime")' => /\ due'[holder'.ev] <= mEfiSystemTime' + holder'.time
                        /\ MaxTime + holder'.time < TIME
  BY <1>2, <1>3, <1>5 DEF At, NoHolder
<1>9. holder'.pc \in {"none", "setTime"}
  BY <1>3 DEF NoHolder
<1> QED BY <1>6, <1>7, <1>8, <1>9 DEF DueOK, At

\* The steps under the lock: SetTime adds the delay to a clock that has not
\* gone back, CheckHead takes what has expired, and CheckPeriod adds at least
\* the period.
LEMMA DueLocked ==
  ASSUME ListInv, DueOK, Locked \/ CheckTimers
  PROVE  DueOK'
<1> USE DEF ListInv, TimerListOK
<1>1. /\ TriggerTime \in [Event -> Nat] /\ Period \in [Event -> Nat]
      /\ due \in [Event -> Nat] /\ mEfiSystemTime \in 0..MaxTime /\ MaxTime \in Nat
      /\ holder \in [pc : Pcs, ev : Event \cup {NoEvent}, time : Nat]
      /\ TIME \in Nat /\ MaxTime < TIME
  BY TimerAssumption DEF TypeOK
<1>2. CASE SetTime
  <2>1. /\ holder.pc = "setTime" /\ holder.ev \in Event /\ ~Armed(holder.ev)
        /\ due[holder.ev] <= mEfiSystemTime + holder.time /\ MaxTime + holder.time < TIME
    BY <1>2 DEF SetTime, At, DueOK, HolderOK, OffList
  <2>2. (mEfiSystemTime + holder.time) % TIME = mEfiSystemTime + holder.time
    <3>1. mEfiSystemTime + holder.time \in 0..(TIME - 1)
      BY <1>1, <2>1
    <3> QED BY <1>1, <3>1
  <2>3. /\ TriggerTime' = [TriggerTime EXCEPT ![holder.ev] = mEfiSystemTime + holder.time]
        /\ holder'.pc = "setInsert" /\ holder'.ev = holder.ev
        /\ UNCHANGED <<mEfiTimerList, Period, due>>
    BY <1>1, <1>2, <2>2 DEF SetTime, Goto
  <2>4. \A x : Armed(x)' <=> Armed(x)
    BY <2>3 DEF Armed
  <2> QED BY <1>1, <2>1, <2>3, <2>4 DEF DueOK, At
<1>3. CASE SetInsert \/ CheckInsert
  <2>1. /\ holder.pc \in {"setInsert", "checkInsert"}
        /\ holder.ev \in Event /\ ~Armed(holder.ev) /\ InsertEventTimer(holder.ev)
        /\ holder'.pc \in {"setCheck", "checkHead"}
        /\ UNCHANGED <<mEfiSystemTime, TriggerTime, Period, due>>
    BY <1>1, <1>3 DEF SetInsert, CheckInsert, Goto, At, HolderOK, OffList
  <2>2. \A x : Armed(x)' <=> Armed(x) \/ x = holder.ev
    BY <2>1, InsertFacts DEF In, Armed
  <2> QED BY <2>1, <2>2 DEF DueOK, At
<1>4. CASE SetCheck \/ CheckTimers \/ CheckTime \/ CheckEnd
  <2>1. /\ UNCHANGED <<mEfiTimerList, TriggerTime, Period, due>>
        /\ holder'.pc \in {"none", "checkTime", "checkHead"}
    <3>1. CASE SetCheck \/ CheckEnd
      BY <3>1 DEF SetCheck, CheckEnd, NoHolder, timers
    <3>2. CASE CheckTimers
      BY <1>1, <3>2 DEF CheckTimers, Goto, timers
    <3>3. CASE CheckTime
      BY <1>1, <3>3 DEF CheckTime, timers
    <3> QED BY <1>4, <3>1, <3>2, <3>3
  <2>2. \A x : Armed(x)' <=> Armed(x)
    BY <2>1 DEF Armed
  <2> QED BY <2>1, <2>2 DEF DueOK, At
<1>5. CASE CheckHead
  <2> DEFINE e == Head(mEfiTimerList)
  <2>1. /\ TriggerTime[e] <= holder.time /\ mEfiTimerList # << >>
        /\ mEfiTimerList' = Tail(mEfiTimerList)
        /\ holder'.pc = "checkSignal" /\ holder'.ev = e /\ holder'.time = holder.time
        /\ UNCHANGED <<TriggerTime, Period, due>>
    BY <1>1, <1>5 DEF CheckHead, Expired
  <2>2. mEfiTimerList \in Seq(Event) /\ NoDup(mEfiTimerList)
    BY DEF TypeOK, NoDup
  <2> HIDE DEF e
  <2>3. e \in Event /\ Armed(e) /\ \A x : Armed(x)' => Armed(x)
    BY <2>1, <2>2, TailFacts DEF In, Armed, e
  <2> QED BY <2>1, <2>3 DEF DueOK, At
<1>6. CASE CheckSignal
  <2>1. /\ holder.pc = "checkSignal" /\ holder.ev \in Event /\ ~Armed(holder.ev)
        /\ due[holder.ev] <= TriggerTime[holder.ev]
        /\ TriggerTime[holder.ev] <= holder.time /\ holder.time <= mEfiSystemTime
    BY <1>6 DEF CheckSignal, At, DueOK, HolderOK, OffList, Checking
  <2>2. due[holder.ev] <= mEfiSystemTime
    BY <1>1, <2>1
  <2> DEFINE new == IF Period[holder.ev] = 0 THEN 0 ELSE due[holder.ev] + Period[holder.ev]
  <2>3. /\ due' = [due EXCEPT ![holder.ev] = new]
        /\ holder'.pc \in {"checkPeriod", "checkHead"}
        /\ holder'.ev = holder.ev /\ holder'.time = holder.time
        /\ UNCHANGED <<mEfiTimerList, TriggerTime, Period>>
    <3>1. due' = [due EXCEPT ![holder.ev] = IF Period[holder.ev] = 0 THEN 0
                                            ELSE IF @ <= mEfiSystemTime
                                            THEN @ + Period[holder.ev] ELSE @]
      BY <1>6 DEF CheckSignal
    <3>2. due' = [due EXCEPT ![holder.ev] = new]
      BY <2>1, <2>2, <3>1
    <3> QED BY <1>1, <1>6, <3>2 DEF CheckSignal, Goto, timers
  <2>4. \A x : Armed(x)' <=> Armed(x)
    BY <2>3 DEF Armed
  <2>5. due'[holder.ev] <= TriggerTime[holder.ev] + Period[holder.ev]
    BY <1>1, <2>1, <2>3
  <2>6. \A x \in Event : Armed(x)' => due'[x] = due[x]
    BY <1>1, <2>1, <2>3, <2>4
  <2> QED BY <2>1, <2>3, <2>4, <2>5, <2>6 DEF DueOK, At
<1>7. CASE CheckPeriod
  <2> DEFINE e == holder.ev
             next == (TriggerTime[e] + Period[e]) % TIME
             time == IF next <= holder.time THEN holder.time ELSE next
  <2>1. /\ holder.pc = "checkPeriod" /\ e \in Event /\ ~Armed(e)
        /\ due[e] <= TriggerTime[e] + Period[e]
        /\ TriggerTime[e] <= holder.time /\ holder.time <= mEfiSystemTime
        /\ MaxTime + Period[e] < TIME
    BY <1>7 DEF CheckPeriod, At, DueOK, HolderOK, OffList, Checking
  <2>2. next = TriggerTime[e] + Period[e]
    <3>1. TriggerTime[e] + Period[e] \in 0..(TIME - 1)
      BY <1>1, <2>1
    <3> QED BY <1>1, <3>1
  <2>3. due[e] <= time /\ time \in Nat
    BY <1>1, <2>1, <2>2
  <2>4. /\ TriggerTime' = [TriggerTime EXCEPT ![e] = time]
        /\ holder'.pc = "checkInsert" /\ holder'.ev = e
        /\ UNCHANGED <<mEfiTimerList, Period, due>>
    BY <1>1, <1>7 DEF CheckPeriod, Goto
  <2>5. \A x : Armed(x)' <=> Armed(x)
    BY <2>4 DEF Armed
  <2> HIDE DEF time, next
  <2> QED BY <1>1, <2>1, <2>3, <2>4, <2>5 DEF DueOK, At
<1> QED BY <1>2, <1>3, <1>4, <1>5, <1>6, <1>7 DEF Locked

(***************************************************************************)
(* CoreCheckTimers never signals a timer before its time: a relative timer *)
(* not before its delay has passed since CoreSetTimer was called, and a    *)
(* periodic one never more often than periods have passed.                 *)
(***************************************************************************)
THEOREM NoTimerEarly ==
  ASSUME NoWrap
  PROVE  Spec => []NotEarly
<1>1. Init => ListInv /\ DueOK
  <2> SUFFICES ASSUME Init PROVE DueOK
    BY InitList
  <2>1. MaxTime < TIME /\ MaxTime + 0 = MaxTime
    BY TimerAssumption
  <2> QED BY <2>1, EmptySeq DEF Init, DueOK, Armed, At, NoHolder
<1>2. ListInv /\ DueOK /\ [Next]_vars => (ListInv /\ DueOK)'
  <2> SUFFICES ASSUME ListInv, DueOK, [Next]_vars PROVE DueOK'
    BY NextList
  <2>1. mEfiSystemTime \in Nat
    BY TimerAssumption DEF ListInv, TimerListOK, TypeOK
  <2>2. ASSUME NEW d \in Durations, TimerTick(d) PROVE DueOK'
    <3>1. mEfiSystemTime' \in Nat /\ mEfiSystemTime <= mEfiSystemTime'
      <4>1. mEfiSystemTime' \in 0..MaxTime /\ mEfiSystemTime <= mEfiSystemTime'
        BY <2>2, TickList DEF ListInv, TimerListOK, TypeOK
      <4> QED BY <4>1, TimerAssumption
    <3> QED BY <2>2, <3>1, DueFrame DEF TimerTick, timers
  <2>3. CASE Locked \/ CheckTimers
    BY <2>3, DueLocked
  <2>4. ASSUME NEW e \in Event, ClientSetTimer(e) \/ CloseEvent(e) PROVE DueOK'
    BY <2>4, NoWrap, DueSetTimer DEF ClientSetTimer, CloseEvent
  <2>5. ASSUME NEW e \in Event, CloseFree(e) \/ Notify(e) PROVE DueOK'
    BY <2>1, <2>5, DueFrame DEF CloseFree, Notify, timers
  <2>6. CASE UNCHANGED vars
    BY <2>1, <2>6, DueFrame DEF vars
  <2> QED BY <2>2, <2>3, <2>4, <2>5, <2>6 DEF Next, Tick
<1>3. ListInv /\ DueOK => NotEarly
  <2> SUFFICES ASSUME ListInv, DueOK, At("checkSignal")
               PROVE  mEfiSystemTime >= due[holder.ev]
    BY DEF NotEarly
  <2>1. /\ holder.ev \in Event /\ due[holder.ev] <= TriggerTime[holder.ev]
        /\ TriggerTime[holder.ev] <= holder.time /\ holder.time <= mEfiSystemTime
    BY DEF DueOK, ListInv, HolderOK, At, OffList, Checking
  <2> QED BY <2>1, TimerAssumption DEF ListInv, TimerListOK, TypeOK
<1> QED BY <1>1, <1>2, <1>3, PTL DEF Spec

=============================================================================
