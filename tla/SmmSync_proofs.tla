--------------------------- MODULE SmmSync_proofs ---------------------------
(***************************************************************************)
(* Proofs about the SMM rendezvous, for any number of processors: the      *)
(* barriers of BSPHandler and APHandler keep the processors in step, and   *)
(* with them what the rendezvous promises.                                 *)
(*                                                                         *)
(* The theorems assume Prompt (the sync timer is longer than the distance  *)
(* between two adjacent instructions) and that nobody calls StartupAllAPs  *)
(* while processors may still arrive: without the second, BusyHeld does    *)
(* not hold (run smm_startup_race).                                        *)
(***************************************************************************)
EXTENDS SmmSync, FiniteSetTheorems, TLAPS

\* Processors waiting for or following a BSP; a BSP until it opens the Counter.
Aps     == ApWaiting \cup ApIn
BspMain == BspAt \ {"unsync"}
Counted == Aps \cup BspMain

\* Places of the BSP: the APs arrive, tasks may run, InsideSmm is TRUE, the
\* Counter is locked, a processor may still give up, others may still arrive.
Gather == {"clear", "arrival1", "arrival2", "sync", "lock", "arrived"}
Tasks  == BspCore
Inside == (BspGather \ {"enter"}) \cup BspProgram \cup BspCore
            \cup {"sync2", "lock2", "allPresent", "exit"}

Locks(p) ==
  \/ p \in (BspProgram \ {"busy"}) \cup (BspExit \ {"sync2", "lock2", "unsync"})
  \/ GatherFirst /\ p \in {"busy"} \cup BspCore

Unsettled(p) ==
  \/ p \in {"enter", "clear", "arrival1", "arrival2"}
  \/ ~GatherFirst /\ p \in {"busy", "sync2"} \cup BspCore

Arrivals(p) ==
  \/ p \in Gather
  \/ ~GatherFirst /\ p \in {"busy", "sync2", "lock2", "allPresent"} \cup BspCore

(***************************************************************************)
(* The places of an AP at each place of the BSP.  This is what the         *)
(* barriers are for.                                                       *)
(***************************************************************************)
Meets(p, a) ==
  /\ a \in {"elect", "timer1", "timer2"} => p = "enter" \/ Arrivals(p)
  /\ a = "giveUp" => Unsettled(p)
  /\ a = "present" => Arrivals(p)
  /\ a = "notify" => GatherFirst /\ p \in Gather
  /\ a = "backup" => mode.mtrr /\ p \in Gather \cup {"save", "saved"}
  /\ a = "backedUp" => mode.mtrr /\ p \in {"save", "saved"}
  /\ a = "replace" => mode.mtrr /\ p \in {"save", "saved", "program", "programmed"}
  /\ a = "replaced" => mode.mtrr /\ p \in {"program", "programmed"}
  /\ a = "wait" =>
       \/ p \in {"busy", "exit", "exitAll", "tasks"} \cup Tasks
       \/ ~mode.mtrr /\ p \in Gather
       \/ mode.mtrr /\ p \in {"program", "programmed"}
       \/ ~GatherFirst /\ p \in {"sync2", "lock2", "allPresent"}
  /\ a = "check" => p \in (Tasks \ {"schedule", "release"}) \cup {"tasks"}
  /\ a \in {"run", "ran"} => p \in Tasks \ {"schedule", "release"}
  /\ a = "ready" => mode.mtrr /\ p = "tasks"
  /\ a = "restore" => mode.mtrr /\ p \in {"tasks", "osMtrrs", "osDone"}
  /\ a \in {"restored", "reset"} =>
       \/ ~mode.mtrr /\ p = "tasks"
       \/ mode.mtrr /\ p \in {"osMtrrs", "osDone"}
       \/ a = "reset" /\ p \in {"absent", "gone"}
  /\ a = "resetDone" => p \in {"absent", "gone"}

\* The places of the APs that have signalled the BSP since its last wait.
Signalled(p) ==
  {a \in ApIn :
     \/ p \in Gather /\ (IF mode.mtrr THEN a = "backup" ELSE GatherFirst /\ a = "wait")
     \/ p \in {"save", "saved"} /\ a = "replace"
     \/ p \in {"program", "programmed"} /\ a = "wait"
     \/ p = "tasks" /\ (IF mode.mtrr THEN a = "restore" ELSE a = "reset")
     \/ p \in {"osMtrrs", "osDone"} /\ a = "reset"}

\* The BSP has released an AP that stands at a and has not noticed yet.
Released(p, a) ==
  \/ p \in {"save", "saved"} /\ a = "backup"
  \/ p \in {"program", "programmed"} /\ a = "replace"
  \/ p = "tasks" /\ a = "wait"
  \/ p \in {"osMtrrs", "osDone"} /\ a = "restore"
  \/ p \in {"absent", "gone"} /\ a = "reset"

\* The number of processors at places of P, when f is the program counters.
Count(f, P) == Cardinality({c \in CPU : f[c] \in P})

\* Types, without the bounds that follow from the rest.
Types ==
  /\ mode \in ModeType
  /\ Counter \in Nat /\ InsideSmm \in BOOLEAN /\ AllCpusInSync \in BOOLEAN
  /\ BspIndex \in CPU \cup {NoCpu}
  /\ Run \in [CPU -> Nat]
  /\ Present \in [CPU -> BOOLEAN] /\ Busy \in [CPU -> BOOLEAN]
  /\ CurrentlyExecutingCpu \in CPU
  /\ bsp \in [CPU -> CPU \cup {NoCpu}]
  /\ ApCount \in 0..NumberOfCpus
  /\ pc \in [CPU -> Places]
  /\ owed \in [CPU -> Nat]

\* Whom BspIndex may name.
ElectionOK ==
  /\ mode.election = "platform" => BspIndex \in {NoCpu, BootCpu}
  /\ mode.election = "fixed" => BspIndex = BootCpu

\* What holds of processor b while it is the BSP.
MainOK(b) ==
  /\ pc[b] # "open" => BspIndex = b
  /\ InsideSmm <=> pc[b] \in Inside
  /\ pc[b] \notin {"enter", "clear", "open"} => CurrentlyExecutingCpu = b
  /\ pc[b] \in {"save", "saved", "program", "programmed", "osMtrrs", "osDone"} => mode.mtrr
  /\ pc[b] \in {"arrival1", "arrival2", "sync", "lock", "arrived",
                "acquire", "schedule", "release"} => GatherFirst
  /\ pc[b] \in {"sync2", "lock2", "allPresent"} => ~GatherFirst

BspOK ==
  /\ \A b \in CPU : pc[b] \in BspMain => MainOK(b)
  /\ \A b, c \in CPU : pc[b] \in BspMain /\ pc[c] \in BspMain => b = c
  /\ \A b, c \in CPU : pc[b] \in BspMain /\ ~Unsettled(pc[b]) => pc[c] # "unsync"
  /\ InsideSmm => \E b \in CPU : pc[b] \in Inside

\* What holds of AP c while the BSP is at p: the procedures it has to run, and
\* its BUSY lock and Run semaphore.
ApOK(p, c) ==
  /\ owed[c] \in {0, 1} /\ Run[c] \in {0, 1}
  /\ owed[c] = 1 => p \in Tasks /\ pc[c] \in {"wait", "check", "run"}
  /\ p \in Tasks /\ pc[c] \in {"check", "run"} => owed[c] = 1
  /\ p = "release" => owed[c] = 1
  /\ p = "schedule" => owed[c] = 0
  /\ Busy[c] <=> owed[c] = 1 \/ pc[c] = "ran" \/ p = "schedule"
  /\ Run[c] = 1 <=> \/ Released(p, pc[c])
                    \/ p \in Tasks \ {"release"} /\ pc[c] = "wait" /\ owed[c] = 1

ApsOK ==
  /\ \A c \in CPU : pc[c] \in ApIn => \E b \in CPU : pc[b] \in BspMain /\ bsp[c] = b
  /\ \A b, c \in CPU : pc[b] \in BspMain /\ pc[c] \in Aps => Meets(pc[b], pc[c])
  /\ \A b, c \in CPU : pc[b] \in BspMain /\ pc[c] \in ApIn => ApOK(pc[b], c)
  /\ \A c \in CPU : pc[c] \notin ApIn \cup BspMain => Run[c] = 0
  /\ \A c \in CPU : pc[c] \notin ApIn => owed[c] = 0
  /\ \A c \in CPU : pc[c] \in ApWaiting => ~Busy[c]

PresentAt == (ApIn \ {"present", "resetDone"})
               \cup (BspMain \ {"enter", "clear", "gone", "open"})

PresentOK == \A c \in CPU : Present[c] <=> pc[c] \in PresentAt

\* The Counter and ApCount count the processors on their way, and the Run
\* semaphore of the BSP those that have signalled it.
CounterOK ==
  /\ Counter = Top <=> \E b \in CPU : pc[b] \in BspMain /\ Locks(pc[b])
  /\ Counter # Top => Counter = Count(pc, Counted)
  /\ \A b \in CPU : pc[b] \in BspMain \ {"absent", "gone", "open"} /\ Locks(pc[b]) =>
       ApCount = Count(pc, Aps)

SignalsOK ==
  /\ \A b \in CPU : pc[b] \in BspMain \ {"absent", "gone"} =>
       Run[b] = Count(pc, Signalled(pc[b]))
  /\ \A b \in CPU : pc[b] \in {"absent", "gone"} =>
       Run[b] + Count(pc, {"reset", "resetDone"}) = ApCount

Inv == Types /\ ElectionOK /\ BspOK /\ ApsOK /\ PresentOK /\ CounterOK /\ SignalsOK

-----------------------------------------------------------------------------
(* Counting processors. *)

\* A count of processors is a number of at most NumberOfCpus.
LEMMA CountType ==
  ASSUME NEW f, NEW P
  PROVE  /\ IsFiniteSet({c \in CPU : f[c] \in P})
         /\ Count(f, P) \in Nat /\ NumberOfCpus \in Nat /\ Count(f, P) <= NumberOfCpus
<1>1. {c \in CPU : f[c] \in P} \in SUBSET CPU /\ IsFiniteSet(CPU)
  BY ConstantsAssumption
<1> QED BY <1>1, FS_Subset, FS_CardinalityType DEF Count, NumberOfCpus

\* Only the processors at places of P matter.
LEMMA CountEq ==
  ASSUME NEW f, NEW g, NEW P, NEW Q, \A c \in CPU : f[c] \in P <=> g[c] \in Q
  PROVE  Count(f, P) = Count(g, Q)
<1>1. {c \in CPU : f[c] \in P} = {c \in CPU : g[c] \in Q}
  OBVIOUS
<1> QED BY <1>1 DEF Count

\* A barrier: as many processors in P as in Q, so all those of Q are in P.
LEMMA CountAll ==
  ASSUME NEW f, NEW P, NEW Q, P \subseteq Q, Count(f, P) >= Count(f, Q)
  PROVE  \A c \in CPU : f[c] \in Q => f[c] \in P
<1> DEFINE F == {d \in CPU : f[d] \in P}
           G == {d \in CPU : f[d] \in Q}
<1>1. IsFiniteSet(G) /\ F \in SUBSET G
  BY CountType
<1>2. Cardinality(F) \in Nat /\ Cardinality(G) \in Nat /\ Cardinality(F) >= Cardinality(G)
  BY CountType DEF Count
<1> HIDE DEF F, G
<1>3. F = G
  BY <1>1, <1>2, FS_Subset
<1> QED BY <1>3 DEF F, G

\* A count is zero exactly when nobody is there.
LEMMA CountNone ==
  ASSUME NEW f, NEW P
  PROVE  Count(f, P) = 0 <=> \A c \in CPU : f[c] \notin P
<1>1. {c \in CPU : f[c] \in P} = {} <=> \A c \in CPU : f[c] \notin P
  OBVIOUS
<1> QED BY <1>1, CountType, FS_EmptySet DEF Count

\* The Counter does not get to its locked value by counting.
LEMMA CountBelowTop ==
  ASSUME NEW f, NEW P
  PROVE  Count(f, P) \in Nat /\ Count(f, P) + 1 < Top
<1>1. Count(f, P) \in Nat /\ NumberOfCpus \in Nat /\ Count(f, P) <= NumberOfCpus
  BY CountType
<1>2. Top \in Nat /\ Top > NumberOfCpus + 1
  BY ConstantsAssumption DEF NumberOfCpus
<1> QED BY <1>1, <1>2

-----------------------------------------------------------------------------
(* What a step has to show. *)

\* The settings of the platform never change; what depends on them neither.
LEMMA ModeFrame ==
  ASSUME mode' = mode
  PROVE  /\ GatherFirst' <=> GatherFirst
         /\ \A p, a : Meets(p, a)' <=> Meets(p, a)
         /\ \A p : Locks(p)' <=> Locks(p)
         /\ \A p : Unsettled(p)' <=> Unsettled(p)
         /\ \A p : Signalled(p)' = Signalled(p)
<1>1. GatherFirst' <=> GatherFirst
  BY DEF GatherFirst
<1>2. \A p : (Locks(p)' <=> Locks(p)) /\ (Unsettled(p)' <=> Unsettled(p)) /\ (Arrivals(p)' <=> Arrivals(p))
  BY <1>1 DEF Locks, Unsettled, Arrivals
<1>3. \A p, a : Meets(p, a)' <=> Meets(p, a)
  BY <1>1, <1>2 DEF Meets
<1>4. \A p : Signalled(p)' = Signalled(p)
  BY <1>1 DEF Signalled
<1> QED BY <1>1, <1>2, <1>3, <1>4

\* A processor goes from one place to another: both inside P, or both outside,
\* or into P, or out of it.
LEMMA PcMove ==
  ASSUME pc \in [CPU -> Places], NEW c \in CPU, NEW q, pc' = [pc EXCEPT ![c] = q]
  PROVE  /\ pc'[c] = q /\ \A d \in CPU \ {c} : pc'[d] = pc[d]
         /\ \A P : /\ (pc[c] \in P <=> q \in P) => Count(pc', P) = Count(pc, P)
                   /\ pc[c] \notin P /\ q \in P => Count(pc', P) = Count(pc, P) + 1
                   /\ pc[c] \in P /\ q \notin P => Count(pc, P) = Count(pc', P) + 1
<1>1. pc'[c] = q /\ \A d \in CPU \ {c} : pc'[d] = pc[d]
  OBVIOUS
<1>2. ASSUME NEW P
      PROVE  /\ (pc[c] \in P <=> q \in P) => Count(pc', P) = Count(pc, P)
             /\ pc[c] \notin P /\ q \in P => Count(pc', P) = Count(pc, P) + 1
             /\ pc[c] \in P /\ q \notin P => Count(pc, P) = Count(pc', P) + 1
  <2> DEFINE F == {d \in CPU : pc[d] \in P}
             G == {d \in CPU : pc'[d] \in P}
  <2>1. IsFiniteSet(F) /\ IsFiniteSet(G)
    BY CountType
  <2>2. (pc[c] \in P <=> q \in P) => F = G
    BY <1>1
  <2>3. pc[c] \notin P /\ q \in P => G = F \cup {c} /\ c \notin F
    BY <1>1
  <2>4. pc[c] \in P /\ q \notin P => F = G \cup {c} /\ c \notin G
    BY <1>1
  <2> HIDE DEF F, G
  <2>5. pc[c] \notin P /\ q \in P => Cardinality(G) = Cardinality(F) + 1
    BY <2>1, <2>3, FS_AddElement
  <2>6. pc[c] \in P /\ q \notin P => Cardinality(F) = Cardinality(G) + 1
    BY <2>1, <2>4, FS_AddElement
  <2> QED BY <2>2, <2>5, <2>6 DEF F, G, Count
<1> QED BY <1>1, <1>2

\* The classes of places do not overlap.
LEMMA PlacesApart ==
  /\ ApIn \cap ApWaiting = {} /\ ApIn \cap BspAt = {} /\ ApWaiting \cap BspAt = {}
  /\ Inside \subseteq BspMain /\ "open" \notin Inside /\ "enter" \notin Inside
  /\ Counted \cap (Arriving \cup {"leave", "unsync"}) = {}
  /\ Places = Arriving \cup {"leave", "unsync"} \cup Counted
BY DEF ApIn, ApWaiting, BspAt, BspMain, BspGather, BspProgram, BspCore, BspExit, Inside, Counted,
  Aps, Arriving, Places

\* A processor in APHandler follows the BSP.
LEMMA TheBsp ==
  ASSUME Inv, NEW c \in CPU, pc[c] \in ApIn
  PROVE  \E b \in CPU : /\ pc[b] \in BspMain /\ bsp[c] = b /\ b # c /\ BspIndex = b
                        /\ Meets(pc[b], pc[c]) /\ ApOK(pc[b], c) /\ MainOK(b)
                        /\ Present[b] <=> pc[b] \in PresentAt
<1>1. PICK b \in CPU : pc[b] \in BspMain /\ bsp[c] = b
  BY DEF Inv, ApsOK
<1>2. pc[c] \in Aps /\ b # c
  BY <1>1, PlacesApart DEF Aps, BspMain
<1>3. Meets(pc[b], pc[c]) /\ ApOK(pc[b], c) /\ MainOK(b)
  BY <1>1, <1>2 DEF Inv, ApsOK, BspOK
<1>4. pc[b] # "open"
  BY <1>3 DEF Meets, Arrivals, Unsettled, Gather, Tasks, BspCore, ApIn
<1>5. BspIndex = b
  BY <1>3, <1>4 DEF MainOK
<1> QED BY <1>1, <1>2, <1>3, <1>5 DEF Inv, PresentOK

(***************************************************************************)
(* A processor c other than the BSP goes on: only its own variables and    *)
(* the semaphore of the BSP may change.                                    *)
(***************************************************************************)
OtherMove(c, q) ==
  /\ pc[c] \notin BspMain /\ q \in Places \ (BspMain \cup {"unsync"})
  /\ pc' = [pc EXCEPT ![c] = q]
  /\ UNCHANGED <<mode, InsideSmm, BspIndex, CurrentlyExecutingCpu, ApCount>>
  /\ \A d \in CPU \ {c} : /\ pc[d] \notin BspMain => Run'[d] = Run[d]
                          /\ Busy'[d] = Busy[d] /\ owed'[d] = owed[d]
                          /\ Present'[d] = Present[d] /\ bsp'[d] = bsp[d]

\* What has to be shown for such a step.
LEMMA OtherMoveInv ==
  ASSUME Inv, NEW c \in CPU, NEW q, OtherMove(c, q), Types',
         Present'[c] <=> q \in PresentAt,
         q \in Aps => \A b \in CPU : pc[b] \in BspMain => Meets(pc[b], q),
         q \in ApIn => /\ \E b \in CPU : pc[b] \in BspMain /\ bsp'[c] = b
                       /\ \A b \in CPU : pc[b] \in BspMain => ApOK(pc[b], c)',
         q \notin ApIn => Run'[c] = 0 /\ owed'[c] = 0,
         q \in ApWaiting => ~Busy'[c],
         CounterOK', SignalsOK'
  PROVE  Inv'
<1> USE DEF Inv, OtherMove
<1>1. pc'[c] = q /\ \A d \in CPU \ {c} : pc'[d] = pc[d]
  BY DEF Types
<1>3. ElectionOK'
  BY DEF ElectionOK
<1>4. pc[c] \notin BspMain /\ q \notin BspMain /\ q \notin Inside /\ pc[c] \notin Inside /\ q # "unsync"
  BY PlacesApart
<1>6. \A d \in CPU : /\ pc'[d] \in BspMain <=> pc[d] \in BspMain
                     /\ pc'[d] \in BspMain => pc'[d] = pc[d] /\ d # c
  BY <1>1, <1>4
<1>7. BspOK'
  <2>1. \A d \in CPU : pc'[d] \in BspMain => MainOK(d)'
    BY <1>6, ModeFrame DEF BspOK, MainOK
  <2>2. \A d, e \in CPU : pc'[d] \in BspMain /\ pc'[e] \in BspMain => d = e
    BY <1>6 DEF BspOK
  <2>3. \A d, e \in CPU : pc'[d] \in BspMain /\ ~Unsettled(pc[d])' => pc'[e] # "unsync"
    <3> SUFFICES ASSUME NEW d \in CPU, NEW e \in CPU, pc'[d] \in BspMain, ~Unsettled(pc[d])'
                 PROVE  pc'[e] # "unsync"
      OBVIOUS
    <3>1. pc[d] \in BspMain /\ pc'[d] = pc[d]
      BY <1>6
    <3>2. ~Unsettled(pc[d])
      BY <3>1, ModeFrame
    <3>3. pc[e] # "unsync"
      BY <3>1, <3>2 DEF BspOK
    <3> QED BY <1>1, <1>4, <3>3
  <2>4. InsideSmm' => \E d \in CPU : pc'[d] \in Inside
    BY <1>1, <1>4 DEF BspOK
  <2> QED BY <2>1, <2>2, <2>3, <2>4 DEF BspOK
<1>8. ApsOK'
  <2>1. \A d \in CPU : pc'[d] \in ApIn => \E e \in CPU : pc'[e] \in BspMain /\ bsp'[d] = e
    <3> SUFFICES ASSUME NEW d \in CPU, pc'[d] \in ApIn
                 PROVE  \E e \in CPU : pc'[e] \in BspMain /\ bsp'[d] = e
      OBVIOUS
    <3>1. \E e \in CPU : pc[e] \in BspMain /\ bsp'[d] = e
      BY <1>1 DEF ApsOK
    <3> QED BY <1>6, <3>1
  <2>2. \A d, e \in CPU : pc'[d] \in BspMain /\ pc'[e] \in Aps => Meets(pc[d], pc[e])'
    <3> SUFFICES ASSUME NEW d \in CPU, NEW e \in CPU, pc'[d] \in BspMain, pc'[e] \in Aps
                 PROVE  Meets(pc'[d], pc'[e])
      BY ModeFrame
    <3> QED BY <1>1, <1>6 DEF ApsOK
  <2>3. \A d, e \in CPU : pc'[d] \in BspMain /\ pc'[e] \in ApIn => ApOK(pc[d], e)'
    <3> SUFFICES ASSUME NEW d \in CPU, NEW e \in CPU, pc'[d] \in BspMain, pc'[e] \in ApIn
                 PROVE  ApOK(pc[d], e)'
      OBVIOUS
    <3>1. pc'[d] = pc[d] /\ pc[d] \in BspMain
      BY <1>6
    <3>2. CASE e = c
      BY <1>1, <3>1, <3>2 DEF ApOK
    <3>3. CASE e # c
      <4>1. pc'[e] = pc[e] /\ pc[e] \in ApIn /\ pc[e] \notin BspMain
        BY <1>1, <3>3, PlacesApart DEF BspMain
      <4>2. ApOK(pc[d], e)
        BY <3>1, <4>1 DEF ApsOK
      <4> QED BY <3>1, <3>3, <4>1, <4>2 DEF ApOK
    <3> QED BY <3>2, <3>3
  <2>4. \A d \in CPU : pc'[d] \notin ApIn \cup BspMain => Run'[d] = 0
    BY <1>1, <1>4, <1>6 DEF ApsOK
  <2>5. \A d \in CPU : pc'[d] \notin ApIn => owed'[d] = 0
    BY <1>1 DEF ApsOK
  <2>6. \A d \in CPU : pc'[d] \in ApWaiting => ~Busy'[d]
    BY <1>1, <1>4 DEF ApsOK
  <2> QED BY <2>1, <2>2, <2>3, <2>4, <2>5, <2>6 DEF ApsOK
<1>9. PresentOK'
  BY <1>1 DEF PresentOK
<1> QED BY <1>3, <1>7, <1>8, <1>9

\* The Counter is not touched, and c stays among the processors it counts or
\* among the others.
LEMMA CounterFrame ==
  ASSUME Inv, NEW c \in CPU, NEW q, OtherMove(c, q), Counter' = Counter,
         pc[c] \in Aps <=> q \in Aps
  PROVE  CounterOK'
<1> USE DEF Inv, OtherMove
<1>1. pc'[c] = q /\ \A d \in CPU \ {c} : pc'[d] = pc[d]
  BY DEF Types
<1>2. \A d \in CPU : /\ pc'[d] \in BspMain <=> pc[d] \in BspMain
                     /\ pc'[d] \in BspMain => pc'[d] = pc[d] /\ d # c
  BY <1>1
<1>3. Count(pc', Counted) = Count(pc, Counted) /\ Count(pc', Aps) = Count(pc, Aps)
  BY PcMove DEF Counted, Types
<1>4. (\E d \in CPU : pc'[d] \in BspMain /\ Locks(pc[d])')
        <=> (\E d \in CPU : pc[d] \in BspMain /\ Locks(pc[d]))
  BY <1>2, ModeFrame
<1>5. \A d \in CPU : pc'[d] \in BspMain \ {"absent", "gone", "open"} /\ Locks(pc[d])' =>
        ApCount' = Count(pc', Aps)
  BY <1>2, <1>3, ModeFrame DEF CounterOK
<1> QED BY <1>3, <1>4, <1>5 DEF CounterOK

\* The semaphore of the BSP is not touched, and c stays among the processors
\* that have signalled it or among the others.
LEMMA SignalsFrame ==
  ASSUME Inv, NEW c \in CPU, NEW q, OtherMove(c, q),
         \A b \in CPU : pc[b] \in BspMain =>
           /\ Run'[b] = Run[b]
           /\ pc[c] \in Signalled(pc[b]) <=> q \in Signalled(pc[b])
           /\ pc[b] \in {"absent", "gone"} =>
                (pc[c] \in {"reset", "resetDone"} <=> q \in {"reset", "resetDone"})
  PROVE  SignalsOK'
<1> USE DEF Inv, OtherMove
<1>1. pc'[c] = q /\ \A d \in CPU \ {c} : pc'[d] = pc[d]
  BY DEF Types
<1>2. \A d \in CPU : /\ pc'[d] \in BspMain <=> pc[d] \in BspMain
                     /\ pc'[d] \in BspMain => pc'[d] = pc[d] /\ d # c
  BY <1>1
<1>3. ASSUME NEW b \in CPU, pc'[b] \in BspMain
      PROVE  /\ pc'[b] \notin {"absent", "gone"} => Run'[b] = Count(pc', Signalled(pc[b])')
             /\ pc'[b] \in {"absent", "gone"} =>
                  Run'[b] + Count(pc', {"reset", "resetDone"}) = ApCount'
  <2>1. pc[b] \in BspMain /\ pc'[b] = pc[b]
    BY <1>2, <1>3
  <2>2. Signalled(pc[b])' = Signalled(pc[b])
    BY <2>1, ModeFrame
  <2>3. Count(pc', Signalled(pc[b])) = Count(pc, Signalled(pc[b]))
    BY <2>1, PcMove DEF Types
  <2>4. pc[b] \in {"absent", "gone"} =>
          Count(pc', {"reset", "resetDone"}) = Count(pc, {"reset", "resetDone"})
    BY <2>1, PcMove DEF Types
  <2> QED BY <2>1, <2>2, <2>3, <2>4 DEF SignalsOK
<1>4. {"absent", "gone"} \subseteq BspMain
  BY DEF BspMain, BspAt, BspExit
<1> QED BY <1>3, <1>4 DEF SignalsOK

-----------------------------------------------------------------------------
(* SmiRendezvous, and the way out. *)

\* A processor that the Counter does not count goes on.
LEMMA OutsiderInv ==
  ASSUME Inv, NEW c \in CPU, NEW q \in Arriving \cup {"leave"},
         pc[c] \in Arriving \cup {"leave", "unsync"}, pc' = [pc EXCEPT ![c] = q],
         UNCHANGED <<mode, Counter, InsideSmm, BspIndex, CurrentlyExecutingCpu, ApCount,
                     Run, Busy, owed, Present>>,
         AllCpusInSync' \in BOOLEAN, bsp' \in [CPU -> CPU \cup {NoCpu}],
         \A d \in CPU \ {c} : bsp'[d] = bsp[d]
  PROVE  Inv'
<1>1. /\ q \in Places /\ q \notin Counted /\ q # "unsync" /\ pc[c] \notin Counted
  BY PlacesApart DEF Places, Arriving
<1>2. /\ q \notin Aps /\ q \notin ApIn /\ q \notin ApWaiting /\ q \notin BspMain
      /\ pc[c] \notin Aps /\ pc[c] \notin ApIn /\ pc[c] \notin BspMain
      /\ q \notin PresentAt /\ pc[c] \notin PresentAt
  BY <1>1 DEF Counted, Aps, PresentAt
<1>3. OtherMove(c, q)
  BY <1>1, <1>2 DEF OtherMove
<1>4. Types'
  BY <1>1 DEF Inv, Types
<1>5. \A b : pc[c] \notin Signalled(b) /\ q \notin Signalled(b)
  BY <1>2 DEF Signalled
<1>6. "reset" \in ApIn /\ "resetDone" \in ApIn
  BY DEF ApIn
<1>7. CounterOK'
  BY <1>2, <1>3, CounterFrame
<1>8. SignalsOK'
  BY <1>2, <1>3, <1>5, <1>6, SignalsFrame
<1>9. Run'[c] = 0 /\ owed'[c] = 0 /\ ~Present'[c]
  BY <1>2 DEF Inv, ApsOK, PresentOK
<1> QED BY <1>2, <1>3, <1>4, <1>7, <1>8, <1>9, OtherMoveInv

\* The steps of SmiRendezvous before the Counter and the last one.
LEMMA OutsideSteps ==
  ASSUME Inv, NEW c \in CPU,
         TakeSmi(c) \/ SampleValidSmi(c) \/ SampleInsideSmm(c) \/ Leave(c)
           \/ (CheckIn(c) /\ Counter = Top)
  PROVE  Inv'
<1> DEFINE q == pc'[c]
<1>1. /\ pc[c] \in Arriving \cup {"leave"}
      /\ \E x \in Arriving : pc' = [pc EXCEPT ![c] = x]
      /\ UNCHANGED <<mode, Counter, InsideSmm, BspIndex, AllCpusInSync, CurrentlyExecutingCpu,
                     ApCount, Run, Busy, owed, Present>>
  BY DEF TakeSmi, SampleValidSmi, SampleInsideSmm, Leave, CheckIn, Goto, sync, local, task, Arriving
<1>2. /\ bsp' \in [CPU -> CPU \cup {NoCpu}]
      /\ \A d \in CPU \ {c} : bsp'[d] = bsp[d]
  BY DEF TakeSmi, SampleValidSmi, SampleInsideSmm, Leave, CheckIn, local, Inv, Types
<1>3. AllCpusInSync' \in BOOLEAN
  BY <1>1 DEF Inv, Types
<1> QED BY <1>1, <1>2, <1>3, OutsiderInv

\* ReleaseSemaphore on the Counter: one more processor is counted.
LEMMA CheckInInv ==
  ASSUME Inv, NEW c \in CPU, CheckIn(c), Counter # Top
  PROVE  Inv'
<1>1. PICK q \in {"timer1", "elect"} : pc' = [pc EXCEPT ![c] = q]
  BY DEF CheckIn, Goto
<1>2. /\ pc[c] = "checkIn" /\ Counter' = Counter + 1 /\ Busy' = [Busy EXCEPT ![c] = FALSE]
      /\ UNCHANGED <<mode, InsideSmm, AllCpusInSync, BspIndex, Run, Present, owed,
                     CurrentlyExecutingCpu, bsp, ApCount>>
  BY DEF CheckIn, local
<1>3. /\ q \in ApWaiting /\ q \in Aps /\ q \in Counted /\ q \in Places /\ q \notin ApIn
      /\ q \notin BspMain /\ q # "unsync" /\ q \notin PresentAt
      /\ pc[c] \notin Aps /\ pc[c] \notin Counted /\ pc[c] \notin ApIn /\ pc[c] \notin BspMain
      /\ pc[c] \notin PresentAt
  BY <1>2, PlacesApart DEF ApWaiting, Aps, Counted, Places, PresentAt, BspMain, Arriving
<1>4. OtherMove(c, q)
  BY <1>1, <1>2, <1>3 DEF OtherMove, Inv, Types
<1>5. Types'
  BY <1>1, <1>2, <1>3 DEF Inv, Types
<1>6. ~Busy'[c] /\ Run'[c] = 0 /\ owed'[c] = 0 /\ ~Present'[c]
  BY <1>2, <1>3 DEF Inv, Types, ApsOK, PresentOK
<1>7. SignalsOK'
  <2>1. \A b : pc[c] \notin Signalled(b) /\ q \notin Signalled(b)
    BY <1>3 DEF Signalled
  <2>2. pc[c] \notin {"reset", "resetDone"} /\ q \notin {"reset", "resetDone"}
    BY <1>2
  <2> QED BY <1>2, <1>4, <2>1, <2>2, SignalsFrame
<1>8. \A b \in CPU : pc[b] \in BspMain => ~Locks(pc[b])
  BY DEF Inv, CounterOK
<1>9. CounterOK'
  <2>1. Count(pc', Counted) = Count(pc, Counted) + 1
    BY <1>1, <1>3, PcMove DEF Inv, Types
  <2>2. Counter' = Count(pc', Counted) /\ Counter' # Top
    BY <1>2, <2>1, CountBelowTop DEF Inv, CounterOK
  <2>3. \A d \in CPU : pc'[d] \in BspMain => ~Locks(pc[d])'
    BY <1>1, <1>2, <1>3, <1>8, ModeFrame DEF Inv, Types
  <2> QED BY <2>2, <2>3 DEF CounterOK
<1>10. ASSUME NEW b \in CPU, pc[b] \in BspMain
       PROVE  Meets(pc[b], q)
  <2>1. ~Locks(pc[b]) /\ MainOK(b)
    BY <1>8, <1>10 DEF Inv, BspOK
  <2>2. pc[b] = "enter" \/ Arrivals(pc[b])
    BY <1>10, <2>1 DEF MainOK, Locks, Arrivals, Gather, BspMain, BspAt, BspGather, BspProgram,
      BspCore, BspExit
  <2> QED BY <2>2 DEF Meets
<1> QED BY <1>3, <1>4, <1>5, <1>6, <1>7, <1>9, <1>10, OtherMoveInv

\* While a BSP has the Counter locked, or after it has left, nobody waits to
\* be elected; the processor that is becomes the only BSP.
LEMMA ElectInv ==
  ASSUME Inv, NEW c \in CPU, Elect(c), pc'[c] # "enter"
  PROVE  Inv'
<1>1. /\ pc[c] = "elect" /\ pc' = [pc EXCEPT ![c] = "timer1"] /\ BspIndex' # c
      /\ UNCHANGED <<mode, Counter, InsideSmm, AllCpusInSync, Run, Present, owed, Busy,
                     CurrentlyExecutingCpu, bsp, ApCount>>
  BY DEF Elect, Goto, local, task, Inv, Types
<1>2. BspIndex' = BspIndex
  BY <1>1 DEF Elect, Elected, Inv, Types, ModeType, PlatformSmmBspElection
<1>3. OtherMove(c, "timer1")
  BY <1>1, <1>2, PlacesApart DEF OtherMove, Places, BspMain, ApWaiting, Counted, Aps
<1>4. Types'
  BY <1>1, <1>2 DEF Inv, Types, Places, ApWaiting
<1>5. {"elect", "timer1"} \subseteq ApWaiting /\ {"elect", "timer1"} \cap ApIn = {}
  BY DEF ApWaiting, ApIn
<1>6. ~Busy'[c] /\ Run'[c] = 0 /\ owed'[c] = 0 /\ ~Present'[c] /\ "timer1" \notin PresentAt
  BY <1>1, <1>5, PlacesApart DEF Inv, ApsOK, PresentOK, PresentAt, BspMain
<1>7. CounterOK'
  BY <1>1, <1>3, <1>5, CounterFrame DEF Aps
<1>8. SignalsOK'
  BY <1>1, <1>3, <1>5, SignalsFrame DEF Signalled
<1>9. \A b \in CPU : pc[b] \in BspMain => Meets(pc[b], "timer1")
  BY <1>1, <1>5 DEF Inv, ApsOK, Meets, Aps
<1> QED BY <1>3, <1>4, <1>5, <1>6, <1>7, <1>8, <1>9, OtherMoveInv

-----------------------------------------------------------------------------
(* APHandler *)

\* The BSP does not come: a processor asks for it, and gives up.
LEMMA TimeoutInv ==
  ASSUME Inv, NEW c \in CPU, BspTimeout1(c) \/ BspTimeout2(c)
  PROVE  Inv'
<1>1. /\ pc[c] \in {"timer1", "timer2"} /\ ~InsideSmm
      /\ UNCHANGED <<mode, Counter, InsideSmm, AllCpusInSync, BspIndex, Run, Present, owed, Busy,
                     CurrentlyExecutingCpu, bsp, ApCount>>
  BY DEF BspTimeout1, BspTimeout2, sync, local, task
<1>2. PICK q \in {"timer2", "giveUp"} : pc' = [pc EXCEPT ![c] = q]
  BY DEF BspTimeout1, BspTimeout2, Goto
<1>3. /\ {"timer1", "timer2", "giveUp"} \subseteq ApWaiting
      /\ {"timer1", "timer2", "giveUp"} \cap ApIn = {}
      /\ {"timer1", "timer2", "giveUp"} \cap (BspMain \cup {"unsync"}) = {}
  BY DEF ApWaiting, ApIn, BspMain, BspAt, BspGather, BspProgram, BspCore, BspExit
<1>4. OtherMove(c, q)
  BY <1>1, <1>2, <1>3 DEF OtherMove, Places
<1>5. Types'
  BY <1>1, <1>2, <1>3 DEF Inv, Types, Places
<1>6. ~Busy'[c] /\ Run'[c] = 0 /\ owed'[c] = 0 /\ ~Present'[c] /\ q \notin PresentAt
  BY <1>1, <1>3 DEF Inv, ApsOK, PresentOK, PresentAt
<1>7. CounterOK'
  BY <1>1, <1>3, <1>4, CounterFrame DEF Aps
<1>8. SignalsOK'
  BY <1>1, <1>3, <1>4, SignalsFrame DEF Signalled
<1>9. ASSUME NEW b \in CPU, pc[b] \in BspMain
      PROVE  Meets(pc[b], q)
  <2>1. Meets(pc[b], pc[c]) /\ MainOK(b)
    BY <1>1, <1>3, <1>9 DEF Inv, ApsOK, BspOK, Aps
  <2>2. pc[b] = "enter" \/ Arrivals(pc[b])
    BY <1>1, <2>1 DEF Meets
  <2>3. pc[b] \notin Inside
    BY <1>1, <2>1 DEF MainOK
  <2>4. pc[b] = "enter"
    BY <2>2, <2>3 DEF Arrivals, Gather, Inside, BspGather, BspProgram, BspCore
  <2> QED BY <2>4 DEF Meets, Unsettled
<1> QED BY <1>3, <1>4, <1>5, <1>6, <1>7, <1>8, <1>9, OtherMoveInv

\* WaitForSemaphore on the Counter: whoever gives up is counted, and the
\* Counter is not locked, so that the decrement undoes the increment.
LEMMA GiveUpInv ==
  ASSUME Inv, NEW c \in CPU, GiveUp(c)
  PROVE  Inv'
<1>1. /\ pc[c] = "giveUp" /\ Counter # 0 /\ Counter' = Counter - 1
      /\ pc' = [pc EXCEPT ![c] = "leave"]
      /\ UNCHANGED <<mode, InsideSmm, AllCpusInSync, BspIndex, Run, Present, owed, Busy,
                     CurrentlyExecutingCpu, bsp, ApCount>>
  BY DEF GiveUp, Goto, local, task
<1>2. /\ "giveUp" \in ApWaiting /\ "giveUp" \in Counted /\ "giveUp" \notin ApIn
      /\ "giveUp" \notin BspMain /\ "leave" \notin BspMain /\ "leave" \notin Aps
      /\ "leave" \notin Counted /\ "leave" \notin ApIn /\ "leave" \in Places
  BY PlacesApart DEF ApWaiting, Counted, Aps, BspMain, Places
<1>3. OtherMove(c, "leave")
  BY <1>1, <1>2 DEF OtherMove
<1>4. Types'
  BY <1>1, <1>2 DEF Inv, Types
<1>5. Run'[c] = 0 /\ owed'[c] = 0 /\ ~Present'[c] /\ "leave" \notin PresentAt
  BY <1>1, <1>2 DEF Inv, ApsOK, PresentOK, PresentAt, Aps
<1>6. SignalsOK'
  BY <1>1, <1>2, <1>3, SignalsFrame DEF Signalled
<1>7. ASSUME NEW b \in CPU, pc[b] \in BspMain
      PROVE  ~Locks(pc[b])
  <2>1. Meets(pc[b], pc[c]) /\ MainOK(b)
    BY <1>1, <1>2, <1>7 DEF Inv, ApsOK, Aps, BspOK
  <2>2. Unsettled(pc[b])
    BY <1>1, <2>1 DEF Meets
  <2> QED BY <2>2 DEF Unsettled, Locks, BspProgram, BspCore, BspExit
<1>8. CounterOK'
  <2>0. pc \in [CPU -> Places] /\ pc[c] \in Counted
    BY <1>1, <1>2 DEF Inv, Types
  <2>1. Count(pc, Counted) = Count(pc', Counted) + 1
    BY <1>1, <1>2, <2>0, PcMove
  <2>2. Counter = Count(pc, Counted)
    BY <1>7 DEF Inv, CounterOK
  <2>3. Counter' = Count(pc', Counted) /\ Counter' # Top
    BY <1>1, <2>1, <2>2, CountBelowTop
  <2>4. \A d \in CPU : pc'[d] \in BspMain => ~Locks(pc[d])'
    BY <1>1, <1>2, <1>7, ModeFrame DEF Inv, Types
  <2> QED BY <2>3, <2>4 DEF CounterOK
<1> QED BY <1>2, <1>3, <1>4, <1>5, <1>6, <1>8, OtherMoveInv DEF Aps

\* The BSP is there: the processor remembers which one.
LEMMA BspAvailableInv ==
  ASSUME Inv, NEW c \in CPU, BspAvailable(c)
  PROVE  Inv'
<1>1. /\ pc[c] \in {"timer1", "timer2"} /\ InsideSmm
      /\ bsp' = [bsp EXCEPT ![c] = BspIndex]
      /\ pc' = [pc EXCEPT ![c] = "present"]
      /\ UNCHANGED <<mode, Counter, InsideSmm, AllCpusInSync, BspIndex, Run, Present, owed, Busy,
                     CurrentlyExecutingCpu, ApCount>>
  BY DEF BspAvailable, Goto, sync, task
<1>2. /\ pc[c] \in ApWaiting /\ pc[c] \in Aps /\ pc[c] \notin ApIn /\ pc[c] \notin BspMain
      /\ "present" \in ApIn /\ "present" \in Aps /\ "present" \notin BspMain
      /\ "present" \notin ApWaiting /\ "present" \in Places
  BY <1>1, PlacesApart DEF ApWaiting, ApIn, Aps, BspMain, Places
<1>3. OtherMove(c, "present")
  BY <1>1, <1>2 DEF OtherMove, Inv, Types
<1>4. Types'
  BY <1>1, <1>2 DEF Inv, Types
<1>5. ~Busy[c] /\ Run[c] = 0 /\ owed[c] = 0 /\ ~Present[c] /\ "present" \notin PresentAt
  BY <1>1, <1>2 DEF Inv, ApsOK, PresentOK, PresentAt
<1>6. CounterOK'
  BY <1>1, <1>2, <1>3, CounterFrame
<1>7. SignalsOK'
  BY <1>1, <1>2, <1>3, SignalsFrame DEF Signalled
<1>8. PICK b \in CPU : pc[b] \in Inside
  BY <1>1 DEF Inv, BspOK
<1>9. pc[b] \in BspMain /\ MainOK(b) /\ Meets(pc[b], pc[c]) /\ pc[b] \notin {"open", "enter"}
  BY <1>2, <1>8, PlacesApart DEF Inv, BspOK, ApsOK
<1>10. BspIndex = b /\ \A d \in CPU : pc[d] \in BspMain => d = b
  BY <1>9 DEF MainOK, Inv, BspOK
<1>11. Arrivals(pc[b])
  BY <1>1, <1>9 DEF Meets
<1>12. Meets(pc[b], "present")
  BY <1>11 DEF Meets
<1>13. ApOK(pc[b], c)'
  <2>1. pc'[b] = pc[b] /\ pc'[c] = "present"
    BY <1>1, <1>2, <1>9 DEF Inv, Types
  <2>2. pc[b] \notin {"schedule", "release"}
    BY <1>9, <1>11 DEF MainOK, Arrivals, Gather
  <2> QED BY <1>1, <1>5, <2>1, <2>2 DEF ApOK, Released
<1>14. bsp'[c] = b
  BY <1>1, <1>10 DEF Inv, Types
<1> QED BY <1>1, <1>2, <1>3, <1>4, <1>5, <1>6, <1>7, <1>9, <1>10, <1>12, <1>13, <1>14, OtherMoveInv

\* What has to be shown for a step of an AP inside APHandler.
LEMMA ApStep ==
  ASSUME Inv, NEW c \in CPU, NEW b \in CPU, NEW q \in ApIn,
         pc[c] \in ApIn, pc[b] \in BspMain, bsp[c] = b,
         OtherMove(c, q), Types', bsp' = bsp, Counter' = Counter,
         Present'[c] <=> q \in PresentAt,
         Meets(pc[b], q), ApOK(pc[b], c)', SignalsOK'
  PROVE  Inv'
<1>1. q \in Aps /\ pc[c] \in Aps /\ q \notin ApWaiting
  BY PlacesApart DEF Aps
<1>2. CounterOK'
  BY <1>1, CounterFrame
<1>3. \A d \in CPU : pc[d] \in BspMain => d = b
  BY DEF Inv, BspOK
<1> QED BY <1>1, <1>2, <1>3, OtherMoveInv

\* An AP signals the BSP: its semaphore counts one more.
LEMMA SignalStep ==
  ASSUME Inv, NEW c \in CPU, NEW b \in CPU, NEW q, OtherMove(c, q),
         pc[b] \in BspMain \ {"absent", "gone"},
         pc[c] \notin Signalled(pc[b]), q \in Signalled(pc[b]),
         Run' = [Run EXCEPT ![b] = IF @ = Top THEN Top ELSE @ + 1]
  PROVE  SignalsOK'
<1> USE DEF Inv, OtherMove
<1>1. pc'[c] = q /\ \A d \in CPU \ {c} : pc'[d] = pc[d]
  BY DEF Types
<1>2. \A d \in CPU : pc'[d] \in BspMain => d = b /\ pc'[d] = pc[d]
  BY <1>1 DEF BspOK
<1>3. c # b /\ pc'[b] = pc[b]
  BY <1>1
<1>4. Run[b] = Count(pc, Signalled(pc[b]))
  BY DEF SignalsOK
<1>5. pc \in [CPU -> Places] /\ Run \in [CPU -> Nat]
  BY DEF Types
<1>6. Count(pc', Signalled(pc[b])) = Count(pc, Signalled(pc[b])) + 1
  BY <1>5, PcMove
<1>7. Run'[b] = Count(pc', Signalled(pc[b]))
  BY <1>4, <1>5, <1>6, CountBelowTop
<1>8. Signalled(pc[b])' = Signalled(pc[b])
  BY <1>3, ModeFrame
<1>9. {"absent", "gone"} \subseteq BspMain
  BY DEF BspMain, BspAt, BspExit
<1> QED BY <1>2, <1>3, <1>7, <1>8, <1>9 DEF SignalsOK

\* The AP sets its Present flag.
LEMMA MarkPresentInv ==
  ASSUME Inv, NEW c \in CPU, MarkPresent(c)
  PROVE  Inv'
<1> DEFINE q == IF GatherFirst THEN "notify" ELSE "wait"
<1>1. /\ pc[c] = "present" /\ Present' = [Present EXCEPT ![c] = TRUE]
      /\ pc' = [pc EXCEPT ![c] = q]
      /\ UNCHANGED <<mode, Counter, InsideSmm, AllCpusInSync, BspIndex, Run, owed, Busy,
                     CurrentlyExecutingCpu, ApCount, bsp>>
  BY DEF MarkPresent, Goto, sync, task, local
<1>2. pc[c] \in ApIn /\ q \in ApIn /\ q \in PresentAt /\ q \in Places
  BY <1>1 DEF ApIn, PresentAt, Places
<1>3. PICK b \in CPU : /\ pc[b] \in BspMain /\ bsp[c] = b /\ b # c
                      /\ Meets(pc[b], pc[c]) /\ ApOK(pc[b], c) /\ MainOK(b)
  BY <1>2, TheBsp
<1>4. OtherMove(c, q)
  BY <1>1, <1>2, PlacesApart DEF OtherMove, Inv, Types, BspMain, BspAt, BspExit
<1>5. Types'
  BY <1>1, <1>2 DEF Inv, Types
<1>6. Arrivals(pc[b])
  BY <1>1, <1>3 DEF Meets
<1>7. mode.mtrr => GatherFirst
  BY DEF GatherFirst
<1>8. Meets(pc[b], q)
  BY <1>6, <1>7 DEF Meets, Arrivals, Gather, Tasks, BspCore
<1>9. pc[b] \notin {"schedule", "release", "tasks", "program", "programmed"}
  BY <1>3, <1>6 DEF Arrivals, MainOK, Gather, BspCore
<1>10. ApOK(pc[b], c)'
  <2>1. pc'[b] = pc[b] /\ pc'[c] = q
    BY <1>1, <1>3 DEF Inv, Types
  <2>2. owed[c] = 0 /\ ~Busy[c] /\ Run[c] = 0
    BY <1>1, <1>3, <1>9 DEF ApOK, Released
  <2> QED BY <1>1, <1>9, <2>1, <2>2 DEF ApOK, Released
<1>11. SignalsOK'
  <2>1. pc[c] \notin Signalled(pc[b]) /\ q \notin Signalled(pc[b])
    BY <1>1, <1>7, <1>9 DEF Signalled
  <2>2. \A d \in CPU : pc[d] \in BspMain => d = b
    BY <1>3 DEF Inv, BspOK
  <2>3. pc[c] \notin {"reset", "resetDone"} /\ q \notin {"reset", "resetDone"}
    BY <1>1
  <2> HIDE DEF q
  <2> QED BY <1>1, <1>4, <2>1, <2>2, <2>3, SignalsFrame
<1>12. Present'[c]
  BY <1>1 DEF Inv, Types
<1> HIDE DEF q
<1> QED BY <1>1, <1>2, <1>3, <1>4, <1>5, <1>8, <1>10, <1>11, <1>12, ApStep

\* An AP gets past its semaphore only when the BSP has released it.
LEMMA ApWaitInv ==
  ASSUME Inv, NEW c \in CPU,
         ApBackupMtrrs(c) \/ ApReplaceMtrrs(c) \/ ApWakeUp(c) \/ ApRestoreMtrrs(c) \/ ApReset(c)
  PROVE  Inv'
<1>1. PICK q \in {"backedUp", "replaced", "check", "restored", "resetDone"} :
        /\ pc' = [pc EXCEPT ![c] = q]
        /\ \/ pc[c] = "backup" /\ q = "backedUp"
           \/ pc[c] = "replace" /\ q = "replaced"
           \/ pc[c] = "wait" /\ q = "check"
           \/ pc[c] = "restore" /\ q = "restored"
           \/ pc[c] = "reset" /\ q = "resetDone"
        /\ Present' = [Present EXCEPT ![c] = (q # "resetDone")]
  <2>1. pc[c] \in PresentAt => Present = [Present EXCEPT ![c] = TRUE]
    BY DEF Inv, Types, PresentOK
  <2>2. {"backup", "replace", "wait", "restore"} \subseteq PresentAt
    BY DEF PresentAt, ApIn
  <2> QED BY <2>1, <2>2
        DEF ApBackupMtrrs, ApReplaceMtrrs, ApWakeUp, ApRestoreMtrrs, ApReset, Goto
<1>2. /\ Run[c] > 0 /\ Run' = [Run EXCEPT ![c] = @ - 1]
      /\ UNCHANGED <<mode, Counter, InsideSmm, AllCpusInSync, BspIndex, owed, Busy,
                     CurrentlyExecutingCpu, ApCount, bsp>>
  BY DEF ApBackupMtrrs, ApReplaceMtrrs, ApWakeUp, ApRestoreMtrrs, ApReset, WaitForSemaphore,
    sync, task, local
<1>3. /\ pc[c] \in ApIn /\ q \in ApIn /\ q \in Places /\ (q \in PresentAt <=> q # "resetDone")
      /\ pc[c] \notin BspMain /\ q \notin BspMain /\ q # "unsync"
  BY <1>1, PlacesApart DEF ApIn, PresentAt, Places, BspMain, BspAt, BspExit
<1>4. PICK b \in CPU : /\ pc[b] \in BspMain /\ bsp[c] = b /\ b # c
                      /\ Meets(pc[b], pc[c]) /\ ApOK(pc[b], c) /\ MainOK(b)
  BY <1>3, TheBsp
<1>5. pc \in [CPU -> Places] /\ Run \in [CPU -> Nat] /\ Present \in [CPU -> BOOLEAN]
  BY DEF Inv, Types
<1>6. Run[c] = 1 /\ Run'[c] = 0 /\ \A d \in CPU \ {c} : Run'[d] = Run[d]
  BY <1>2, <1>4, <1>5 DEF ApOK
<1>7. OtherMove(c, q)
  BY <1>1, <1>2, <1>3, <1>5, <1>6 DEF OtherMove
<1>8. Types'
  BY <1>1, <1>2, <1>3, <1>6 DEF Inv, Types
<1>9. \/ pc[b] \in {"save", "saved"} /\ pc[c] = "backup"
      \/ pc[b] \in {"program", "programmed"} /\ pc[c] = "replace"
      \/ pc[b] = "tasks" /\ pc[c] = "wait"
      \/ pc[b] \in {"osMtrrs", "osDone"} /\ pc[c] = "restore"
      \/ pc[b] \in {"absent", "gone"} /\ pc[c] = "reset"
      \/ pc[b] \in Tasks \ {"release", "schedule"} /\ pc[c] = "wait" /\ owed[c] = 1
  BY <1>4, <1>6 DEF ApOK, Released
<1>10. Meets(pc[b], q)
  BY <1>1, <1>4, <1>9 DEF Meets
<1>11. pc'[b] = pc[b] /\ pc'[c] = q
  BY <1>1, <1>4, <1>5
<1>12. ApOK(pc[b], c)'
  <2>1. /\ owed'[c] = owed[c] /\ Busy'[c] = Busy[c]
        /\ pc[b] \in Tasks => q = "check" /\ pc[b] \notin {"release", "schedule"}
    BY <1>1, <1>2, <1>9 DEF Tasks, BspCore
  <2>2. q \notin {"wait", "run", "ran"} /\ ~Released(pc[b], q)
    BY <1>1, <1>9 DEF Released
  <2>3. pc[b] \notin Tasks => owed[c] = 0
    BY <1>4 DEF ApOK
  <2>4. pc[b] \in Tasks => owed[c] = 1
    BY <1>9 DEF Tasks, BspCore
  <2>5. "schedule" \in Tasks /\ "release" \in Tasks
    BY DEF Tasks, BspCore
  <2> QED BY <1>1, <1>4, <1>6, <1>9, <1>11, <2>1, <2>2, <2>3, <2>4, <2>5 DEF ApOK, Released
<1>13. SignalsOK'
  <2>1. pc[c] \notin Signalled(pc[b]) /\ q \notin Signalled(pc[b])
    BY <1>1, <1>4, <1>9 DEF Signalled, Gather, Tasks, BspCore
  <2>2. \A d \in CPU : pc[d] \in BspMain => d = b
    BY <1>4 DEF Inv, BspOK
  <2>3. pc[c] \in {"reset", "resetDone"} <=> q \in {"reset", "resetDone"}
    BY <1>1
  <2>4. Run'[b] = Run[b]
    BY <1>4, <1>6
  <2> QED BY <1>4, <1>7, <2>1, <2>2, <2>3, <2>4, SignalsFrame
<1>14. Present'[c] <=> q \in PresentAt
  BY <1>1, <1>3, <1>5
<1> QED BY <1>2, <1>3, <1>4, <1>7, <1>8, <1>10, <1>12, <1>13, <1>14, ApStep

\* An AP that is woken looks at InsideSmm, runs its procedure, and gives up
\* its BUSY lock.
LEMMA ApTaskInv ==
  ASSUME Inv, NEW c \in CPU, ApCheckExit(c) \/ ApRunProcedure(c) \/ ApRelease(c)
  PROVE  Inv'
<1>1. PICK q \in {"run", "ready", "restored", "ran", "wait"} :
        /\ pc' = [pc EXCEPT ![c] = q]
        /\ \/ /\ pc[c] = "check" /\ q = (IF InsideSmm THEN "run" ELSE IF mode.mtrr THEN "ready" ELSE "restored")
              /\ UNCHANGED <<owed, Busy>>
           \/ /\ pc[c] = "run" /\ q = "ran" /\ UNCHANGED Busy
              /\ owed' = [owed EXCEPT ![c] = @ - 1]
           \/ /\ pc[c] = "ran" /\ q = "wait" /\ UNCHANGED owed
              /\ Busy' = [Busy EXCEPT ![c] = FALSE]
  BY DEF ApCheckExit, ApRunProcedure, ApRelease, Goto, task
<1>2. UNCHANGED <<mode, Counter, InsideSmm, AllCpusInSync, BspIndex, Run, Present,
                  CurrentlyExecutingCpu, ApCount, bsp>>
  BY DEF ApCheckExit, ApRunProcedure, ApRelease, sync, local
<1>3. /\ pc[c] \in ApIn /\ q \in ApIn /\ q \in Places /\ q \in PresentAt /\ pc[c] \in PresentAt
      /\ pc[c] \notin BspMain /\ q \notin BspMain /\ q # "unsync"
  BY <1>1, PlacesApart DEF ApIn, PresentAt, Places, BspMain, BspAt, BspExit
<1>4. PICK b \in CPU : /\ pc[b] \in BspMain /\ bsp[c] = b /\ b # c
                      /\ Meets(pc[b], pc[c]) /\ ApOK(pc[b], c) /\ MainOK(b)
  BY <1>3, TheBsp
<1>5. pc \in [CPU -> Places] /\ owed \in [CPU -> Nat] /\ Busy \in [CPU -> BOOLEAN] /\ mode \in ModeType
  BY DEF Inv, Types
<1>6. pc[b] \in (Tasks \ {"schedule", "release"}) \cup {"tasks"} /\ (pc[b] = "tasks" => pc[c] = "check")
  BY <1>1, <1>4 DEF Meets, Tasks, BspCore
<1>7. pc[b] = "tasks" => ~InsideSmm
  BY <1>4 DEF MainOK, Inside, BspGather, BspProgram, BspCore
<1>8. pc[b] # "tasks" => InsideSmm /\ pc[b] \in Tasks
  BY <1>4, <1>6 DEF MainOK, Inside, Tasks
<1>9. Run[c] = 0 /\ "tasks" \notin Tasks
  BY <1>1, <1>4 DEF ApOK, Released, Tasks, BspCore
<1>10. pc[c] = "run" => owed[c] = 1
  BY <1>4, <1>6 DEF ApOK
<1>11. pc[c] = "ran" => owed[c] = 0 /\ Busy[c]
  BY <1>4 DEF ApOK
<1>12. OtherMove(c, q)
  BY <1>1, <1>2, <1>3, <1>5 DEF OtherMove
<1>13. Types'
  <2>1. owed' \in [CPU -> Nat]
    BY <1>1, <1>5, <1>10
  <2>2. Busy' \in [CPU -> BOOLEAN] /\ pc' \in [CPU -> Places]
    BY <1>1, <1>3, <1>5
  <2> QED BY <1>2, <2>1, <2>2 DEF Inv, Types
<1>14. Meets(pc[b], q)
  <2>1. q \in {"run", "ran"} => pc[b] \in Tasks \ {"schedule", "release"}
    BY <1>1, <1>6, <1>7
  <2>2. q = "wait" => pc[b] \in Tasks
    BY <1>1, <1>6
  <2>3. q = "ready" => mode.mtrr /\ pc[b] = "tasks"
    BY <1>1, <1>8
  <2>4. q = "restored" => ~mode.mtrr /\ pc[b] = "tasks"
    BY <1>1, <1>8
  <2> QED BY <1>1, <2>1, <2>2, <2>3, <2>4 DEF Meets
<1>15. pc'[b] = pc[b] /\ pc'[c] = q
  BY <1>1, <1>4, <1>5
<1>16. ApOK(pc[b], c)'
  <2>1. ~Released(pc[b], q)
    BY <1>1, <1>6, <1>9, <1>8 DEF Released, Tasks, BspCore
  <2>2. CASE pc[c] = "check"
    <3>1. CASE pc[b] = "tasks"
      BY <1>1, <1>2, <1>4, <1>7, <1>9, <1>15, <2>1, <2>2, <3>1 DEF ApOK, Released
    <3>2. CASE pc[b] # "tasks"
      <4>1. q = "run" /\ owed[c] = 1 /\ Busy[c]
        BY <1>1, <1>4, <1>8, <2>2, <3>2 DEF ApOK
      <4> QED BY <1>1, <1>2, <1>6, <1>8, <1>9, <1>15, <2>1, <2>2, <3>2, <4>1 DEF ApOK, Released
    <3> QED BY <3>1, <3>2
  <2>3. CASE pc[c] = "run"
    <3>1. Busy[c] /\ q = "ran" /\ owed'[c] = 0
      BY <1>1, <1>4, <1>5, <1>10, <2>3 DEF ApOK
    <3> QED BY <1>1, <1>2, <1>6, <1>8, <1>9, <1>15, <2>1, <2>3, <3>1 DEF ApOK, Released
  <2>4. CASE pc[c] = "ran"
    <3>1. ~Busy'[c] /\ q = "wait" /\ owed'[c] = 0
      BY <1>1, <1>5, <1>11, <2>4
    <3> QED BY <1>1, <1>2, <1>6, <1>8, <1>9, <1>15, <2>1, <2>4, <3>1 DEF ApOK, Released
  <2> QED BY <1>1, <2>2, <2>3, <2>4
<1>17. SignalsOK'
  <2>1. pc[c] \notin Signalled(pc[b]) /\ q \notin Signalled(pc[b])
    BY <1>1, <1>6, <1>7 DEF Signalled, Gather, Tasks, BspCore
  <2>2. \A d \in CPU : pc[d] \in BspMain => d = b
    BY <1>4 DEF Inv, BspOK
  <2>3. pc[b] \notin {"absent", "gone"}
    BY <1>6 DEF Tasks, BspCore
  <2> QED BY <1>2, <1>4, <1>12, <2>1, <2>2, <2>3, SignalsFrame
<1>18. Present'[c] <=> q \in PresentAt
  BY <1>2, <1>3 DEF Inv, PresentOK
<1> QED BY <1>2, <1>3, <1>4, <1>12, <1>13, <1>14, <1>16, <1>17, <1>18, ApStep

\* The last signal of an AP, with which it leaves APHandler.
LEMMA LastSignalInv ==
  ASSUME Inv, NEW c \in CPU, ApSignal(c), pc[c] = "resetDone"
  PROVE  Inv'
<1>1. /\ pc' = [pc EXCEPT ![c] = "leave"]
      /\ Run' = [Run EXCEPT ![bsp[c]] = IF @ = Top THEN Top ELSE @ + 1]
      /\ UNCHANGED <<mode, Counter, InsideSmm, AllCpusInSync, BspIndex, Present,
                     CurrentlyExecutingCpu, ApCount, bsp, owed, Busy>>
  BY DEF ApSignal, ReleaseSemaphore, Goto, sync, local, task
<1>2. /\ pc[c] \in ApIn /\ pc[c] \notin BspMain /\ "leave" \in Places /\ "leave" \notin BspMain
      /\ "leave" \notin Aps /\ "leave" \notin ApIn /\ "leave" \notin ApWaiting
      /\ "leave" \notin PresentAt /\ pc[c] \notin PresentAt
  BY PlacesApart DEF ApIn, Places, BspMain, Aps, ApWaiting, PresentAt, BspAt, BspGather, BspProgram,
    BspCore, BspExit
<1>3. PICK b \in CPU : /\ pc[b] \in BspMain /\ bsp[c] = b /\ b # c
                      /\ Meets(pc[b], pc[c]) /\ ApOK(pc[b], c) /\ MainOK(b)
  BY <1>2, TheBsp
<1>4. pc[b] \in {"absent", "gone"}
  BY <1>3 DEF Meets
<1>5. \A d \in CPU : pc[d] \in BspMain => d = b
  BY <1>3 DEF Inv, BspOK
<1>6. pc \in [CPU -> Places] /\ Run \in [CPU -> Nat]
  BY DEF Inv, Types
<1>7. pc'[c] = "leave" /\ \A d \in CPU \ {c} : pc'[d] = pc[d]
  BY <1>1, <1>6
<1>8. \A d \in CPU \ {b} : Run'[d] = Run[d]
  BY <1>1, <1>3, <1>6
<1>9. Run[c] = 0 /\ owed[c] = 0
  BY <1>3, <1>4 DEF ApOK, Released, Tasks, BspCore
<1>10. OtherMove(c, "leave")
  BY <1>1, <1>2, <1>3, <1>8 DEF OtherMove
<1>11. Run[b] + Count(pc, {"reset", "resetDone"}) = ApCount
  BY <1>4 DEF Inv, SignalsOK
<1>12. /\ Count(pc, {"reset", "resetDone"}) = Count(pc', {"reset", "resetDone"}) + 1
       /\ Count(pc', {"reset", "resetDone"}) \in Nat
  BY <1>1, <1>6, PcMove, CountType
<1>13. Run'[b] = Run[b] + 1
  <2>1. ApCount \in Nat /\ ApCount <= NumberOfCpus /\ NumberOfCpus \in Nat
    BY CountType DEF Inv, Types
  <2>2. Run[b] < Top
    BY <1>6, <1>11, <1>12, <2>1, ConstantsAssumption DEF NumberOfCpus
  <2> QED BY <1>1, <1>3, <1>6, <2>2
<1>14. Types'
  <2>1. Run' \in [CPU -> Nat]
    BY <1>1, <1>3, <1>6, ConstantsAssumption
  <2>2. pc' \in [CPU -> Places]
    BY <1>1, <1>2, <1>6
  <2> QED BY <1>1, <2>1, <2>2 DEF Inv, Types
<1>15. \A d \in CPU : pc'[d] \in BspMain => d = b /\ pc'[d] = pc[d]
  BY <1>2, <1>5, <1>7
<1>16. SignalsOK'
  <2>1. Run'[b] + Count(pc', {"reset", "resetDone"}) = ApCount'
    BY <1>1, <1>6, <1>11, <1>12, <1>13
  <2>2. {"absent", "gone"} \subseteq BspMain
    BY DEF BspMain, BspAt, BspExit
  <2> QED BY <1>4, <1>15, <2>1, <2>2 DEF SignalsOK
<1>17. CounterOK'
  <2>1. Locks(pc[b]) /\ Locks(pc[b])'
    BY <1>4, <1>7, <1>3 DEF Locks, BspExit
  <2>2. Counter = Top
    BY <1>3, <2>1 DEF Inv, CounterOK
  <2>3. pc'[b] \in BspMain
    BY <1>3, <1>7
  <2> QED BY <1>1, <1>4, <1>15, <2>1, <2>2, <2>3 DEF CounterOK
<1>18. ~Present'[c]
  BY <1>1, <1>2 DEF Inv, PresentOK
<1>19. Run'[c] = 0 /\ owed'[c] = 0
  BY <1>1, <1>3, <1>8, <1>9
<1> QED BY <1>2, <1>10, <1>14, <1>16, <1>17, <1>18, <1>19, OtherMoveInv

\* The other signals of an AP to the BSP.
LEMMA ApSignalInv ==
  ASSUME Inv, NEW c \in CPU, ApSignal(c), pc[c] # "resetDone"
  PROVE  Inv'
<1>1. PICK q \in {"backup", "wait", "replace", "restore", "reset"} :
        /\ pc' = [pc EXCEPT ![c] = q]
        /\ \/ pc[c] = "notify" /\ q = IF mode.mtrr THEN "backup" ELSE "wait"
           \/ pc[c] = "backedUp" /\ q = "replace"
           \/ pc[c] = "replaced" /\ q = "wait"
           \/ pc[c] = "ready" /\ q = "restore"
           \/ pc[c] = "restored" /\ q = "reset"
  BY DEF ApSignal, Goto
<1>2. /\ Run' = [Run EXCEPT ![bsp[c]] = IF @ = Top THEN Top ELSE @ + 1]
      /\ UNCHANGED <<mode, Counter, InsideSmm, AllCpusInSync, BspIndex, Present,
                     CurrentlyExecutingCpu, ApCount, bsp, owed, Busy>>
  BY DEF ApSignal, ReleaseSemaphore, sync, local, task
<1>3. /\ pc[c] \in ApIn /\ q \in ApIn /\ q \in Places /\ q \in PresentAt /\ pc[c] \in PresentAt
      /\ pc[c] \notin BspMain /\ q \notin BspMain /\ q # "unsync"
  BY <1>1, PlacesApart DEF ApIn, PresentAt, Places, BspMain, BspAt, BspExit
<1>4. PICK b \in CPU : /\ pc[b] \in BspMain /\ bsp[c] = b /\ b # c
                      /\ Meets(pc[b], pc[c]) /\ ApOK(pc[b], c) /\ MainOK(b)
  BY <1>3, TheBsp
<1>5. pc \in [CPU -> Places] /\ Run \in [CPU -> Nat] /\ mode \in ModeType
  BY DEF Inv, Types
<1>6. \A d \in CPU \ {b} : Run'[d] = Run[d]
  BY <1>2, <1>4, <1>5
<1>7. OtherMove(c, q)
  BY <1>1, <1>2, <1>3, <1>4, <1>6 DEF OtherMove
<1>8. Types'
  <2>1. Run' \in [CPU -> Nat]
    BY <1>2, <1>4, <1>5, ConstantsAssumption
  <2>2. pc' \in [CPU -> Places]
    BY <1>1, <1>3, <1>5
  <2> QED BY <1>2, <2>1, <2>2 DEF Inv, Types
<1>9. \/ /\ pc[c] = "notify" /\ GatherFirst /\ pc[b] \in Gather
         /\ q = IF mode.mtrr THEN "backup" ELSE "wait"
      \/ pc[c] = "backedUp" /\ q = "replace" /\ mode.mtrr /\ pc[b] \in {"save", "saved"}
      \/ pc[c] = "replaced" /\ q = "wait" /\ mode.mtrr /\ pc[b] \in {"program", "programmed"}
      \/ pc[c] = "ready" /\ q = "restore" /\ mode.mtrr /\ pc[b] = "tasks"
      \/ pc[c] = "restored" /\ q = "reset" /\ ~mode.mtrr /\ pc[b] = "tasks"
      \/ pc[c] = "restored" /\ q = "reset" /\ mode.mtrr /\ pc[b] \in {"osMtrrs", "osDone"}
  BY <1>1, <1>4 DEF Meets
<1>10. Meets(pc[b], q)
  BY <1>9 DEF Meets
<1>11. pc[c] \notin Signalled(pc[b]) /\ q \in Signalled(pc[b]) /\ ~Released(pc[b], q)
       /\ pc[b] \notin Tasks
  BY <1>3, <1>9 DEF Signalled, Released, Gather, Tasks, BspCore
<1>12. pc[b] \notin {"absent", "gone"}
  BY <1>9 DEF Gather
<1>13. SignalsOK'
  BY <1>2, <1>4, <1>7, <1>11, <1>12, SignalStep
<1>14. ApOK(pc[b], c)'
  <2>1. pc'[b] = pc[b] /\ pc'[c] = q /\ Run'[c] = Run[c] /\ owed'[c] = owed[c] /\ Busy'[c] = Busy[c]
    BY <1>1, <1>2, <1>4, <1>5, <1>6
  <2>2. Run[c] = 0 /\ owed[c] = 0 /\ ~Busy[c] /\ pc[b] \notin {"schedule", "release"}
    BY <1>4, <1>9, <1>11 DEF ApOK, Released, Tasks, BspCore
  <2>3. q # "ran"
    BY <1>1
  <2> QED BY <1>11, <2>1, <2>2, <2>3 DEF ApOK, Released
<1>15. Present'[c] <=> q \in PresentAt
  BY <1>2, <1>3 DEF Inv, PresentOK
<1> QED BY <1>2, <1>3, <1>4, <1>7, <1>8, <1>10, <1>13, <1>14, <1>15, ApStep

-----------------------------------------------------------------------------
(* BSPHandler *)

\* The BSP b goes from one place to another.
BspMove(b, q) ==
  /\ pc[b] \in BspMain /\ q \in BspMain
  /\ pc' = [pc EXCEPT ![b] = q]
  /\ UNCHANGED <<mode, bsp>>

\* What such a step means for the others.
LEMMA BspMoveFacts ==
  ASSUME Inv, NEW b \in CPU, NEW q, BspMove(b, q)
  PROVE  /\ pc'[b] = q /\ \A d \in CPU \ {b} : pc'[d] = pc[d] /\ pc[d] \notin BspMain
         /\ \A d \in CPU : /\ pc'[d] \in BspMain <=> d = b
                           /\ pc'[d] \in ApIn <=> pc[d] \in ApIn
                           /\ pc'[d] \in ApWaiting <=> pc[d] \in ApWaiting
                           /\ pc'[d] \in Aps <=> pc[d] \in Aps
                           /\ pc[d] \in Aps => d # b
         /\ Count(pc', Aps) = Count(pc, Aps) /\ Count(pc', Counted) = Count(pc, Counted)
         /\ \A p : Count(pc', Signalled(p)) = Count(pc, Signalled(p))
         /\ Count(pc', {"reset", "resetDone"}) = Count(pc, {"reset", "resetDone"})
<1>1. pc \in [CPU -> Places] /\ pc[b] \in BspMain /\ q \in BspMain /\ pc' = [pc EXCEPT ![b] = q]
  BY DEF Inv, Types, BspMove
<1>2. pc'[b] = q /\ \A d \in CPU \ {b} : pc'[d] = pc[d]
  BY <1>1
<1>3. \A d \in CPU \ {b} : pc[d] \notin BspMain
  BY <1>1 DEF Inv, BspOK
<1>4. /\ \A p \in BspMain : p \notin ApIn /\ p \notin ApWaiting /\ p \notin Aps /\ p \in Counted
      /\ \A p : Signalled(p) \subseteq ApIn
      /\ {"reset", "resetDone"} \subseteq ApIn
  BY PlacesApart DEF BspMain, Aps, Counted, Signalled, ApIn
<1>5. /\ pc[b] \notin ApIn /\ q \notin ApIn /\ pc[b] \notin ApWaiting /\ q \notin ApWaiting
      /\ pc[b] \notin Aps /\ q \notin Aps /\ pc[b] \in Counted /\ q \in Counted
      /\ \A p : pc[b] \notin Signalled(p) /\ q \notin Signalled(p)
      /\ pc[b] \notin {"reset", "resetDone"} /\ q \notin {"reset", "resetDone"}
  BY <1>1, <1>4
<1>6. /\ Count(pc', Aps) = Count(pc, Aps) /\ Count(pc', Counted) = Count(pc, Counted)
      /\ \A p : Count(pc', Signalled(p)) = Count(pc, Signalled(p))
      /\ Count(pc', {"reset", "resetDone"}) = Count(pc, {"reset", "resetDone"})
  BY <1>1, <1>5, PcMove
<1> QED BY <1>1, <1>2, <1>3, <1>5, <1>6

\* What has to be shown for such a step.
LEMMA BspMoveInv ==
  ASSUME Inv, NEW b \in CPU, NEW q, BspMove(b, q), Types', ElectionOK', MainOK(b)',
         ~Unsettled(q) => \A c \in CPU : pc[c] # "unsync",
         \A c \in CPU : pc[c] \in Aps => Meets(q, pc[c]),
         \A c \in CPU : pc[c] \in ApIn => ApOK(pc[b], c)',
         \A c \in CPU \ {b} : pc[c] \notin ApIn => Run'[c] = Run[c],
         \A c \in CPU : pc[c] \notin ApIn => owed'[c] = owed[c],
         \A c \in CPU : pc[c] \in ApWaiting => Busy'[c] = Busy[c],
         \A c \in CPU \ {b} : Present'[c] = Present[c],
         Present'[b] <=> q \in PresentAt,
         CounterOK', SignalsOK'
  PROVE  Inv'
<1> USE DEF Inv
<1>0. mode' = mode /\ bsp' = bsp /\ pc[b] \in BspMain /\ q \in BspMain
  BY DEF BspMove
<1>1. pc'[b] = q /\ \A d \in CPU \ {b} : pc'[d] = pc[d] /\ pc[d] \notin BspMain
  BY BspMoveFacts
<1>2. \A d \in CPU : /\ pc'[d] \in BspMain <=> d = b
                     /\ pc'[d] \in ApIn <=> pc[d] \in ApIn
                     /\ pc'[d] \in ApWaiting <=> pc[d] \in ApWaiting
                     /\ pc'[d] \in Aps <=> pc[d] \in Aps
                     /\ pc[d] \in Aps => d # b
  BY BspMoveFacts
<1>3. BspOK'
  <2>1. \A d \in CPU : pc'[d] \in BspMain => MainOK(d)'
    BY <1>2
  <2>2. \A d, e \in CPU : pc'[d] \in BspMain /\ pc'[e] \in BspMain => d = e
    BY <1>2
  <2>3. \A d, e \in CPU : pc'[d] \in BspMain /\ ~Unsettled(pc[d])' => pc'[e] # "unsync"
    <3> SUFFICES ASSUME NEW e \in CPU, ~Unsettled(pc[b])'
                 PROVE  pc'[e] # "unsync"
      BY <1>2
    <3>1. ~Unsettled(q)
      BY <1>0, <1>1, ModeFrame
    <3>2. q # "unsync"
      BY <1>0 DEF BspMain
    <3> QED BY <1>1, <3>1, <3>2
  <2>4. InsideSmm' => \E d \in CPU : pc'[d] \in Inside
    BY DEF MainOK
  <2> QED BY <2>1, <2>2, <2>3, <2>4 DEF BspOK
<1>4. ApsOK'
  <2>1. \A d \in CPU : pc'[d] \in ApIn => \E e \in CPU : pc'[e] \in BspMain /\ bsp'[d] = e
    <3> SUFFICES ASSUME NEW d \in CPU, pc[d] \in ApIn
                 PROVE  pc'[b] \in BspMain /\ bsp'[d] = b
      BY <1>2
    <3>1. PICK e \in CPU : pc[e] \in BspMain /\ bsp[d] = e
      BY DEF ApsOK
    <3> QED BY <1>0, <1>1, <3>1
  <2>2. \A d, e \in CPU : pc'[d] \in BspMain /\ pc'[e] \in Aps => Meets(pc[d], pc[e])'
    <3> SUFFICES ASSUME NEW e \in CPU, pc[e] \in Aps
                 PROVE  Meets(pc'[b], pc'[e])
      BY <1>0, <1>2, ModeFrame
    <3> QED BY <1>1, <1>2
  <2>3. \A d, e \in CPU : pc'[d] \in BspMain /\ pc'[e] \in ApIn => ApOK(pc[d], e)'
    BY <1>2
  <2>4. \A d \in CPU : pc'[d] \notin ApIn \cup BspMain => Run'[d] = 0
    BY <1>1, <1>2 DEF ApsOK
  <2>5. \A d \in CPU : pc'[d] \notin ApIn => owed'[d] = 0
    BY <1>2 DEF ApsOK
  <2>6. \A d \in CPU : pc'[d] \in ApWaiting => ~Busy'[d]
    BY <1>2 DEF ApsOK
  <2> QED BY <2>1, <2>2, <2>3, <2>4, <2>5, <2>6 DEF ApsOK
<1>5. PresentOK'
  BY <1>1 DEF PresentOK
<1> QED BY <1>3, <1>4, <1>5

\* The Counter is not touched and stays locked, or stays open.
LEMMA BspCounterFrame ==
  ASSUME Inv, NEW b \in CPU, NEW q, BspMove(b, q), UNCHANGED <<Counter, ApCount>>,
         Locks(q) <=> Locks(pc[b]),
         pc[b] \in {"absent", "gone", "open"} => q \in {"absent", "gone", "open"}
  PROVE  CounterOK'
<1>0. mode' = mode /\ bsp' = bsp /\ pc[b] \in BspMain /\ q \in BspMain
  BY DEF BspMove
<1>1. pc'[b] = q /\ \A d \in CPU \ {b} : pc'[d] = pc[d] /\ pc[d] \notin BspMain
  BY BspMoveFacts
<1>2. \A d \in CPU : pc'[d] \in BspMain <=> d = b
  BY BspMoveFacts
<1>3. Count(pc', Aps) = Count(pc, Aps) /\ Count(pc', Counted) = Count(pc, Counted)
  BY BspMoveFacts
<1>4. Locks(pc[b])' <=> Locks(q)
  BY <1>0, <1>1, ModeFrame
<1>5. Counter' = Top <=> \E d \in CPU : pc'[d] \in BspMain /\ Locks(pc[d])'
  BY <1>0, <1>1, <1>2, <1>4 DEF Inv, CounterOK
<1>6. Counter' # Top => Counter' = Count(pc', Counted)
  BY <1>3 DEF Inv, CounterOK
<1>7. pc'[b] \notin {"absent", "gone", "open"} /\ Locks(pc[b])' => ApCount' = Count(pc', Aps)
  BY <1>0, <1>1, <1>3, <1>4 DEF Inv, CounterOK
<1> QED BY <1>2, <1>5, <1>6, <1>7 DEF CounterOK

\* The Run semaphore of the BSP counts the APs that have signalled it.
LEMMA BspSignals ==
  ASSUME Inv, NEW b \in CPU, NEW q, BspMove(b, q), q \notin {"absent", "gone"},
         Run'[b] = Count(pc, Signalled(q))
  PROVE  SignalsOK'
<1>1. mode' = mode /\ pc'[b] = q /\ \A d \in CPU : pc'[d] \in BspMain <=> d = b
  BY BspMoveFacts DEF BspMove
<1>2. Count(pc', Signalled(q)) = Count(pc, Signalled(q)) /\ Signalled(q)' = Signalled(q)
  BY <1>1, BspMoveFacts, ModeFrame
<1>3. Signalled(pc[b])' = Signalled(q)
  BY <1>1, <1>2, ModeFrame
<1>4. {"absent", "gone"} \subseteq BspMain
  BY DEF BspMain, BspAt, BspExit
<1> QED BY <1>1, <1>2, <1>3, <1>4 DEF SignalsOK

\* It is not touched, and the same APs count as having signalled.
LEMMA BspSignalsFrame ==
  ASSUME Inv, NEW b \in CPU, NEW q, BspMove(b, q), Run'[b] = Run[b],
         pc[b] \notin {"absent", "gone"}, q \notin {"absent", "gone"},
         \A c \in CPU : pc[c] \in Aps => (pc[c] \in Signalled(q) <=> pc[c] \in Signalled(pc[b]))
  PROVE  SignalsOK'
<1>1. pc[b] \in BspMain
  BY DEF BspMove
<1>2. \A p : Signalled(p) \subseteq Aps
  BY DEF Signalled, Aps
<1>3. Count(pc, Signalled(q)) = Count(pc, Signalled(pc[b]))
  BY <1>2 DEF Count
<1>4. Run[b] = Count(pc, Signalled(pc[b]))
  BY <1>1 DEF Inv, SignalsOK
<1> QED BY <1>3, <1>4, BspSignals

\* What has to be shown for a step of the BSP that touches no semaphore and no
\* BUSY lock of an AP, and leaves the Counter alone.
LEMMA BspQuietInv ==
  ASSUME Inv, NEW b \in CPU, NEW q, BspMove(b, q),
         UNCHANGED <<Counter, ApCount, BspIndex, Run, owed>>,
         InsideSmm' \in BOOLEAN, AllCpusInSync' \in BOOLEAN, Busy' \in [CPU -> BOOLEAN],
         Present' \in [CPU -> BOOLEAN], CurrentlyExecutingCpu' \in CPU,
         \A c \in CPU \ {b} : Busy'[c] = Busy[c] /\ Present'[c] = Present[c],
         Present'[b] <=> q \in PresentAt,
         Locks(q) <=> Locks(pc[b]),
         pc[b] \notin {"absent", "gone", "open"}, q \notin {"absent", "gone", "open"},
         MainOK(b)',
         ~Unsettled(q) => \A c \in CPU : pc[c] # "unsync",
         \A c \in CPU : pc[c] \in Aps =>
            Meets(q, pc[c]) /\ (pc[c] \in Signalled(q) <=> pc[c] \in Signalled(pc[b])),
         \A c \in CPU : pc[c] \in ApIn => ApOK(q, c)
  PROVE  Inv'
<1>1. mode' = mode /\ bsp' = bsp /\ pc[b] \in BspMain /\ q \in BspMain /\ pc' = [pc EXCEPT ![b] = q]
  BY DEF BspMove
<1>2. pc'[b] = q /\ \A d \in CPU \ {b} : pc'[d] = pc[d] /\ pc[d] \notin BspMain
  BY BspMoveFacts
<1>3. \A c \in CPU : pc[c] \in Aps => c # b
  BY BspMoveFacts
<1>4. ApIn \subseteq Aps /\ ApWaiting \subseteq Aps /\ BspMain \subseteq Places
  BY PlacesApart DEF Aps, Counted
<1>5. Types'
  <2>1. pc' \in [CPU -> Places]
    BY <1>1, <1>4 DEF Inv, Types
  <2> QED BY <1>1, <2>1 DEF Inv, Types
<1>6. ElectionOK'
  BY <1>1 DEF Inv, ElectionOK
<1>7. ASSUME NEW c \in CPU, pc[c] \in ApIn
      PROVE  ApOK(pc[b], c)'
  <2>1. c # b /\ ApOK(q, c)
    BY <1>3, <1>4, <1>7
  <2>2. pc'[c] = pc[c] /\ Busy'[c] = Busy[c] /\ Run'[c] = Run[c] /\ owed'[c] = owed[c] /\ pc'[b] = q
    BY <1>2, <2>1
  <2> QED BY <2>1, <2>2 DEF ApOK, Released
<1>8. CounterOK'
  BY BspCounterFrame
<1>9. SignalsOK'
  BY BspSignalsFrame
<1>10. \A c \in CPU : pc[c] \in ApWaiting => Busy'[c] = Busy[c]
  BY <1>3, <1>4
<1> QED BY <1>5, <1>6, <1>7, <1>8, <1>9, <1>10, BspMoveInv

\* What is known of the BSP and of the APs that it meets.
LEMMA BspFacts ==
  ASSUME Inv, NEW b \in CPU, pc[b] \in BspMain
  PROVE  /\ MainOK(b) /\ (Present[b] <=> pc[b] \in PresentAt)
         /\ \A c \in CPU : pc[c] \in Aps => Meets(pc[b], pc[c])
         /\ \A c \in CPU : pc[c] \in ApIn => ApOK(pc[b], c)
         /\ ~Unsettled(pc[b]) => \A c \in CPU : pc[c] # "unsync"
         /\ mode.mtrr => GatherFirst
BY DEF Inv, BspOK, ApsOK, PresentOK, GatherFirst

\* InsideSmm = TRUE: until then no AP has got past its wait for the BSP.
LEMMA BspEnterInv ==
  ASSUME Inv, NEW b \in CPU, BspEnter(b)
  PROVE  Inv'
<1> DEFINE q == "clear"
<1>1. /\ pc[b] = "enter" /\ InsideSmm' = TRUE /\ pc' = [pc EXCEPT ![b] = q]
      /\ UNCHANGED <<mode, bsp, Counter, ApCount, BspIndex, Run, owed, Busy, Present,
                     AllCpusInSync, CurrentlyExecutingCpu>>
  BY DEF BspEnter, Goto, task, local
<1>2. /\ pc[b] \in BspMain /\ q \in BspMain /\ q \notin PresentAt /\ pc[b] \notin PresentAt
      /\ ~Locks(q) /\ ~Locks(pc[b]) /\ Unsettled(q) /\ q \in Inside
  BY <1>1 DEF BspMain, BspAt, BspGather, PresentAt, ApIn, Locks, Unsettled, BspProgram, BspExit, BspCore, Inside
<1>3. BspMove(b, q)
  BY <1>1, <1>2 DEF BspMove
<1>4. /\ MainOK(b) /\ (Present[b] <=> pc[b] \in PresentAt)
      /\ \A c \in CPU : pc[c] \in Aps => Meets(pc[b], pc[c])
  BY <1>2, BspFacts
<1>5. \A c \in CPU : pc[c] \notin ApIn
  BY <1>1, <1>4 DEF Meets, Aps, ApIn, Arrivals, Gather, Unsettled, Tasks, BspCore
<1>6. ASSUME NEW c \in CPU, pc[c] \in Aps
      PROVE  Meets(q, pc[c]) /\ (pc[c] \in Signalled(q) <=> pc[c] \in Signalled(pc[b]))
  <2>1. pc[c] \in ApWaiting /\ pc[c] \notin ApIn
    BY <1>5, <1>6 DEF Aps
  <2>2. Meets(q, pc[c])
    BY <2>1 DEF Meets, ApWaiting, Arrivals, Gather, Unsettled
  <2> QED BY <2>1, <2>2 DEF Signalled
<1>7. MainOK(b)'
  <2>1. pc'[b] = q
    BY <1>3, BspMoveFacts
  <2> QED BY <1>1, <1>2, <1>4, <2>1 DEF MainOK
<1>8. pc[b] \notin {"absent", "gone", "open"} /\ q \notin {"absent", "gone", "open"}
  BY <1>1
<1>9. /\ Busy' \in [CPU -> BOOLEAN] /\ Present' \in [CPU -> BOOLEAN] /\ CurrentlyExecutingCpu' \in CPU
      /\ InsideSmm' \in BOOLEAN /\ AllCpusInSync' \in BOOLEAN
  BY <1>1 DEF Inv, Types
<1> HIDE DEF q
<1> QED BY <1>1, <1>2, <1>3, <1>4, <1>5, <1>6, <1>7, <1>8, <1>9, BspQuietInv

\* The BSP sets its own Present flag; the APs may arrive.
LEMMA BspClearInv ==
  ASSUME Inv, NEW b \in CPU, BspClear(b)
  PROVE  Inv'
<1> DEFINE q == IF GatherFirst THEN "arrival1" ELSE "busy"
<1>1. /\ pc[b] = "clear" /\ Present' = [Present EXCEPT ![b] = TRUE] /\ pc' = [pc EXCEPT ![b] = q]
      /\ UNCHANGED <<mode, bsp, Counter, ApCount, BspIndex, Run, owed, Busy, InsideSmm, AllCpusInSync>>
      /\ CurrentlyExecutingCpu' = b
  BY DEF BspClear, Goto, task, local, sync
<1>2. /\ pc[b] \in BspMain /\ q \in BspMain /\ q \in PresentAt /\ pc[b] \in Inside
      /\ ~Locks(q) /\ ~Locks(pc[b]) /\ Unsettled(q) /\ q \in Inside
  BY <1>1 DEF BspMain, BspAt, BspGather, PresentAt, ApIn, Locks, Unsettled, BspProgram, BspExit, BspCore, Inside
<1>3. BspMove(b, q)
  BY <1>1, <1>2 DEF BspMove
<1>4. /\ MainOK(b)
      /\ \A c \in CPU : pc[c] \in Aps => Meets(pc[b], pc[c])
      /\ \A c \in CPU : pc[c] \in ApIn => ApOK(pc[b], c)
      /\ mode.mtrr => GatherFirst
  BY <1>2, BspFacts
<1>5. ASSUME NEW c \in CPU, pc[c] \in Aps
      PROVE  Meets(q, pc[c]) /\ (pc[c] \in Signalled(q) <=> pc[c] \in Signalled(pc[b]))
  <2>1. Meets("clear", pc[c])
    BY <1>1, <1>4, <1>5
  <2>2. CASE GatherFirst
    <3>1. Meets("arrival1", pc[c])
      BY <2>1, <2>2 DEF Meets, Arrivals, Gather, Unsettled, Tasks, BspCore
    <3>2. Signalled("arrival1") = Signalled("clear")
      BY DEF Signalled, Gather
    <3> QED BY <1>1, <2>2, <3>1, <3>2
  <2>3. CASE ~GatherFirst
    <3>1. Meets("busy", pc[c])
      BY <1>4, <2>1, <2>3 DEF Meets, Arrivals, Gather, Unsettled, Tasks, BspCore
    <3>2. Signalled("busy") = {} /\ Signalled("clear") = {}
      BY <1>4, <2>3 DEF Signalled, Gather
    <3> QED BY <1>1, <2>3, <3>1, <3>2
  <2> QED BY <2>2, <2>3
<1>6. \A c \in CPU : pc[c] \in ApIn => ApOK(q, c)
  BY <1>1, <1>4 DEF ApOK, Released, Tasks, BspCore
<1>7. MainOK(b)'
  <2>1. pc'[b] = q
    BY <1>3, BspMoveFacts
  <2>2. GatherFirst' <=> GatherFirst
    BY <1>1, ModeFrame
  <2> QED BY <1>1, <1>2, <1>4, <2>1, <2>2 DEF MainOK
<1>8. pc[b] \notin {"absent", "gone", "open"} /\ q \notin {"absent", "gone", "open"}
  BY <1>1
<1>9. /\ Busy' \in [CPU -> BOOLEAN] /\ Present' \in [CPU -> BOOLEAN] /\ CurrentlyExecutingCpu' \in CPU
      /\ InsideSmm' \in BOOLEAN /\ AllCpusInSync' \in BOOLEAN
      /\ Present'[b] /\ \A c \in CPU \ {b} : Present'[c] = Present[c]
  BY <1>1 DEF Inv, Types
<1> HIDE DEF q
<1> QED BY <1>1, <1>2, <1>3, <1>4, <1>5, <1>6, <1>7, <1>8, <1>9, BspQuietInv

\* Places of the BSP between which nothing happens that an AP waits for.
PlainMove(p, q) ==
  \/ p = "arrival1" /\ q \in {"arrival2", "sync"}
  \/ p = "arrival2" /\ q = "sync"
  \/ p = "sync" /\ q = "lock"
  \/ p = "sync2" /\ q = "lock2"
  \/ p = "save" /\ q = "saved"
  \/ p = "program" /\ q = "programmed"
  \/ p = "osMtrrs" /\ q = "osDone"
  \/ p = "busy" /\ q = "core"
  \/ p = "core" /\ q = "idle"
  \/ p = "core" /\ q = "acquire" /\ GatherFirst
  \/ p = "block" /\ q = "core"

\* The same APs fit both places, but one that gives up only while it may.
LEMMA PlainMeets ==
  ASSUME NEW p, NEW q, PlainMove(p, q), NEW a, Meets(p, a),
         a = "giveUp" => Unsettled(q),
         p \in {"arrival1", "arrival2", "sync"} => GatherFirst,
         p = "sync2" => ~GatherFirst
  PROVE  Meets(q, a)
<1>1. CASE p \in {"arrival1", "arrival2", "sync"}
  <2>1. p \in Gather /\ q \in Gather
    BY <1>1 DEF PlainMove, Gather
  <2> QED BY <1>1, <2>1 DEF Meets, Arrivals, Gather, Tasks, BspCore
<1>2. CASE p = "sync2"
  <2>1. q = "lock2"
    BY <1>2 DEF PlainMove
  <2> QED BY <1>2, <2>1 DEF Meets, Arrivals, Gather, Tasks, BspCore
<1>3. CASE p \in {"save", "program", "osMtrrs"}
  <2>1. /\ p = "save" => q = "saved"
        /\ p = "program" => q = "programmed"
        /\ p = "osMtrrs" => q = "osDone"
    BY DEF PlainMove
  <2> QED BY <1>3, <2>1 DEF Meets, Arrivals, Gather, Tasks, BspCore, Unsettled
<1>4. CASE p \in {"busy", "core", "block"}
  <2>1. q \in {"core", "idle", "acquire"} /\ (q = "acquire" => GatherFirst)
    BY <1>4 DEF PlainMove
  <2>2. {"core", "block", "idle", "acquire"} \subseteq Tasks \ {"schedule", "release"}
    BY DEF Tasks, BspCore
  <2>3. \A x \in {"busy", "core", "block", "idle", "acquire"} : Arrivals(x) <=> ~GatherFirst
    BY DEF Arrivals, Gather, BspCore
  <2>4. Arrivals(p) <=> Arrivals(q)
    BY <1>4, <2>1, <2>3
  <2> QED BY <1>4, <2>1, <2>2, <2>4 DEF Meets, Gather
<1> QED BY <1>1, <1>2, <1>3, <1>4 DEF PlainMove

\* The same APs have signalled.
LEMMA PlainSignalled ==
  ASSUME NEW p, NEW q, PlainMove(p, q)
  PROVE  Signalled(q) = Signalled(p)
<1>1. \/ p \in Gather /\ q \in Gather
      \/ p \in {"save", "saved"} /\ q \in {"save", "saved"}
      \/ p \in {"program", "programmed"} /\ q \in {"program", "programmed"}
      \/ p \in {"osMtrrs", "osDone"} /\ q \in {"osMtrrs", "osDone"}
      \/ p \in Tasks \cup {"busy", "sync2", "lock2"} /\ q \in Tasks \cup {"busy", "sync2", "lock2"}
  BY DEF PlainMove, Gather, Tasks, BspCore
<1> QED BY <1>1 DEF Signalled, Gather, Tasks, BspCore

\* The Counter is locked at both places or at neither, and so on.
LEMMA PlainFacts ==
  ASSUME NEW p, NEW q, PlainMove(p, q)
  PROVE  /\ p \in BspMain /\ q \in BspMain /\ (Locks(q) <=> Locks(p))
         /\ p \in PresentAt /\ q \in PresentAt
         /\ p \in Inside <=> q \in Inside
         /\ p \notin {"absent", "gone", "open"} /\ q \notin {"absent", "gone", "open"}
         /\ \A a : Released(p, a) <=> Released(q, a)
         /\ p \notin {"schedule", "release", "enter", "clear", "open"}
         /\ q \notin {"schedule", "release", "enter", "clear", "open"}
         /\ Unsettled(p) => Unsettled(q) \/ q \in {"sync", "lock2"}
         /\ p # "busy" => (p \in Tasks <=> q \in Tasks)
<1>1. p \in BspMain /\ q \in BspMain /\ p \in PresentAt /\ q \in PresentAt
  BY DEF PlainMove, BspMain, PresentAt, BspAt, BspGather, BspProgram, BspCore, BspExit
<1>2. (Locks(q) <=> Locks(p)) /\ (Unsettled(p) => Unsettled(q) \/ q \in {"sync", "lock2"})
  BY DEF PlainMove, Locks, BspProgram, BspCore, BspExit, Unsettled
<1>3. p \in Inside <=> q \in Inside
  BY DEF PlainMove, Inside, BspGather, BspProgram, BspCore
<1>4. \A a : Released(p, a) <=> Released(q, a)
  BY DEF PlainMove, Released
<1>5. p # "busy" => (p \in Tasks <=> q \in Tasks)
  BY DEF PlainMove, Tasks, BspCore
<1>6. /\ p \notin {"absent", "gone", "open"} /\ q \notin {"absent", "gone", "open"}
      /\ p \notin {"schedule", "release", "enter", "clear", "open"}
      /\ q \notin {"schedule", "release", "enter", "clear", "open"}
  BY DEF PlainMove
<1> QED BY <1>1, <1>2, <1>3, <1>4, <1>5, <1>6

\* A step of the BSP between such places.
LEMMA PlainMoveInv ==
  ASSUME Inv, NEW b \in CPU, NEW q, PlainMove(pc[b], q), pc' = [pc EXCEPT ![b] = q],
         UNCHANGED <<mode, bsp, Counter, ApCount, BspIndex, Run, owed, Present, InsideSmm,
                     CurrentlyExecutingCpu>>,
         AllCpusInSync' \in BOOLEAN, Busy' \in [CPU -> BOOLEAN],
         \A c \in CPU \ {b} : Busy'[c] = Busy[c],
         q \in {"sync", "lock2"} => \A c \in CPU : pc[c] \notin {"giveUp", "unsync"}
  PROVE  Inv'
<1>1. /\ pc[b] \in BspMain /\ q \in BspMain /\ (Locks(q) <=> Locks(pc[b]))
      /\ pc[b] \in PresentAt /\ q \in PresentAt
      /\ pc[b] \in Inside <=> q \in Inside
      /\ pc[b] \notin {"absent", "gone", "open"} /\ q \notin {"absent", "gone", "open"}
      /\ \A a : Released(pc[b], a) <=> Released(q, a)
      /\ pc[b] \notin {"schedule", "release", "enter", "clear", "open"}
      /\ q \notin {"schedule", "release", "enter", "clear", "open"}
      /\ Unsettled(pc[b]) => Unsettled(q) \/ q \in {"sync", "lock2"}
      /\ pc[b] # "busy" => (pc[b] \in Tasks <=> q \in Tasks)
  BY PlainFacts
<1>2. BspMove(b, q)
  BY <1>1 DEF BspMove
<1>3. /\ MainOK(b) /\ (Present[b] <=> pc[b] \in PresentAt)
      /\ \A c \in CPU : pc[c] \in Aps => Meets(pc[b], pc[c])
      /\ \A c \in CPU : pc[c] \in ApIn => ApOK(pc[b], c)
      /\ ~Unsettled(pc[b]) => \A c \in CPU : pc[c] # "unsync"
  BY <1>1, BspFacts
<1>4. ASSUME NEW c \in CPU, pc[c] \in Aps
      PROVE  Meets(q, pc[c]) /\ (pc[c] \in Signalled(q) <=> pc[c] \in Signalled(pc[b]))
  <2>1. Meets(pc[b], pc[c])
    BY <1>3, <1>4
  <2>2. pc[c] = "giveUp" => Unsettled(q)
    BY <1>1, <2>1 DEF Meets
  <2>3. /\ pc[b] \in {"arrival1", "arrival2", "sync"} => GatherFirst
        /\ pc[b] = "sync2" => ~GatherFirst
    BY <1>3 DEF MainOK
  <2> QED BY <2>1, <2>2, <2>3, PlainMeets, PlainSignalled
<1>5. ASSUME NEW c \in CPU, pc[c] \in ApIn
      PROVE  ApOK(q, c)
  <2>1. ApOK(pc[b], c) /\ Meets(pc[b], pc[c])
    BY <1>3, <1>5 DEF Aps
  <2>2. CASE pc[b] # "busy"
    BY <1>1, <2>1, <2>2 DEF ApOK
  <2>3. CASE pc[b] = "busy"
    <3>1. "busy" \notin Tasks /\ pc[c] \notin {"check", "run", "ran"}
      BY <2>1, <2>3 DEF Tasks, BspCore, Meets
    <3>2. owed[c] = 0 /\ Run[c] = 0 /\ ~Busy[c]
      BY <2>1, <2>3, <3>1 DEF ApOK, Released
    <3>3. ~Released(q, pc[c])
      BY <1>1, <2>3 DEF Released
    <3> QED BY <1>1, <3>1, <3>2, <3>3 DEF ApOK
  <2> QED BY <2>2, <2>3
<1>6. MainOK(b)'
  <2>1. pc'[b] = q
    BY <1>2, BspMoveFacts
  <2>2. GatherFirst' <=> GatherFirst
    BY ModeFrame
  <2>3. /\ q \in {"save", "saved", "program", "programmed", "osMtrrs", "osDone"} => mode.mtrr
        /\ q \in {"arrival1", "arrival2", "sync", "lock", "arrived",
                  "acquire", "schedule", "release"} => GatherFirst
        /\ q \in {"sync2", "lock2", "allPresent"} => ~GatherFirst
    BY <1>3 DEF MainOK, PlainMove
  <2> QED BY <1>1, <1>3, <2>1, <2>2, <2>3 DEF MainOK
<1>7. ~Unsettled(q) => \A c \in CPU : pc[c] # "unsync"
  BY <1>1, <1>3
<1>8. /\ Present' \in [CPU -> BOOLEAN] /\ CurrentlyExecutingCpu' \in CPU /\ InsideSmm' \in BOOLEAN
  BY DEF Inv, Types
<1>9. Present'[b] <=> q \in PresentAt
  BY <1>1, <1>3
<1> QED BY <1>1, <1>2, <1>4, <1>5, <1>6, <1>7, <1>8, <1>9, BspQuietInv

\* Nobody stands between two instructions when the sync timer ends a wait.
LEMMA PlainStepsInv ==
  ASSUME Inv, Prompt, ~LateBroadcast, NEW b \in CPU,
         \/ BspArrival1(b) \/ BspArrival2(b) \/ BspSync(b) \/ BspMtrrs(b)
         \/ BspCallCore(b) \/ BspCoreDone(b) \/ BlockingDone(b)
         \/ \E blocking \in BOOLEAN : StartupAllAPs(b, blocking)
  PROVE  Inv'
<1>1. \E q \in {"arrival2", "sync", "lock", "lock2", "saved", "programmed", "osDone", "core",
                "idle", "acquire"} :
        /\ PlainMove(pc[b], q) /\ pc' = [pc EXCEPT ![b] = q]
        /\ q \in {"sync", "lock2"} => Undisturbed
  <2>1. CASE BspArrival1(b) \/ BspArrival2(b) \/ BspSync(b)
    BY <2>1 DEF BspArrival1, BspArrival2, BspSync, ArrivalOver, Goto, PlainMove
  <2>2. CASE BspMtrrs(b) \/ BspCallCore(b) \/ BspCoreDone(b) \/ BlockingDone(b)
    BY <2>2 DEF BspMtrrs, BspCallCore, BspCoreDone, BlockingDone, Goto, PlainMove
  <2>3. CASE \E blocking \in BOOLEAN : StartupAllAPs(b, blocking)
    BY <2>3 DEF StartupAllAPs, Goto, PlainMove
  <2> QED BY <2>1, <2>2, <2>3
<1>2. /\ UNCHANGED <<mode, bsp, Counter, ApCount, BspIndex, Run, owed, Present, InsideSmm,
                     CurrentlyExecutingCpu>>
      /\ AllCpusInSync' \in {AllCpusInSync, TRUE}
      /\ Busy' \in {Busy, [Busy EXCEPT ![b] = TRUE]}
  <2>1. CASE BspArrival1(b) \/ BspArrival2(b) \/ BspSync(b) \/ BspMtrrs(b)
    BY <2>1 DEF BspArrival1, BspArrival2, BspSync, BspMtrrs, sync, local, task
  <2>2. CASE BspCallCore(b) \/ BspCoreDone(b) \/ BlockingDone(b)
    BY <2>2 DEF BspCallCore, BspCoreDone, BlockingDone, sync, local, task
  <2>3. CASE \E blocking \in BOOLEAN : StartupAllAPs(b, blocking)
    BY <2>3 DEF StartupAllAPs, sync, local
  <2> QED BY <2>1, <2>2, <2>3
<1>3. PICK q : /\ PlainMove(pc[b], q) /\ pc' = [pc EXCEPT ![b] = q]
               /\ q \in {"sync", "lock2"} => Undisturbed
  BY <1>1
<1>4. q \in {"sync", "lock2"} => \A c \in CPU : pc[c] \notin {"giveUp", "unsync"}
  BY <1>3 DEF Undisturbed
<1>5. AllCpusInSync' \in BOOLEAN /\ Busy' \in [CPU -> BOOLEAN] /\ \A c \in CPU \ {b} : Busy'[c] = Busy[c]
  BY <1>2 DEF Inv, Types
<1> QED BY <1>2, <1>3, <1>4, <1>5, PlainMoveInv

\* The Counter counts the BSP and the APs.
LEMMA CountedAps ==
  ASSUME Inv, NEW b \in CPU, pc[b] \in BspMain
  PROVE  Count(pc, Counted) = Count(pc, Aps) + 1
<1> DEFINE F == {c \in CPU : pc[c] \in Aps}
           G == {c \in CPU : pc[c] \in Counted}
<1>1. IsFiniteSet(F)
  BY CountType
<1>2. b \notin F /\ G = F \cup {b}
  BY PlacesApart DEF Inv, BspOK, Aps, Counted, BspMain
<1> HIDE DEF F, G
<1>3. Cardinality(G) = Cardinality(F) + 1
  BY <1>1, <1>2, FS_AddElement
<1> QED BY <1>3 DEF F, G, Count

\* LockdownSemaphore returns the number of processors that have checked in.
LEMMA BspLockInv ==
  ASSUME Inv, NEW b \in CPU, BspLock(b)
  PROVE  Inv'
<1>1. PICK q \in {"arrived", "allPresent"} :
        /\ pc' = [pc EXCEPT ![b] = q]
        /\ \/ pc[b] = "lock" /\ q = "arrived"
           \/ pc[b] = "lock2" /\ q = "allPresent"
  BY DEF BspLock, Goto
<1>2. /\ ApCount' = Counter - 1 /\ Counter' = Top
      /\ UNCHANGED <<mode, bsp, BspIndex, Run, owed, Busy, Present, InsideSmm, AllCpusInSync,
                     CurrentlyExecutingCpu>>
  BY DEF BspLock, task
<1>3. /\ pc[b] \in BspMain /\ q \in BspMain /\ q \in Places /\ q \in PresentAt /\ pc[b] \in PresentAt
      /\ q \in Inside /\ pc[b] \in Inside /\ Locks(q) /\ ~Locks(pc[b]) /\ ~Unsettled(pc[b])
  BY <1>1 DEF BspMain, BspAt, BspGather, BspProgram, BspExit, BspCore, PresentAt, Inside, Locks, Unsettled, Places
<1>4. BspMove(b, q)
  BY <1>1, <1>2, <1>3 DEF BspMove
<1>5. /\ MainOK(b) /\ (Present[b] <=> pc[b] \in PresentAt)
      /\ \A c \in CPU : pc[c] \in Aps => Meets(pc[b], pc[c])
      /\ \A c \in CPU : pc[c] \in ApIn => ApOK(pc[b], c)
      /\ ~Unsettled(pc[b]) => \A c \in CPU : pc[c] # "unsync"
      /\ mode.mtrr => GatherFirst
  BY <1>3, BspFacts
<1>6. pc'[b] = q /\ \A d \in CPU \ {b} : pc'[d] = pc[d] /\ pc[d] \notin BspMain
  BY <1>4, BspMoveFacts
<1>7. \A c \in CPU : pc[c] \in Aps => c # b
  BY <1>4, BspMoveFacts
<1>8. Counter # Top /\ Counter = Count(pc, Counted)
  BY <1>3, <1>6 DEF Inv, CounterOK
<1>9. /\ ApCount' = Count(pc, Aps) /\ Count(pc', Aps) = Count(pc, Aps)
      /\ ApCount' \in 0..NumberOfCpus
  <2>1. Count(pc, Counted) = Count(pc, Aps) + 1
    BY <1>3, CountedAps
  <2>2. Count(pc', Aps) = Count(pc, Aps)
    BY <1>4, BspMoveFacts
  <2>3. Count(pc, Aps) \in Nat /\ NumberOfCpus \in Nat /\ Count(pc, Aps) <= NumberOfCpus
    BY CountType
  <2> QED BY <1>2, <1>8, <2>1, <2>2, <2>3
<1>10. Types'
  <2>1. pc' \in [CPU -> Places] /\ Counter' \in Nat
    BY <1>1, <1>2, <1>3, ConstantsAssumption DEF Inv, Types
  <2> QED BY <1>2, <1>9, <2>1 DEF Inv, Types
<1>11. ElectionOK'
  BY <1>2 DEF Inv, ElectionOK
<1>12. GatherFirst' <=> GatherFirst
  BY <1>2, ModeFrame
<1>13. MainOK(b)'
  BY <1>1, <1>2, <1>3, <1>5, <1>6, <1>12 DEF MainOK
<1>14. ASSUME NEW c \in CPU, pc[c] \in Aps
       PROVE  Meets(q, pc[c])
  <2>1. Meets(pc[b], pc[c])
    BY <1>5, <1>14
  <2>2. pc[c] # "giveUp"
    BY <1>3, <2>1 DEF Meets
  <2>3. CASE pc[b] = "lock"
    <3>1. pc[b] \in Gather /\ q = "arrived" /\ q \in Gather
      BY <1>1, <2>3 DEF Gather
    <3> QED BY <2>1, <2>2, <2>3, <3>1 DEF Meets, Arrivals, Gather, Tasks, BspCore
  <2>4. CASE pc[b] = "lock2"
    <3>1. q = "allPresent" /\ ~GatherFirst
      BY <1>1, <1>5, <2>4 DEF MainOK
    <3> QED BY <2>1, <2>2, <2>4, <3>1 DEF Meets, Arrivals, Gather, Tasks, BspCore
  <2> QED BY <1>1, <2>3, <2>4
<1>15. ASSUME NEW c \in CPU, pc[c] \in ApIn
       PROVE  ApOK(pc[b], c)'
  <2>1. c # b /\ ApOK(pc[b], c)
    BY <1>5, <1>7, <1>15 DEF Aps
  <2>2. /\ pc'[c] = pc[c] /\ Busy'[c] = Busy[c] /\ Run'[c] = Run[c] /\ owed'[c] = owed[c] /\ pc'[b] = q
        /\ pc[b] \notin Tasks /\ q \notin Tasks
    BY <1>1, <1>2, <1>6, <2>1 DEF Tasks, BspCore
  <2> QED BY <1>1, <2>1, <2>2 DEF ApOK, Released
<1>16. CounterOK'
  <2>1. \A d \in CPU : pc'[d] \in BspMain <=> d = b
    BY <1>4, BspMoveFacts
  <2>2. Locks(pc[b])'
    BY <1>2, <1>3, <1>6, ModeFrame
  <2> QED BY <1>2, <1>9, <2>1, <2>2 DEF CounterOK
<1>17. SignalsOK'
  <2>1. Signalled(q) = Signalled(pc[b])
    BY <1>1 DEF Signalled, Gather
  <2> QED BY <1>1, <1>2, <1>4, <2>1, BspSignalsFrame
<1> QED BY <1>2, <1>3, <1>4, <1>5, <1>10, <1>11, <1>13, <1>14, <1>15, <1>16, <1>17, BspMoveInv

\* WaitForAllAPs: when it returns, every AP has signalled.
LEMMA Barrier ==
  ASSUME Inv, NEW b \in CPU, pc[b] \in {"arrived", "saved", "programmed", "tasks", "osDone"},
         Run[b] >= ApCount
  PROVE  /\ Run[b] = ApCount /\ ApCount = Count(pc, Aps)
         /\ \A c \in CPU : pc[c] \in Aps => pc[c] \in Signalled(pc[b])
<1>1. pc[b] \in BspMain \ {"absent", "gone", "open"} /\ Locks(pc[b])
  BY DEF BspMain, BspAt, BspGather, BspProgram, BspExit, Locks
<1>2. ApCount = Count(pc, Aps) /\ Run[b] = Count(pc, Signalled(pc[b]))
  BY <1>1 DEF Inv, CounterOK, SignalsOK
<1> DEFINE S == Signalled(pc[b])
<1>3. S \subseteq Aps
  BY DEF Signalled, Aps
<1>4. Count(pc, S) >= Count(pc, Aps) /\ Count(pc, S) \in Nat /\ Count(pc, Aps) \in Nat
  BY <1>2, CountType
<1> HIDE DEF S
<1>5. \A c \in CPU : pc[c] \in Aps => pc[c] \in S
  BY <1>3, <1>4, CountAll
<1>6. Count(pc, S) = Count(pc, Aps)
  <2>1. {c \in CPU : pc[c] \in S} = {c \in CPU : pc[c] \in Aps}
    BY <1>3, <1>5
  <2> QED BY <2>1 DEF Count
<1> QED BY <1>2, <1>5, <1>6 DEF S

\* The processors that ReleaseAllAPs and the like reach.
LEMMA PresentApsFacts ==
  ASSUME Inv, NEW b \in CPU, pc[b] \in BspMain, pc[b] \notin {"enter", "clear", "open"}
  PROVE  \A c \in CPU : IsPresentAp(c) <=> pc[c] \in ApIn \ {"present", "resetDone"}
<1>1. CurrentlyExecutingCpu = b
  BY DEF Inv, BspOK, MainOK
<1>2. \A c \in CPU : pc[c] \in BspMain <=> c = b
  BY DEF Inv, BspOK
<1>3. \A c \in CPU : Present[c] <=> pc[c] \in PresentAt
  BY DEF Inv, PresentOK
<1>4. ApIn \cap BspMain = {}
  BY PlacesApart DEF BspMain
<1> QED BY <1>1, <1>2, <1>3, <1>4 DEF IsPresentAp, PresentAt

\* All APs wait at the same place and are released at once.
LEMMA ReleaseInv ==
  ASSUME Inv, NEW b \in CPU, NEW q, BspMove(b, q), q \in Places,
         UNCHANGED <<Counter, ApCount, BspIndex, owed, Busy, Present, InsideSmm, AllCpusInSync,
                     CurrentlyExecutingCpu>>,
         pc[b] \notin {"enter", "clear", "open"}, pc[b] \notin Tasks,
         Run' \in [CPU -> Nat],
         \A c \in CPU \ {b} : Run'[c] = IF IsPresentAp(c) THEN Run[c] + 1 ELSE Run[c],
         ElectionOK', MainOK(b)', ~Unsettled(pc[b]), q \notin Tasks,
         pc[b] \in PresentAt, q \in PresentAt,
         NEW a \in ApIn \ {"present", "resetDone", "ran"}, Meets(q, a), Released(q, a), ~Released(pc[b], a),
         \A c \in CPU : pc[c] \in Aps => pc[c] = a,
         CounterOK', SignalsOK'
  PROVE  Inv'
<1>1. pc[b] \in BspMain /\ q \in BspMain /\ pc' = [pc EXCEPT ![b] = q] /\ mode' = mode /\ bsp' = bsp
  BY DEF BspMove
<1>2. /\ Present[b]
      /\ \A c \in CPU : pc[c] \in ApIn => ApOK(pc[b], c)
      /\ \A c \in CPU : pc[c] # "unsync"
  BY <1>1, BspFacts
<1>3. pc'[b] = q /\ \A d \in CPU \ {b} : pc'[d] = pc[d] /\ pc[d] \notin BspMain
  BY BspMoveFacts
<1>4. \A c \in CPU : pc[c] \in Aps => c # b
  BY BspMoveFacts
<1>5. \A c \in CPU : IsPresentAp(c) <=> pc[c] \in ApIn \ {"present", "resetDone"}
  BY <1>1, PresentApsFacts
<1>6. ASSUME NEW c \in CPU, pc[c] \in ApIn
      PROVE  ApOK(pc[b], c)'
  <2>1. c # b /\ pc[c] = a /\ ApOK(pc[b], c)
    BY <1>2, <1>4, <1>6 DEF Aps
  <2>2. Run[c] = 0 /\ owed[c] = 0 /\ ~Busy[c]
    BY <2>1 DEF ApOK, Tasks, BspCore
  <2>3. Run'[c] = 1
    BY <1>5, <2>1, <2>2
  <2>4. pc'[c] = a /\ Busy'[c] = Busy[c] /\ owed'[c] = owed[c] /\ pc'[b] = q
    BY <1>3, <2>1
  <2>5. Released(pc'[b], pc'[c])
    BY <2>4
  <2> QED BY <2>2, <2>3, <2>4, <2>5 DEF ApOK, Tasks, BspCore, Released
<1>7. Types'
  BY <1>1 DEF Inv, Types
<1>8. \A c \in CPU \ {b} : pc[c] \notin ApIn => Run'[c] = Run[c]
  BY <1>5
<1>9. \A c \in CPU : pc[c] \in Aps => Meets(q, pc[c])
  OBVIOUS
<1>10. Present'[b] <=> q \in PresentAt
  BY <1>2
<1> QED BY <1>2, <1>6, <1>7, <1>8, <1>9, <1>10, BspMoveInv

\* WaitForAllAPs, then ReleaseAllAPs.
LEMMA BspWaitThenReleaseInv ==
  ASSUME Inv, NEW b \in CPU, BspWaitThenRelease(b)
  PROVE  Inv'
<1>1. PICK q \in {"save", "program", "osMtrrs", "absent"}, a \in {"backup", "replace", "restore", "reset"} :
        /\ pc' = [pc EXCEPT ![b] = q]
        /\ \/ pc[b] = "arrived" /\ q = "save" /\ mode.mtrr /\ a = "backup"
           \/ pc[b] = "saved" /\ q = "program" /\ a = "replace"
           \/ pc[b] = "tasks" /\ q = "osMtrrs" /\ mode.mtrr /\ a = "restore"
           \/ pc[b] = "tasks" /\ q = "absent" /\ ~mode.mtrr /\ a = "reset"
           \/ pc[b] = "osDone" /\ q = "absent" /\ a = "reset"
  <2>1. mode.mtrr \in BOOLEAN
    BY DEF Inv, Types, ModeType
  <2> QED BY <2>1 DEF BspWaitThenRelease, Goto
<1>2. /\ Run[b] >= ApCount
      /\ Run' = [c \in CPU |-> IF c = b THEN Run[b] - ApCount
                               ELSE IF IsPresentAp(c) THEN Run[c] + 1 ELSE Run[c]]
      /\ UNCHANGED <<mode, bsp, Counter, ApCount, BspIndex, owed, Busy, Present, InsideSmm,
                     AllCpusInSync, CurrentlyExecutingCpu>>
  BY DEF BspWaitThenRelease, WaitThenReleaseAPs, AllAPsSignalled, sync, local, task
<1>3. /\ pc[b] \in BspMain /\ q \in BspMain /\ q \in Places /\ pc[b] \in PresentAt /\ q \in PresentAt
      /\ pc[b] \notin {"enter", "clear", "open"} /\ ~Unsettled(pc[b])
      /\ pc[b] \notin Tasks /\ q \notin Tasks /\ (pc[b] \in Inside <=> q \in Inside)
  BY <1>1 DEF BspMain, BspAt, BspGather, BspProgram, BspExit, PresentAt, Unsettled, Tasks, BspCore, Places,
    Inside
<1>4. BspMove(b, q)
  BY <1>1, <1>2, <1>3 DEF BspMove
<1>5. MainOK(b)
  BY <1>3, BspFacts
<1>6. /\ Run[b] = ApCount /\ ApCount = Count(pc, Aps)
      /\ \A c \in CPU : pc[c] \in Aps => pc[c] \in Signalled(pc[b])
  BY <1>1, <1>2, Barrier
<1>7. \A c \in CPU : pc[c] \in Aps => pc[c] = a
  BY <1>1, <1>5, <1>6 DEF Signalled, MainOK, Gather
<1>8. /\ a \in ApIn \ {"present", "resetDone", "ran"} /\ a \notin Signalled(q)
      /\ Released(q, a) /\ ~Released(pc[b], a)
  BY <1>1 DEF ApIn, Signalled, Released, Gather
<1>9. Meets(q, a)
  BY <1>1, <1>5 DEF Meets, MainOK
<1>10. Run \in [CPU -> Nat] /\ ApCount \in Nat
  BY CountType DEF Inv, Types
<1>11. /\ Run' \in [CPU -> Nat] /\ Run'[b] = 0
       /\ \A c \in CPU \ {b} : Run'[c] = IF IsPresentAp(c) THEN Run[c] + 1 ELSE Run[c]
  BY <1>2, <1>6, <1>10
<1>12. ElectionOK'
  BY <1>2 DEF Inv, ElectionOK
<1>13. MainOK(b)'
  <2>1. pc'[b] = q /\ (GatherFirst' <=> GatherFirst)
    BY <1>2, <1>4, BspMoveFacts, ModeFrame
  <2> QED BY <1>1, <1>2, <1>3, <1>5, <2>1 DEF MainOK
<1>14. CounterOK'
  <2>1. Locks(q) <=> Locks(pc[b])
    BY <1>1 DEF Locks, BspProgram, BspExit
  <2>2. pc[b] \notin {"absent", "gone", "open"}
    BY <1>1
  <2> QED BY <1>2, <1>4, <2>1, <2>2, BspCounterFrame
<1>15. SignalsOK'
  <2>1. CASE q # "absent"
    <3>1. \A c \in CPU : pc[c] \notin Signalled(q)
      BY <1>7, <1>8 DEF Signalled, Aps
    <3>2. Count(pc, Signalled(q)) = 0
      BY <3>1, CountNone
    <3> QED BY <1>1, <1>4, <1>11, <2>1, <3>2, BspSignals
  <2>2. CASE q = "absent"
    <3>1. Count(pc', {"reset", "resetDone"}) = Count(pc, {"reset", "resetDone"})
      BY <1>4, BspMoveFacts
    <3>2. {c \in CPU : pc[c] \in {"reset", "resetDone"}} = {c \in CPU : pc[c] \in Aps}
      BY <1>1, <1>7, <2>2 DEF Aps, ApIn
    <3>3. Run'[b] + Count(pc', {"reset", "resetDone"}) = ApCount'
      BY <1>2, <1>6, <1>10, <1>11, <3>1, <3>2 DEF Count
    <3>4. pc'[b] = q /\ \A d \in CPU : pc'[d] \in BspMain <=> d = b
      BY <1>4, BspMoveFacts
    <3>5. {"absent", "gone"} \subseteq BspMain
      BY DEF BspMain, BspAt, BspExit
    <3> QED BY <2>2, <3>3, <3>4, <3>5 DEF SignalsOK
  <2> QED BY <2>1, <2>2
<1> QED BY <1>2, <1>3, <1>4, <1>7, <1>8, <1>9, <1>11, <1>12, <1>13, <1>14, <1>15, ReleaseInv

\* InsideSmm = FALSE: all APs wait for something to do and will leave.
LEMMA BspExitInv ==
  ASSUME Inv, NEW b \in CPU, BspExitSmm(b) \/ BspReleaseAll(b)
  PROVE  Inv'
<1>1. CASE BspExitSmm(b)
  <2>1. /\ pc[b] = "exit" /\ InsideSmm' = FALSE /\ pc' = [pc EXCEPT ![b] = "exitAll"]
        /\ UNCHANGED <<mode, bsp, Counter, ApCount, BspIndex, Run, owed, Busy, Present,
                       AllCpusInSync, CurrentlyExecutingCpu>>
    BY <1>1 DEF BspExitSmm, Goto, task, local
  <2>2. /\ pc[b] \in BspMain /\ "exitAll" \in BspMain /\ "exitAll" \in PresentAt /\ pc[b] \in PresentAt
        /\ Locks("exitAll") /\ Locks(pc[b]) /\ ~Unsettled(pc[b]) /\ "exitAll" \notin Inside
        /\ pc[b] \notin Tasks /\ "exitAll" \notin Tasks
    BY <2>1 DEF BspMain, BspAt, BspExit, BspGather, PresentAt, ApIn, Locks, Unsettled, BspProgram,
      BspCore, Inside, Tasks
  <2>3. BspMove(b, "exitAll")
    BY <2>1, <2>2 DEF BspMove
  <2>4. /\ MainOK(b) /\ Present[b]
        /\ \A c \in CPU : pc[c] \in Aps => Meets(pc[b], pc[c])
        /\ \A c \in CPU : pc[c] \in ApIn => ApOK(pc[b], c)
        /\ \A c \in CPU : pc[c] # "unsync"
    BY <2>2, BspFacts
  <2>5. \A c \in CPU : pc[c] \in Aps => pc[c] = "wait"
    BY <2>1, <2>4 DEF Meets, Aps, ApIn, ApWaiting, Arrivals, Gather, Unsettled, Tasks, BspCore
  <2>6. \A c \in CPU : pc[c] \in Aps =>
          Meets("exitAll", pc[c]) /\ (pc[c] \in Signalled("exitAll") <=> pc[c] \in Signalled(pc[b]))
    BY <2>1, <2>5 DEF Meets, Signalled, Gather
  <2>7. \A c \in CPU : pc[c] \in ApIn => ApOK("exitAll", c)
    BY <2>1, <2>2, <2>4 DEF ApOK, Released
  <2>8. pc'[b] = "exitAll" /\ (GatherFirst' <=> GatherFirst)
    BY <2>1, <2>3, BspMoveFacts, ModeFrame
  <2>9. MainOK(b)'
    BY <2>1, <2>2, <2>4, <2>8 DEF MainOK
  <2>10. /\ Busy' \in [CPU -> BOOLEAN] /\ Present' \in [CPU -> BOOLEAN] /\ CurrentlyExecutingCpu' \in CPU
         /\ InsideSmm' \in BOOLEAN /\ AllCpusInSync' \in BOOLEAN
    BY <2>1 DEF Inv, Types
  <2> QED BY <2>1, <2>2, <2>3, <2>4, <2>6, <2>7, <2>9, <2>10, BspQuietInv
<1>2. CASE BspReleaseAll(b)
  <2>1. /\ pc[b] = "exitAll" /\ pc' = [pc EXCEPT ![b] = "tasks"]
        /\ Run' = [c \in CPU |-> IF IsPresentAp(c) /\ Run[c] # Top THEN Run[c] + 1 ELSE Run[c]]
        /\ UNCHANGED <<mode, bsp, Counter, ApCount, BspIndex, owed, Busy, Present, InsideSmm,
                       AllCpusInSync, CurrentlyExecutingCpu>>
    BY <1>2 DEF BspReleaseAll, ReleaseAllAPs, Goto, task, local, sync
  <2>2. /\ pc[b] \in BspMain /\ "tasks" \in BspMain /\ "tasks" \in PresentAt /\ pc[b] \in PresentAt
        /\ Locks("tasks") /\ Locks(pc[b]) /\ ~Unsettled(pc[b]) /\ "tasks" \notin Inside
        /\ pc[b] \notin Inside /\ pc[b] \notin Tasks /\ "tasks" \notin Tasks /\ "tasks" \in Places
    BY <2>1 DEF BspMain, BspAt, BspExit, BspGather, PresentAt, ApIn, Locks, Unsettled, BspProgram,
      BspCore, Inside, Tasks, Places
  <2>3. BspMove(b, "tasks")
    BY <2>1, <2>2 DEF BspMove
  <2>4. /\ MainOK(b)
        /\ \A c \in CPU : pc[c] \in Aps => Meets(pc[b], pc[c])
        /\ \A c \in CPU : pc[c] \in ApIn => ApOK(pc[b], c)
    BY <2>2, BspFacts
  <2>5. \A c \in CPU : pc[c] \in Aps => pc[c] = "wait"
    BY <2>1, <2>4 DEF Meets, Aps, ApIn, ApWaiting, Arrivals, Gather, Unsettled, Tasks, BspCore
  <2>6. \A c \in CPU : IsPresentAp(c) <=> pc[c] \in ApIn \ {"present", "resetDone"}
    BY <2>1, <2>2, PresentApsFacts
  <2>7. Run \in [CPU -> Nat] /\ \A c \in CPU : pc[c] \in ApIn => Run[c] \in {0, 1}
    BY <2>4 DEF Inv, Types, ApOK
  <2>8. Top \in Nat /\ Top > 1
    BY ConstantsAssumption, FS_CardinalityType
  <2>9. /\ Run' \in [CPU -> Nat]
        /\ \A c \in CPU \ {b} : Run'[c] = IF IsPresentAp(c) THEN Run[c] + 1 ELSE Run[c]
    BY <2>1, <2>6, <2>7, <2>8
  <2>10. Run'[b] = Run[b]
    <3>1. pc[b] \notin ApIn
      BY <2>1 DEF ApIn
    <3> QED BY <2>1, <2>6, <2>7, <3>1
  <2>11. /\ "wait" \in ApIn \ {"present", "resetDone", "ran"} /\ Meets("tasks", "wait")
         /\ Released("tasks", "wait") /\ ~Released(pc[b], "wait")
    BY <2>1 DEF ApIn, Meets, Released
  <2>12. ElectionOK'
    BY <2>1 DEF Inv, ElectionOK
  <2>13. MainOK(b)'
    <3>1. pc'[b] = "tasks" /\ (GatherFirst' <=> GatherFirst)
      BY <2>1, <2>3, BspMoveFacts, ModeFrame
    <3> QED BY <2>1, <2>2, <2>4, <3>1 DEF MainOK
  <2>14. CounterOK'
    BY <2>1, <2>2, <2>3, BspCounterFrame
  <2>15. SignalsOK'
    <3>1. \A c \in CPU : pc[c] \in Aps => (pc[c] \in Signalled("tasks") <=> pc[c] \in Signalled(pc[b]))
      BY <2>1, <2>5 DEF Signalled, Gather
    <3> QED BY <2>1, <2>3, <2>10, <3>1, BspSignalsFrame
  <2> QED BY <2>1, <2>2, <2>3, <2>5, <2>9, <2>11, <2>12, <2>13, <2>14, <2>15, ReleaseInv
<1> QED BY <1>1, <1>2

\* The last wait before the core is called: all APs wait for something to do.
LEMMA BspWaitInv ==
  ASSUME Inv, NEW b \in CPU, BspWait(b)
  PROVE  Inv'
<1>1. /\ pc' = [pc EXCEPT ![b] = "busy"] /\ Run[b] >= ApCount
      /\ Run' = [Run EXCEPT ![b] = @ - ApCount]
      /\ \/ pc[b] = "arrived" /\ ~mode.mtrr
         \/ pc[b] = "programmed"
      /\ UNCHANGED <<mode, bsp, Counter, ApCount, BspIndex, owed, Busy, Present, InsideSmm,
                     AllCpusInSync, CurrentlyExecutingCpu>>
  BY DEF BspWait, WaitForAllAPs, AllAPsSignalled, Goto, sync, local, task
<1>2. /\ pc[b] \in BspMain /\ "busy" \in BspMain /\ "busy" \in Places /\ pc[b] \in PresentAt
      /\ "busy" \in PresentAt /\ ~Unsettled(pc[b]) /\ pc[b] \notin Tasks /\ "busy" \notin Tasks
      /\ pc[b] \in Inside /\ "busy" \in Inside /\ Locks(pc[b])
  BY <1>1 DEF BspMain, BspAt, BspGather, BspProgram, BspExit, PresentAt, Unsettled, Tasks, BspCore, Places,
    Inside, Locks
<1>3. BspMove(b, "busy")
  BY <1>1, <1>2 DEF BspMove
<1>4. /\ MainOK(b) /\ Present[b]
      /\ \A c \in CPU : pc[c] \in ApIn => ApOK(pc[b], c)
      /\ \A c \in CPU : pc[c] # "unsync"
      /\ mode.mtrr => GatherFirst
  BY <1>2, BspFacts
<1>5. GatherFirst /\ Locks("busy")
  BY <1>1, <1>4 DEF MainOK, Locks
<1>6. /\ Run[b] = ApCount
      /\ \A c \in CPU : pc[c] \in Aps => pc[c] \in Signalled(pc[b])
  BY <1>1, Barrier
<1>7. \A c \in CPU : pc[c] \in Aps => pc[c] = "wait"
  BY <1>1, <1>6 DEF Signalled, Gather
<1>8. /\ pc'[b] = "busy" /\ (GatherFirst' <=> GatherFirst)
      /\ \A d \in CPU \ {b} : pc'[d] = pc[d]
      /\ \A c \in CPU : pc[c] \in Aps => c # b
  BY <1>1, <1>3, BspMoveFacts, ModeFrame
<1>9. Run \in [CPU -> Nat] /\ ApCount \in Nat
  BY CountType DEF Inv, Types
<1>10. Run' \in [CPU -> Nat] /\ Run'[b] = 0 /\ \A c \in CPU \ {b} : Run'[c] = Run[c]
  BY <1>1, <1>6, <1>9
<1>11. Types'
  BY <1>1, <1>2, <1>10 DEF Inv, Types
<1>12. ElectionOK'
  BY <1>1 DEF Inv, ElectionOK
<1>13. MainOK(b)'
  BY <1>1, <1>2, <1>4, <1>5, <1>8 DEF MainOK
<1>14. \A c \in CPU : pc[c] \in Aps => Meets("busy", pc[c])
  BY <1>7 DEF Meets
<1>15. ASSUME NEW c \in CPU, pc[c] \in ApIn
       PROVE  ApOK(pc[b], c)'
  <2>1. c # b /\ pc[c] = "wait" /\ ApOK(pc[b], c)
    BY <1>4, <1>7, <1>8, <1>15 DEF Aps
  <2>2. Run[c] = 0 /\ owed[c] = 0 /\ ~Busy[c]
    BY <1>1, <1>2, <2>1 DEF ApOK, Released
  <2>3. Run'[c] = 0 /\ owed'[c] = 0 /\ ~Busy'[c] /\ pc'[c] = "wait" /\ pc'[b] = "busy"
    BY <1>1, <1>8, <1>10, <2>1, <2>2
  <2> QED BY <1>2, <2>3 DEF ApOK, Released
<1>16. CounterOK'
  BY <1>1, <1>2, <1>3, <1>5, BspCounterFrame
<1>17. SignalsOK'
  <2>1. \A c \in CPU : pc[c] \notin Signalled("busy")
    BY DEF Signalled, Gather
  <2>2. Count(pc, Signalled("busy")) = 0
    BY <2>1, CountNone
  <2> QED BY <1>3, <1>10, <2>2, BspSignals
<1> QED BY <1>1, <1>2, <1>3, <1>4, <1>10, <1>11, <1>12, <1>13, <1>14, <1>15, <1>16, <1>17, BspMoveInv

\* WaitForAllAPsNotBusy after the core has returned: no procedure is left.
LEMMA BspAllIdleInv ==
  ASSUME Inv, NEW b \in CPU, BspAllIdle(b)
  PROVE  Inv'
<1> DEFINE q == IF GatherFirst THEN "exit" ELSE "sync2"
<1>1. /\ pc[b] = "idle" /\ WaitForAllAPsNotBusy /\ pc' = [pc EXCEPT ![b] = q]
      /\ UNCHANGED <<mode, bsp, Counter, ApCount, BspIndex, Run, owed, Busy, Present, InsideSmm,
                     AllCpusInSync, CurrentlyExecutingCpu>>
  BY DEF BspAllIdle, Goto, sync, local, task
<1>2. /\ pc[b] \in BspMain /\ q \in BspMain /\ pc[b] \in PresentAt /\ q \in PresentAt
      /\ (Locks(q) <=> Locks(pc[b])) /\ (Unsettled(pc[b]) => Unsettled(q))
      /\ pc[b] \in Tasks /\ q \notin Tasks /\ pc[b] \in Inside /\ q \in Inside
  BY <1>1 DEF BspMain, BspAt, BspExit, BspGather, BspProgram, PresentAt, ApIn, Locks, Unsettled,
    BspCore, Inside, Tasks
<1>3. BspMove(b, q)
  BY <1>1, <1>2 DEF BspMove
<1>4. /\ MainOK(b) /\ Present[b]
      /\ \A c \in CPU : pc[c] \in Aps => Meets(pc[b], pc[c])
      /\ \A c \in CPU : pc[c] \in ApIn => ApOK(pc[b], c)
      /\ ~Unsettled(pc[b]) => \A c \in CPU : pc[c] # "unsync"
      /\ mode.mtrr => GatherFirst
  BY <1>2, BspFacts
<1>5. \A c \in CPU : IsPresentAp(c) <=> pc[c] \in ApIn \ {"present", "resetDone"}
  BY <1>1, <1>2, PresentApsFacts
<1>6. ASSUME NEW c \in CPU, pc[c] \in ApIn
      PROVE  /\ pc[c] = "wait" \/ (pc[c] = "present" /\ ~GatherFirst)
             /\ owed[c] = 0 /\ ~Busy[c] /\ Run[c] = 0
  <2>1. ApOK(pc[b], c) /\ Meets("idle", pc[c])
    BY <1>1, <1>4, <1>6 DEF Aps
  <2>2. /\ pc[c] \in {"present", "wait", "check", "run", "ran"}
        /\ pc[c] = "present" => ~GatherFirst
    BY <1>6, <2>1 DEF Meets, ApIn, Arrivals, Gather
  <2>3. pc[c] # "present" => ~Busy[c]
    BY <1>1, <1>5, <1>6, <2>2 DEF WaitForAllAPsNotBusy, PresentAps
  <2>4. pc[c] \notin {"check", "run", "ran"}
    BY <1>2, <2>1, <2>3 DEF ApOK
  <2>5. owed[c] = 0 /\ ~Busy[c] /\ Run[c] = 0
    BY <1>1, <2>1, <2>2, <2>3, <2>4 DEF ApOK, Released
  <2> QED BY <2>2, <2>4, <2>5
<1>7. ASSUME NEW c \in CPU, pc[c] \in Aps
      PROVE  Meets(q, pc[c]) /\ (pc[c] \in Signalled(q) <=> pc[c] \in Signalled(pc[b]))
  <2>1. Meets("idle", pc[c])
    BY <1>1, <1>4, <1>7
  <2>2. CASE pc[c] \in ApIn
    BY <1>1, <1>6, <2>2 DEF Meets, Signalled, Arrivals, Gather
  <2>3. CASE pc[c] \in ApWaiting
    <3>1. ~GatherFirst
      BY <2>1, <2>3 DEF ApWaiting, Meets, Arrivals, Unsettled, Gather
    <3>2. pc[c] \notin ApIn
      BY <2>3, PlacesApart
    <3>3. Meets("sync2", pc[c])
      BY <2>3, <3>1 DEF Meets, Arrivals, Unsettled, ApWaiting
    <3> QED BY <3>1, <3>2, <3>3 DEF Signalled
  <2> QED BY <1>7, <2>2, <2>3 DEF Aps
<1>8. \A c \in CPU : pc[c] \in ApIn => ApOK(q, c)
  BY <1>2, <1>6 DEF ApOK, Released
<1>9. MainOK(b)'
  <2>1. pc'[b] = q /\ (GatherFirst' <=> GatherFirst)
    BY <1>1, <1>3, BspMoveFacts, ModeFrame
  <2> QED BY <1>1, <1>2, <1>4, <2>1 DEF MainOK
<1>10. /\ Busy' \in [CPU -> BOOLEAN] /\ Present' \in [CPU -> BOOLEAN] /\ CurrentlyExecutingCpu' \in CPU
       /\ InsideSmm' \in BOOLEAN /\ AllCpusInSync' \in BOOLEAN
  BY <1>1 DEF Inv, Types
<1>11. pc[b] \notin {"absent", "gone", "open"} /\ q \notin {"absent", "gone", "open"}
  BY <1>1
<1> HIDE DEF q
<1> QED BY <1>1, <1>2, <1>3, <1>4, <1>7, <1>8, <1>9, <1>10, <1>11, BspQuietInv

\* As many Present flags as processors counted: every AP has set its own.
LEMMA BspAllPresentInv ==
  ASSUME Inv, NEW b \in CPU, BspAllPresent(b)
  PROVE  Inv'
<1>1. /\ pc[b] = "allPresent" /\ pc' = [pc EXCEPT ![b] = "exit"]
      /\ Cardinality({d \in CPU : Present[d]}) > ApCount
      /\ UNCHANGED <<mode, bsp, Counter, ApCount, BspIndex, Run, owed, Busy, Present, InsideSmm,
                     AllCpusInSync, CurrentlyExecutingCpu>>
  BY DEF BspAllPresent, Goto, sync, local, task
<1>2. /\ pc[b] \in BspMain /\ "exit" \in BspMain /\ pc[b] \in PresentAt /\ "exit" \in PresentAt
      /\ Locks("exit") /\ Locks(pc[b]) /\ ~Unsettled(pc[b])
      /\ pc[b] \notin Tasks /\ "exit" \notin Tasks /\ pc[b] \in Inside /\ "exit" \in Inside
  BY <1>1 DEF BspMain, BspAt, BspExit, BspGather, BspProgram, PresentAt, ApIn, Locks, Unsettled,
    BspCore, Inside, Tasks
<1>3. BspMove(b, "exit")
  BY <1>1, <1>2 DEF BspMove
<1>4. /\ MainOK(b) /\ Present[b]
      /\ \A c \in CPU : pc[c] \in Aps => Meets(pc[b], pc[c])
      /\ \A c \in CPU : pc[c] \in ApIn => ApOK(pc[b], c)
      /\ \A c \in CPU : pc[c] # "unsync"
  BY <1>2, BspFacts
<1>5. \A c \in CPU : pc[c] \in Counted => pc[c] \in PresentAt
  <2>1. {d \in CPU : Present[d]} = {d \in CPU : pc[d] \in PresentAt}
    BY DEF Inv, PresentOK
  <2>2. Count(pc, PresentAt) > ApCount
    BY <1>1, <2>1 DEF Count
  <2>3. ApCount = Count(pc, Aps)
    BY <1>1, <1>2 DEF Inv, CounterOK
  <2>4. Count(pc, Counted) = Count(pc, Aps) + 1
    BY <1>2, CountedAps
  <2>5. Count(pc, PresentAt) \in Nat /\ Count(pc, Aps) \in Nat
    BY CountType
  <2>6. Count(pc, PresentAt) >= Count(pc, Counted)
    BY <2>2, <2>3, <2>4, <2>5
  <2>7. PresentAt \subseteq Counted
    BY DEF PresentAt, Counted, Aps
  <2> QED BY <2>6, <2>7, CountAll
<1>6. \A c \in CPU : pc[c] \in Aps => pc[c] = "wait"
  <2> SUFFICES ASSUME NEW c \in CPU, pc[c] \in Aps
               PROVE  pc[c] = "wait"
    OBVIOUS
  <2>1. pc[c] \in ApIn \ {"present", "resetDone"}
    BY <1>5, PlacesApart DEF Counted, PresentAt, Aps, BspMain
  <2> QED BY <1>1, <1>4, <2>1 DEF Meets, ApIn, Gather, Tasks, BspCore
<1>7. \A c \in CPU : pc[c] \in Aps =>
        Meets("exit", pc[c]) /\ (pc[c] \in Signalled("exit") <=> pc[c] \in Signalled(pc[b]))
  BY <1>1, <1>6 DEF Meets, Signalled, Gather
<1>8. \A c \in CPU : pc[c] \in ApIn => ApOK("exit", c)
  BY <1>1, <1>2, <1>4 DEF ApOK, Released
<1>9. MainOK(b)'
  <2>1. pc'[b] = "exit" /\ (GatherFirst' <=> GatherFirst)
    BY <1>1, <1>3, BspMoveFacts, ModeFrame
  <2> QED BY <1>1, <1>2, <1>4, <2>1 DEF MainOK
<1>10. /\ Busy' \in [CPU -> BOOLEAN] /\ Present' \in [CPU -> BOOLEAN] /\ CurrentlyExecutingCpu' \in CPU
       /\ InsideSmm' \in BOOLEAN /\ AllCpusInSync' \in BOOLEAN
  BY <1>1 DEF Inv, Types
<1> QED BY <1>1, <1>2, <1>3, <1>4, <1>7, <1>8, <1>9, <1>10, BspQuietInv

\* The BSP withdraws its own Present flag.
LEMMA BspAbsentInv ==
  ASSUME Inv, NEW b \in CPU, BspAbsent(b)
  PROVE  Inv'
<1>1. /\ pc[b] = "absent" /\ pc' = [pc EXCEPT ![b] = "gone"]
      /\ Present' = [Present EXCEPT ![b] = FALSE]
      /\ UNCHANGED <<mode, bsp, Counter, ApCount, BspIndex, Run, owed, Busy, InsideSmm,
                     AllCpusInSync, CurrentlyExecutingCpu>>
  BY DEF BspAbsent, Goto, sync, local, task
<1>2. /\ pc[b] \in BspMain /\ "gone" \in BspMain /\ "gone" \notin PresentAt /\ "gone" \in Places
      /\ Locks("gone") /\ Locks(pc[b]) /\ ~Unsettled(pc[b])
      /\ pc[b] \notin Tasks /\ "gone" \notin Tasks /\ pc[b] \notin Inside /\ "gone" \notin Inside
      /\ {"absent", "gone"} \subseteq BspMain
  BY <1>1 DEF BspMain, BspAt, BspExit, BspGather, BspProgram, PresentAt, ApIn, Locks, Unsettled,
    BspCore, Inside, Tasks, Places
<1>3. BspMove(b, "gone")
  BY <1>1, <1>2 DEF BspMove
<1>4. /\ MainOK(b)
      /\ \A c \in CPU : pc[c] \in Aps => Meets(pc[b], pc[c])
      /\ \A c \in CPU : pc[c] \in ApIn => ApOK(pc[b], c)
      /\ \A c \in CPU : pc[c] # "unsync"
  BY <1>2, BspFacts
<1>5. /\ pc'[b] = "gone" /\ (GatherFirst' <=> GatherFirst)
      /\ \A d \in CPU \ {b} : pc'[d] = pc[d]
      /\ \A c \in CPU : pc[c] \in Aps => c # b
      /\ \A d \in CPU : pc'[d] \in BspMain <=> d = b
      /\ Count(pc', {"reset", "resetDone"}) = Count(pc, {"reset", "resetDone"})
  BY <1>1, <1>3, BspMoveFacts, ModeFrame
<1>6. Types'
  BY <1>1, <1>2 DEF Inv, Types
<1>7. ElectionOK'
  BY <1>1 DEF Inv, ElectionOK
<1>8. MainOK(b)'
  BY <1>1, <1>2, <1>4, <1>5 DEF MainOK
<1>9. \A c \in CPU : pc[c] \in Aps => Meets("gone", pc[c])
  BY <1>1, <1>4 DEF Meets, Arrivals, Gather, Unsettled, Tasks, BspCore
<1>10. ASSUME NEW c \in CPU, pc[c] \in ApIn
       PROVE  ApOK(pc[b], c)'
  <2>1. c # b /\ ApOK("absent", c)
    BY <1>1, <1>4, <1>5, <1>10 DEF Aps
  <2>2. ApOK("gone", c)
    BY <1>1, <1>2, <2>1 DEF ApOK, Released
  <2>3. Run'[c] = Run[c] /\ owed'[c] = owed[c] /\ Busy'[c] = Busy[c] /\ pc'[c] = pc[c] /\ pc'[b] = "gone"
    BY <1>1, <1>5, <2>1
  <2> QED BY <2>2, <2>3 DEF ApOK, Released
<1>11. CounterOK'
  BY <1>1, <1>2, <1>3, BspCounterFrame
<1>12. SignalsOK'
  <2>1. Run[b] + Count(pc, {"reset", "resetDone"}) = ApCount
    BY <1>1 DEF Inv, SignalsOK
  <2> QED BY <1>1, <1>2, <1>5, <2>1 DEF SignalsOK
<1>13. ~Present'[b] /\ \A c \in CPU \ {b} : Present'[c] = Present[c]
  BY <1>1 DEF Inv, Types
<1> QED BY <1>1, <1>2, <1>3, <1>4, <1>6, <1>7, <1>8, <1>9, <1>10, <1>11, <1>12, <1>13, BspMoveInv

\* The last wait: all APs have left APHandler.
LEMMA BspGoneInv ==
  ASSUME Inv, NEW b \in CPU, BspGone(b)
  PROVE  Inv'
<1>1. /\ pc[b] = "gone" /\ pc' = [pc EXCEPT ![b] = "open"]
      /\ Run[b] >= ApCount /\ Run' = [Run EXCEPT ![b] = @ - ApCount] /\ ApCount' = 0
      /\ BspIndex' = (IF mode.election = "fixed" THEN BspIndex ELSE NoCpu)
      /\ UNCHANGED <<mode, bsp, Counter, owed, Busy, InsideSmm, AllCpusInSync, Present,
                     CurrentlyExecutingCpu>>
  BY DEF BspGone, WaitForAllAPs, AllAPsSignalled, Goto
<1>2. /\ pc[b] \in BspMain /\ "open" \in BspMain /\ "open" \notin PresentAt /\ pc[b] \notin PresentAt
      /\ "open" \in Places /\ Locks("open") /\ Locks(pc[b]) /\ ~Unsettled(pc[b])
      /\ pc[b] \notin Inside /\ "open" \notin Inside
  BY <1>1 DEF BspMain, BspAt, BspExit, BspGather, BspProgram, PresentAt, ApIn, Locks, Unsettled,
    BspCore, Inside, Places
<1>3. BspMove(b, "open")
  BY <1>1, <1>2 DEF BspMove
<1>4. /\ MainOK(b) /\ ~Present[b]
      /\ \A c \in CPU : pc[c] \in Aps => Meets(pc[b], pc[c])
      /\ \A c \in CPU : pc[c] # "unsync"
  BY <1>2, BspFacts
<1>5. pc'[b] = "open" /\ \A d \in CPU : pc'[d] \in BspMain <=> d = b
  BY <1>3, BspMoveFacts
<1>6. Run \in [CPU -> Nat] /\ ApCount \in Nat
  BY CountType DEF Inv, Types
<1>7. Run[b] = ApCount /\ Count(pc, {"reset", "resetDone"}) = 0
  <2>1. Run[b] + Count(pc, {"reset", "resetDone"}) = ApCount
    BY <1>1 DEF Inv, SignalsOK
  <2>2. Count(pc, {"reset", "resetDone"}) \in Nat /\ Run[b] \in Nat
    BY <1>6, CountType
  <2> QED BY <1>1, <1>6, <2>1, <2>2
<1>8. \A c \in CPU : pc[c] \notin Aps
  <2>1. \A c \in CPU : pc[c] \notin {"reset", "resetDone"}
    BY <1>7, CountNone
  <2> QED BY <1>1, <1>4, <2>1 DEF Meets, Aps, ApIn, ApWaiting, Arrivals, Gather, Unsettled, Tasks, BspCore
<1>9. Run' \in [CPU -> Nat] /\ Run'[b] = 0 /\ \A c \in CPU \ {b} : Run'[c] = Run[c]
  BY <1>1, <1>6, <1>7
<1>10. Types'
  <2>1. ApCount' \in 0..NumberOfCpus
    BY <1>1, ConstantsAssumption, FS_CardinalityType DEF NumberOfCpus
  <2>2. pc' \in [CPU -> Places] /\ BspIndex' \in CPU \cup {NoCpu}
    BY <1>1, <1>2 DEF Inv, Types
  <2> QED BY <1>1, <1>9, <2>1, <2>2 DEF Inv, Types
<1>11. ElectionOK'
  BY <1>1 DEF Inv, ElectionOK
<1>12. MainOK(b)'
  BY <1>1, <1>2, <1>4, <1>5 DEF MainOK
<1>13. CounterOK'
  <2>1. Locks(pc[b])'
    BY <1>1, <1>2, <1>5, ModeFrame
  <2>2. Counter = Top
    BY <1>2 DEF Inv, CounterOK
  <2> QED BY <1>1, <1>5, <2>1, <2>2 DEF CounterOK
<1>14. SignalsOK'
  <2>1. \A c \in CPU : pc[c] \notin Signalled("open")
    BY DEF Signalled, Gather
  <2>2. Count(pc, Signalled("open")) = 0
    BY <2>1, CountNone
  <2> QED BY <1>3, <1>9, <2>2, BspSignals
<1>15. \A c \in CPU : pc[c] \notin ApIn /\ pc[c] \notin ApWaiting
  BY <1>8 DEF Aps
<1> QED BY <1>1, <1>2, <1>3, <1>4, <1>8, <1>9, <1>10, <1>11, <1>12, <1>13, <1>14, <1>15, BspMoveInv

\* The Counter is opened when nobody is counted any more.
LEMMA BspOpenInv ==
  ASSUME Inv, NEW b \in CPU, BspOpen(b)
  PROVE  Inv'
<1>1. /\ pc[b] = "open" /\ pc' = [pc EXCEPT ![b] = "unsync"] /\ Counter' = 0
      /\ UNCHANGED <<mode, bsp, BspIndex, Run, ApCount, owed, Busy, InsideSmm, AllCpusInSync, Present,
                     CurrentlyExecutingCpu>>
  BY DEF BspOpen, Goto, task, local
<1>2. /\ pc[b] \in BspMain /\ "open" \notin PresentAt /\ "unsync" \notin PresentAt
      /\ "unsync" \in Places /\ "unsync" \notin BspMain /\ "unsync" \notin Aps /\ "unsync" \notin Counted
      /\ "open" \notin Inside
  BY <1>1, PlacesApart DEF BspMain, BspAt, BspExit, BspGather, BspProgram, BspCore, PresentAt, ApIn, ApWaiting,
    Places, Aps, Counted
<1>3. /\ MainOK(b) /\ ~Present[b]
      /\ \A c \in CPU : pc[c] \in Aps => Meets(pc[b], pc[c])
  BY <1>1, <1>2, BspFacts
<1>4. \A c \in CPU : pc[c] \notin Aps
  BY <1>1, <1>3 DEF Meets, Aps, ApIn, ApWaiting, Arrivals, Gather, Unsettled, Tasks, BspCore
<1>5. pc \in [CPU -> Places] /\ pc'[b] = "unsync" /\ \A d \in CPU \ {b} : pc'[d] = pc[d] /\ pc[d] \notin BspMain
  BY <1>1, <1>2 DEF Inv, Types, BspOK
<1>6. \A d \in CPU : pc'[d] \notin BspMain /\ pc'[d] \notin Aps /\ pc'[d] \notin Counted
  BY <1>2, <1>4, <1>5 DEF Counted
<1>7. ~InsideSmm
  BY <1>1, <1>2, <1>3 DEF MainOK
<1>8. Run[b] = 0
  <2>1. Run[b] = Count(pc, Signalled("open"))
    BY <1>1, <1>2 DEF Inv, SignalsOK
  <2>2. \A c \in CPU : pc[c] \notin Signalled("open")
    BY DEF Signalled, Gather
  <2> QED BY <2>1, <2>2, CountNone
<1>9. Types'
  BY <1>1, <1>2 DEF Inv, Types
<1>10. ElectionOK'
  BY <1>1 DEF Inv, ElectionOK
<1>11. BspOK'
  BY <1>1, <1>6, <1>7 DEF BspOK
<1>12. ApsOK'
  <2>1. \A d \in CPU : pc'[d] \notin ApIn /\ pc'[d] \notin ApWaiting /\ pc[d] \notin ApIn
    BY <1>4, <1>6 DEF Aps
  <2>2. \A d \in CPU : Run'[d] = 0 /\ owed'[d] = 0
    BY <1>1, <1>5, <1>8, <2>1 DEF Inv, ApsOK
  <2> QED BY <1>6, <2>1, <2>2 DEF ApsOK
<1>13. PresentOK'
  BY <1>1, <1>2, <1>3, <1>5 DEF Inv, PresentOK
<1>14. CounterOK'
  <2>1. Count(pc', Counted) = 0
    BY <1>6, CountNone
  <2>2. Top # 0
    BY ConstantsAssumption, FS_CardinalityType
  <2> QED BY <1>1, <1>6, <2>1, <2>2 DEF CounterOK
<1>15. SignalsOK'
  <2>1. {"absent", "gone"} \subseteq BspMain
    BY DEF BspMain, BspAt, BspExit
  <2> QED BY <1>6, <2>1 DEF SignalsOK
<1> QED BY <1>9, <1>10, <1>11, <1>12, <1>13, <1>14, <1>15 DEF Inv

-----------------------------------------------------------------------------
(* Procedures for the APs. *)

\* What has to be shown for a step of the BSP while the core runs.
LEMMA TaskStep ==
  ASSUME Inv, NEW b \in CPU, NEW q \in Tasks, pc[b] \in Tasks, pc' = [pc EXCEPT ![b] = q],
         UNCHANGED <<mode, bsp, Counter, ApCount, BspIndex, Present, InsideSmm, AllCpusInSync,
                     CurrentlyExecutingCpu>>,
         Run' \in [CPU -> Nat], owed' \in [CPU -> Nat], Busy' \in [CPU -> BOOLEAN],
         q \in {"acquire", "schedule", "release"} => GatherFirst,
         q \in {"schedule", "release"} => \A c \in CPU : pc[c] \in ApIn => pc[c] = "wait",
         \A c \in CPU : pc[c] \notin ApIn =>
           Run'[c] = Run[c] /\ owed'[c] = owed[c] /\ Busy'[c] = Busy[c],
         \A c \in CPU : pc[c] \in ApIn /\ pc'[c] = pc[c] /\ pc'[b] = q => ApOK(pc[b], c)'
  PROVE  Inv'
<1>1. /\ \A p \in Tasks : /\ p \in BspMain /\ p \in PresentAt /\ p \in Inside /\ p \in Places
                          /\ Locks(p) <=> GatherFirst
                          /\ Unsettled(p) <=> ~GatherFirst
                          /\ Arrivals(p) <=> ~GatherFirst
                          /\ p \notin {"absent", "gone", "open", "enter", "clear"}
                          /\ Signalled(p) = {}
                          /\ p \notin Gather
      /\ "schedule" \in Tasks /\ "release" \in Tasks
  BY DEF Tasks, BspCore, BspMain, BspAt, PresentAt, Inside, Places, Locks, Unsettled, Arrivals, Gather,
    Signalled, BspProgram, BspExit
<1>2. BspMove(b, q)
  BY <1>1 DEF BspMove
<1>3. /\ MainOK(b) /\ Present[b]
      /\ \A c \in CPU : pc[c] \in Aps => Meets(pc[b], pc[c])
      /\ ~Unsettled(pc[b]) => \A c \in CPU : pc[c] # "unsync"
  BY <1>1, BspFacts
<1>4. /\ pc'[b] = q /\ (GatherFirst' <=> GatherFirst)
      /\ \A d \in CPU \ {b} : pc'[d] = pc[d]
      /\ \A c \in CPU : pc[c] \in Aps => c # b
  BY <1>2, BspMoveFacts, ModeFrame
<1>5. Types'
  BY <1>1 DEF Inv, Types
<1>6. ElectionOK'
  BY DEF Inv, ElectionOK
<1>7. MainOK(b)'
  <2>1. q \notin {"save", "saved", "program", "programmed", "osMtrrs", "osDone",
                  "arrival1", "arrival2", "sync", "lock", "arrived", "sync2", "lock2", "allPresent"}
    BY DEF Tasks, BspCore
  <2> QED BY <1>1, <1>3, <1>4, <2>1 DEF MainOK
<1>8. ASSUME NEW c \in CPU, pc[c] \in Aps
      PROVE  Meets(q, pc[c])
  <2>1. Meets(pc[b], pc[c])
    BY <1>3, <1>8
  <2>2. pc[c] \in {"check", "run", "ran"} => q \notin {"schedule", "release"}
    BY DEF ApIn
  <2>3. pc[c] \in {"elect", "timer1", "timer2", "giveUp", "present", "wait", "check", "run", "ran"}
    <3>1. pc[b] \notin {"save", "saved", "program", "programmed", "osMtrrs", "osDone", "tasks", "absent", "gone"}
      BY DEF Tasks, BspCore
    <3> QED BY <1>1, <1>8, <2>1, <3>1 DEF Meets, Aps, ApIn, ApWaiting
  <2>4. /\ pc[c] \in {"elect", "timer1", "timer2"} => Arrivals(q)
        /\ pc[c] = "giveUp" => Unsettled(q)
        /\ pc[c] = "present" => Arrivals(q)
    BY <1>1, <2>1 DEF Meets
  <2> QED BY <2>2, <2>3, <2>4 DEF Meets
<1>9. CounterOK'
  BY <1>1, <1>2, BspCounterFrame
<1>10. Run'[b] = Run[b]
  <2>1. pc[b] \notin ApIn
    BY DEF Tasks, BspCore, ApIn
  <2> QED BY <2>1
<1>11. SignalsOK'
  BY <1>1, <1>2, <1>10, BspSignalsFrame
<1>12. \A c \in CPU : pc[c] \in ApIn => ApOK(pc[b], c)'
  BY <1>4 DEF Aps
<1>13. \A c \in CPU : pc[c] \in ApWaiting => pc[c] \notin ApIn
  BY PlacesApart
<1> QED BY <1>1, <1>2, <1>3, <1>5, <1>6, <1>7, <1>8, <1>9, <1>11, <1>12, <1>13, BspMoveInv

\* An AP whose BUSY lock is free waits, without a procedure to run.
LEMMA IdleAp ==
  ASSUME Inv, NEW b \in CPU, pc[b] \in Tasks, NEW c \in CPU, IsPresentAp(c), ~Busy[c]
  PROVE  /\ pc[c] = "wait" /\ pc[c] \in ApIn /\ c # b
         /\ owed[c] = 0 /\ Run[c] = 0 /\ ApOK(pc[b], c) /\ pc[b] \notin {"schedule", "release"}
<1>1. pc[b] \in BspMain /\ pc[b] \notin {"enter", "clear", "open"} /\ pc[b] \notin Gather
      /\ pc[b] \notin {"save", "saved", "program", "programmed", "osMtrrs", "osDone", "tasks", "absent", "gone"}
  BY DEF Tasks, BspCore, BspMain, BspAt, Gather, BspExit
<1>2. pc[c] \in ApIn \ {"present", "resetDone"}
  BY <1>1, PresentApsFacts
<1>3. Meets(pc[b], pc[c]) /\ ApOK(pc[b], c)
  BY <1>1, <1>2, BspFacts DEF Aps
<1>4. pc[c] \in {"wait", "check", "run", "ran"}
  BY <1>1, <1>2, <1>3 DEF Meets, ApIn
<1>5. pc[c] = "wait" /\ owed[c] = 0
  BY <1>3, <1>4 DEF ApOK
<1>6. pc[b] \notin {"schedule", "release"}
  BY <1>3, <1>5 DEF ApOK
<1>7. Run[c] = 0
  BY <1>1, <1>3, <1>5 DEF ApOK, Released
<1>8. c # b
  BY <1>2 DEF Tasks, BspCore, ApIn
<1> QED BY <1>2, <1>3, <1>5, <1>6, <1>7, <1>8

\* InternalSmmStartupThisAp.
LEMMA StartupThisApInv ==
  ASSUME Inv, NEW b \in CPU, NEW ap \in CPU, NEW blocking \in BOOLEAN, NEW token \in BOOLEAN,
         StartupThisAp(b, ap, blocking, token)
  PROVE  Inv'
<1>1. PICK q \in {"block", "core"} : pc[b] = "core" /\ pc' = [pc EXCEPT ![b] = q]
  BY DEF StartupThisAp, Goto
<1>2. /\ IsPresentAp(ap) /\ ~Busy[ap] /\ Busy' = [Busy EXCEPT ![ap] = TRUE]
      /\ owed' = [owed EXCEPT ![ap] = @ + 1]
      /\ Run' = [Run EXCEPT ![ap] = IF @ = Top THEN Top ELSE @ + 1]
      /\ UNCHANGED <<mode, bsp, Counter, ApCount, BspIndex, Present, InsideSmm, AllCpusInSync,
                     CurrentlyExecutingCpu>>
  BY DEF StartupThisAp, ReleaseSemaphore, sync, local
<1>3. q \in Tasks /\ pc[b] \in Tasks
  BY <1>1 DEF Tasks, BspCore
<1>4. pc[ap] = "wait" /\ pc[ap] \in ApIn /\ ap # b /\ owed[ap] = 0 /\ Run[ap] = 0
  BY <1>2, <1>3, IdleAp
<1>5. Run \in [CPU -> Nat] /\ owed \in [CPU -> Nat] /\ Busy \in [CPU -> BOOLEAN] /\ Top \in Nat /\ Top # 0
  BY ConstantsAssumption, FS_CardinalityType DEF Inv, Types
<1>6. /\ Run' \in [CPU -> Nat] /\ owed' \in [CPU -> Nat] /\ Busy' \in [CPU -> BOOLEAN]
      /\ Run'[ap] = 1 /\ owed'[ap] = 1 /\ Busy'[ap]
      /\ \A c \in CPU \ {ap} : Run'[c] = Run[c] /\ owed'[c] = owed[c] /\ Busy'[c] = Busy[c]
  BY <1>2, <1>4, <1>5
<1>7. ASSUME NEW c \in CPU, pc[c] \in ApIn, pc'[c] = pc[c] /\ pc'[b] = q
      PROVE  ApOK(pc[b], c)'
  <2>1. CASE c = ap
    BY <1>1, <1>3, <1>4, <1>6, <1>7, <2>1 DEF ApOK, Released
  <2>2. CASE c # ap
    <3>1. pc[b] \in BspMain
      BY <1>1 DEF BspMain, BspAt, BspCore
    <3>2. ApOK(pc[b], c)
      BY <1>7, <3>1, BspFacts
    <3>3. q \notin {"schedule", "release"} /\ ~Released(q, pc[c]) /\ ~Released(pc[b], pc[c])
      BY <1>1 DEF Released
    <3>4. ApOK(q, c)
      BY <1>1, <1>3, <3>2, <3>3 DEF ApOK
    <3>5. Run'[c] = Run[c] /\ owed'[c] = owed[c] /\ Busy'[c] = Busy[c] /\ pc'[c] = pc[c] /\ pc'[b] = q
      BY <1>6, <1>7, <2>2
    <3> QED BY <3>4, <3>5 DEF ApOK, Released
  <2> QED BY <2>1, <2>2
<1>8. \A c \in CPU : pc[c] \notin ApIn =>
        Run'[c] = Run[c] /\ owed'[c] = owed[c] /\ Busy'[c] = Busy[c]
  BY <1>4, <1>6
<1>9. q \notin {"acquire", "schedule", "release"}
  BY <1>1
<1>10. /\ UNCHANGED <<mode, bsp, Counter, ApCount, BspIndex, Present, InsideSmm, AllCpusInSync,
                      CurrentlyExecutingCpu>>
       /\ Run' \in [CPU -> Nat] /\ owed' \in [CPU -> Nat] /\ Busy' \in [CPU -> BOOLEAN]
  BY <1>2, <1>6
<1>11. pc' = [pc EXCEPT ![b] = q]
  BY <1>1
<1> QED BY <1>3, <1>7, <1>8, <1>9, <1>10, <1>11, TaskStep

\* InternalSmmStartupAllAPs takes the BUSY locks, gives the APs the procedure
\* and releases them: since they have all arrived, the same ones each time.
LEMMA StartupAllInv ==
  ASSUME Inv, NEW b \in CPU, AcquireAllBusy(b) \/ ScheduleAll(b) \/ ReleaseScheduled(b)
  PROVE  Inv'
<1>1. /\ pc[b] \in {"acquire", "schedule", "release"}
      /\ UNCHANGED <<mode, bsp, Counter, ApCount, BspIndex, Present, InsideSmm, AllCpusInSync,
                     CurrentlyExecutingCpu>>
  BY DEF AcquireAllBusy, ScheduleAll, ReleaseScheduled, sync, local
<1>2. pc[b] \in Tasks /\ pc[b] \in BspMain /\ {"schedule", "release", "block", "core"} \subseteq Tasks
  BY <1>1 DEF Tasks, BspCore, BspMain, BspAt
<1>3. /\ MainOK(b) /\ \A c \in CPU : pc[c] \in ApIn => ApOK(pc[b], c) /\ Meets(pc[b], pc[c])
  BY <1>2, BspFacts DEF Aps
<1>4. GatherFirst
  BY <1>1, <1>3 DEF MainOK
<1>5. \A c \in CPU : pc[c] \in ApIn => pc[c] \in {"wait", "check", "run", "ran"}
  BY <1>1, <1>3, <1>4 DEF Meets, ApIn, Arrivals, Gather, BspCore
<1>6. \A c \in CPU : IsPresentAp(c) <=> pc[c] \in ApIn
  BY <1>1, <1>2, <1>5, PresentApsFacts
<1>7. Run \in [CPU -> Nat] /\ owed \in [CPU -> Nat] /\ Busy \in [CPU -> BOOLEAN] /\ Top \in Nat /\ Top # 0
  BY ConstantsAssumption, FS_CardinalityType DEF Inv, Types
<1>8. CASE AcquireAllBusy(b)
  <2>1. /\ pc[b] = "acquire" /\ pc' = [pc EXCEPT ![b] = "schedule"]
        /\ \A d \in CPU : IsPresentAp(d) => ~Busy[d]
        /\ Busy' = [d \in CPU |-> Busy[d] \/ IsPresentAp(d)]
        /\ UNCHANGED <<Run, owed>>
    BY <1>8 DEF AcquireAllBusy, PresentAps, Goto
  <2>2. \A c \in CPU : pc[c] \in ApIn => pc[c] = "wait" /\ owed[c] = 0 /\ Run[c] = 0
    BY <1>2, <1>6, <2>1, IdleAp
  <2>3. /\ Busy' \in [CPU -> BOOLEAN]
        /\ \A c \in CPU : pc[c] \notin ApIn => Busy'[c] = Busy[c]
        /\ \A c \in CPU : pc[c] \in ApIn => Busy'[c]
    BY <1>6, <1>7, <2>1
  <2>4. ASSUME NEW c \in CPU, pc[c] \in ApIn, pc'[c] = pc[c] /\ pc'[b] = "schedule"
        PROVE  ApOK(pc[b], c)'
    <3>1. pc'[c] = "wait" /\ owed'[c] = 0 /\ Run'[c] = 0 /\ Busy'[c] /\ pc'[b] = "schedule"
      BY <2>1, <2>2, <2>3, <2>4
    <3> QED BY <1>2, <3>1 DEF ApOK, Released
  <2> QED BY <1>1, <1>2, <1>4, <1>7, <2>1, <2>2, <2>3, <2>4, TaskStep
<1>9. CASE ScheduleAll(b)
  <2>1. /\ pc[b] = "schedule" /\ pc' = [pc EXCEPT ![b] = "release"]
        /\ owed' = [d \in CPU |-> IF IsPresentAp(d) THEN owed[d] + 1 ELSE owed[d]]
        /\ UNCHANGED <<Run, Busy>>
    BY <1>9 DEF ScheduleAll, PresentAps, Goto
  <2>2. \A c \in CPU : pc[c] \in ApIn => pc[c] = "wait" /\ owed[c] = 0 /\ Run[c] = 0 /\ Busy[c]
    BY <1>3, <1>5, <2>1 DEF ApOK, Meets, Released
  <2>3. /\ owed' \in [CPU -> Nat]
        /\ \A c \in CPU : pc[c] \notin ApIn => owed'[c] = owed[c]
        /\ \A c \in CPU : pc[c] \in ApIn => owed'[c] = 1
    BY <1>6, <1>7, <2>1, <2>2
  <2>4. ASSUME NEW c \in CPU, pc[c] \in ApIn, pc'[c] = pc[c] /\ pc'[b] = "release"
        PROVE  ApOK(pc[b], c)'
    <3>1. pc'[c] = "wait" /\ owed'[c] = 1 /\ Run'[c] = 0 /\ Busy'[c] /\ pc'[b] = "release"
      BY <2>1, <2>2, <2>3, <2>4
    <3> QED BY <1>2, <3>1 DEF ApOK, Released
  <2> QED BY <1>1, <1>2, <1>4, <1>7, <2>1, <2>2, <2>3, <2>4, TaskStep
<1>10. CASE ReleaseScheduled(b)
  <2>1. PICK q \in {"block", "core"} : pc' = [pc EXCEPT ![b] = q]
    BY <1>10 DEF ReleaseScheduled, Goto
  <2>2. /\ pc[b] = "release"
        /\ Run' = [d \in CPU |-> IF IsPresentAp(d) /\ Run[d] # Top THEN Run[d] + 1 ELSE Run[d]]
        /\ UNCHANGED <<owed, Busy>>
    BY <1>10 DEF ReleaseScheduled, ReleaseAllAPs, task
  <2>3. \A c \in CPU : pc[c] \in ApIn => pc[c] = "wait" /\ owed[c] = 1 /\ Run[c] = 0 /\ Busy[c]
    BY <1>3, <1>5, <2>2 DEF ApOK, Meets, Released
  <2>4. /\ Run' \in [CPU -> Nat]
        /\ \A c \in CPU : pc[c] \notin ApIn => Run'[c] = Run[c]
        /\ \A c \in CPU : pc[c] \in ApIn => Run'[c] = 1
    BY <1>6, <1>7, <2>2, <2>3
  <2>5. ASSUME NEW c \in CPU, pc[c] \in ApIn, pc'[c] = pc[c] /\ pc'[b] = q
        PROVE  ApOK(pc[b], c)'
    <3>1. pc'[c] = "wait" /\ owed'[c] = 1 /\ Run'[c] = 1 /\ Busy'[c] /\ pc'[b] \in {"block", "core"}
      BY <2>1, <2>2, <2>3, <2>4, <2>5
    <3> QED BY <1>2, <3>1 DEF ApOK, Released
  <2>6. q \in Tasks
    BY <1>2, <2>1
  <2> QED BY <1>1, <1>2, <1>7, <2>1, <2>2, <2>4, <2>5, <2>6, TaskStep
<1> QED BY <1>8, <1>9, <1>10

\* The election: whoever is elected is the only BSP, and no processor is in
\* APHandler yet.
LEMMA ElectedInv ==
  ASSUME Inv, NEW c \in CPU, Elect(c), pc'[c] = "enter"
  PROVE  Inv'
<1>1. /\ pc[c] = "elect" /\ pc' = [pc EXCEPT ![c] = "enter"] /\ BspIndex' = c /\ BspIndex' = Elected(c)
      /\ UNCHANGED <<mode, Counter, InsideSmm, AllCpusInSync, Run, Present, owed, Busy,
                     CurrentlyExecutingCpu, bsp, ApCount>>
  BY DEF Elect, Goto, local, task, Inv, Types
<1>2. /\ pc[c] \in Aps /\ pc[c] \in ApWaiting /\ pc[c] \notin BspMain /\ "enter" \in BspMain
      /\ pc[c] \in Counted /\ "enter" \in Counted /\ "enter" \in Places /\ pc[c] \notin ApIn
      /\ pc[c] \notin PresentAt /\ "enter" \notin PresentAt /\ "enter" \notin Inside
      /\ ~Locks("enter") /\ Unsettled("enter") /\ "enter" \notin ApIn /\ "enter" \notin ApWaiting
      /\ "enter" \notin Aps
  BY <1>1, PlacesApart DEF Aps, ApWaiting, BspMain, BspAt, BspGather, Counted, Places, ApIn, PresentAt,
    Locks, Unsettled, BspProgram, BspCore, BspExit
<1>3. mode \in ModeType /\ pc \in [CPU -> Places] /\ NoCpu \notin CPU
  BY ConstantsAssumption DEF Inv, Types
<1>4. \A b \in CPU : pc[b] \notin BspMain
  <2> SUFFICES ASSUME NEW b \in CPU, pc[b] \in BspMain
               PROVE  FALSE
    OBVIOUS
  <2>1. b # c /\ MainOK(b) /\ Meets(pc[b], "elect")
    BY <1>1, <1>2, BspFacts
  <2>2. pc[b] # "open"
    BY <2>1 DEF Meets, Arrivals, Gather, BspCore
  <2>3. BspIndex = b
    BY <2>1, <2>2 DEF MainOK
  <2>4. mode.election \in {"first", "platform", "fixed"}
    BY <1>3 DEF ModeType
  <2>5. CASE mode.election = "first"
    BY <1>1, <1>3, <2>1, <2>3, <2>5 DEF Elected
  <2>6. CASE mode.election = "fixed"
    BY <1>1, <1>3, <2>1, <2>3, <2>6 DEF Elected
  <2>7. CASE mode.election = "platform"
    <3>1. b = BootCpu
      BY <1>3, <2>3, <2>7 DEF Inv, ElectionOK
    <3> QED BY <1>1, <2>1, <2>3, <2>7, <3>1 DEF Elected, PlatformSmmBspElection
  <2> QED BY <2>4, <2>5, <2>6, <2>7
<1>5. /\ \A d \in CPU : pc[d] \notin ApIn
      /\ ~InsideSmm /\ Counter # Top
  BY <1>4, PlacesApart DEF Inv, ApsOK, BspOK, CounterOK
<1>6. pc'[c] = "enter" /\ \A d \in CPU \ {c} : pc'[d] = pc[d]
  BY <1>1, <1>3
<1>7. \A d \in CPU : pc'[d] \notin ApIn /\ (pc'[d] \in BspMain <=> d = c)
  BY <1>2, <1>4, <1>5, <1>6
<1>8. Types'
  BY <1>1, <1>2 DEF Inv, Types
<1>9. ElectionOK'
  BY <1>1, <1>3 DEF Inv, ElectionOK, Elected, PlatformSmmBspElection, ModeType
<1>10. Unsettled(pc[c])'
  BY <1>6 DEF Unsettled
<1>11. BspOK'
  <2>1. MainOK(c)'
    BY <1>1, <1>2, <1>5, <1>6 DEF MainOK
  <2> QED BY <1>1, <1>5, <1>7, <1>10, <2>1 DEF BspOK
<1>12. ApsOK'
  <2>1. \A d \in CPU : Run'[d] = 0 /\ owed'[d] = 0
    BY <1>1, <1>4, <1>5 DEF Inv, ApsOK
  <2>2. \A d \in CPU : pc'[d] \in ApWaiting => ~Busy'[d]
    BY <1>1, <1>2, <1>6 DEF Inv, ApsOK
  <2>3. ASSUME NEW d \in CPU, NEW e \in CPU, pc'[d] \in BspMain, pc'[e] \in Aps
        PROVE  Meets(pc[d], pc[e])'
    <3>1. d = c /\ pc'[d] = "enter" /\ pc'[e] \in ApWaiting
      BY <1>6, <1>7, <2>3 DEF Aps
    <3> QED BY <3>1 DEF Meets, ApWaiting, Unsettled
  <2> QED BY <1>7, <2>1, <2>2, <2>3 DEF ApsOK
<1>13. PresentOK'
  BY <1>1, <1>2, <1>6 DEF Inv, PresentOK
<1>14. CounterOK'
  <2>1. Count(pc', Counted) = Count(pc, Counted)
    BY <1>1, <1>2, <1>3, PcMove
  <2>2. ~Locks(pc[c])'
    BY <1>1, <1>2, <1>6, ModeFrame
  <2> QED BY <1>1, <1>5, <1>7, <2>1, <2>2 DEF Inv, CounterOK
<1>15. SignalsOK'
  <2>1. \A d \in CPU : pc'[d] \notin Signalled(pc[c])'
    BY <1>7 DEF Signalled
  <2> DEFINE S == Signalled(pc[c])'
  <2>2. Count(pc', S) = 0
    BY <2>1, CountNone
  <2>3. Run'[c] = 0
    BY <1>1, <1>4, <1>5 DEF Inv, ApsOK
  <2>4. {"absent", "gone"} \subseteq BspMain
    BY DEF BspMain, BspAt, BspExit
  <2> QED BY <1>6, <1>7, <2>2, <2>3, <2>4 DEF SignalsOK
<1> QED BY <1>8, <1>9, <1>11, <1>12, <1>13, <1>14, <1>15 DEF Inv

-----------------------------------------------------------------------------
(* The invariant. *)

\* Before the first SMI.
LEMMA InitInv == Init => Inv
<1> SUFFICES ASSUME Init
             PROVE  Inv
  OBVIOUS
<1>1. \A c \in CPU : /\ pc[c] = "normal" /\ pc[c] \notin Counted /\ pc[c] \notin Aps /\ pc[c] \notin ApIn
                     /\ pc[c] \notin BspMain /\ pc[c] \notin ApWaiting /\ pc[c] \notin PresentAt
  BY PlacesApart DEF Init, Arriving, Counted, Aps, PresentAt, BspMain
<1>2. Types
  <2>1. mode \in ModeType /\ BootCpu \in CPU
    BY ConstantsAssumption DEF Init
  <2>2. ApCount \in 0..NumberOfCpus
    BY ConstantsAssumption, FS_CardinalityType DEF Init, NumberOfCpus
  <2>3. "normal" \in Places
    BY DEF Places, Arriving
  <2> QED BY <2>1, <2>2, <2>3 DEF Init, Types
<1>3. ElectionOK
  BY DEF Init, ElectionOK
<1>4. BspOK /\ ApsOK
  BY <1>1 DEF Init, BspOK, ApsOK
<1>5. PresentOK
  BY <1>1 DEF Init, PresentOK
<1>6. CounterOK
  <2>1. Count(pc, Counted) = 0
    BY <1>1, CountNone
  <2>2. Top # 0
    BY ConstantsAssumption, FS_CardinalityType
  <2> QED BY <1>1, <2>1, <2>2 DEF Init, CounterOK
<1>7. SignalsOK
  BY <1>1 DEF SignalsOK, BspMain, BspAt, BspExit
<1> QED BY <1>2, <1>3, <1>4, <1>5, <1>6, <1>7 DEF Inv

\* What Inv speaks of does not change.
LEMMA InvFrame ==
  ASSUME Inv, UNCHANGED <<mode, Counter, InsideSmm, AllCpusInSync, BspIndex, Run, Present, Busy,
                          CurrentlyExecutingCpu, bsp, ApCount, pc, owed>>
  PROVE  Inv'
<1>1. Types' /\ ElectionOK' /\ PresentOK'
  BY DEF Inv, Types, ElectionOK, PresentOK
<1>2. BspOK'
  BY DEF Inv, BspOK, MainOK, GatherFirst, Unsettled
<1>3. ApsOK'
  <2>1. \A p, a : Meets(p, a)' <=> Meets(p, a)
    BY ModeFrame
  <2>2. \A b, c \in CPU : pc'[b] \in BspMain /\ pc'[c] \in Aps => Meets(pc[b], pc[c])'
    BY <2>1 DEF Inv, ApsOK
  <2>3. \A b, c \in CPU : pc'[b] \in BspMain /\ pc'[c] \in ApIn => ApOK(pc[b], c)'
    BY DEF Inv, ApsOK, ApOK, Released
  <2> QED BY <2>2, <2>3 DEF Inv, ApsOK
<1>4. CounterOK'
  <2>1. \A p : Locks(p)' <=> Locks(p)
    BY ModeFrame
  <2> QED BY <2>1 DEF Inv, CounterOK
<1>5. SignalsOK'
  <2>1. \A p : Signalled(p)' = Signalled(p)
    BY ModeFrame
  <2> QED BY <2>1 DEF Inv, SignalsOK
<1> QED BY <1>1, <1>2, <1>3, <1>4, <1>5 DEF Inv

\* Every step preserves the invariant.
LEMMA NextInv ==
  ASSUME Inv, Prompt, ~LateBroadcast, [Next]_vars
  PROVE  Inv'
<1>1. CASE UNCHANGED vars
  BY <1>1, InvFrame DEF vars, sync, task, local
<1>2. CASE \E S \in SmiTargets : RaiseSmi(S)
  BY <1>2, InvFrame DEF RaiseSmi, sync, task, local
<1>3. ASSUME NEW c \in CPU, Step(c) \/ Leave(c)
      PROVE  Inv'
  <2>1. CASE Leave(c)
    BY <2>1, OutsideSteps
  <2>2. CASE SmiRendezvous(c)
    BY <2>2, OutsideSteps, CheckInInv, ElectInv, ElectedInv DEF SmiRendezvous
  <2>3. CASE APHandler(c)
    BY <2>3, TimeoutInv, GiveUpInv, BspAvailableInv, MarkPresentInv, ApSignalInv, LastSignalInv,
      ApWaitInv, ApTaskInv DEF APHandler
  <2>4. CASE BSPHandler(c)
    <3>1. CASE BspUnsync(c)
      <4>1. /\ pc[c] = "unsync" /\ pc' = [pc EXCEPT ![c] = "leave"] /\ AllCpusInSync' = FALSE
            /\ UNCHANGED <<mode, Counter, InsideSmm, BspIndex, CurrentlyExecutingCpu, ApCount,
                           Run, Busy, owed, Present, bsp>>
        BY <3>1 DEF BspUnsync, Goto, task, local
      <4>2. bsp' \in [CPU -> CPU \cup {NoCpu}]
        BY <4>1 DEF Inv, Types
      <4> QED BY <4>1, <4>2, OutsiderInv
    <3>2. CASE ~BspUnsync(c)
      BY <2>4, <3>2, BspEnterInv, BspClearInv, PlainStepsInv, BspLockInv, BspWaitThenReleaseInv,
        BspWaitInv, BspAllIdleInv, BspAllPresentInv, BspExitInv, BspAbsentInv, BspGoneInv,
        BspOpenInv DEF BSPHandler
    <3> QED BY <3>1, <3>2
  <2>5. CASE Schedule(c)
    BY <2>5, StartupThisApInv, PlainStepsInv, StartupAllInv DEF Schedule
  <2> QED BY <1>3, <2>1, <2>2, <2>3, <2>4, <2>5 DEF Step
<1> QED BY <1>1, <1>2, <1>3 DEF Next

\* The processors keep in step: Inv holds in every reachable state.
THEOREM RendezvousInvariant ==
  ASSUME Prompt, ~LateBroadcast
  PROVE  Spec => []Inv
<1>1. Init => Inv
  BY InitInv
<1>2. Inv /\ [Next]_vars => Inv'
  BY NextInv
<1> QED BY <1>1, <1>2, PTL DEF Spec

\* One BSP at a time, on which all APs agree (the election of SmiRendezvous and
\* the BspIndex that APHandler takes).
THEOREM OneBspAtATime ==
  ASSUME Prompt, ~LateBroadcast
  PROVE  Spec => []OneBsp
<1>1. Inv => OneBsp
  <2> SUFFICES ASSUME Inv
               PROVE  OneBsp
    OBVIOUS
  <2>1. ASSUME NEW c \in CPU, pc[c] \in BspAt \ {"open", "unsync"}
        PROVE  BspIndex = c
    BY <2>1 DEF Inv, BspOK, MainOK, BspMain
  <2>2. ASSUME NEW c \in CPU, pc[c] \in ApIn \ {"resetDone"}
        PROVE  bsp[c] = BspIndex
    BY <2>2, TheBsp
  <2> QED BY <2>1, <2>2 DEF OneBsp
<1> QED BY <1>1, RendezvousInvariant, PTL

\* The BSP waits for exactly the processors on their way through APHandler
\* (ApCount in BSPHandler).
THEOREM ApsCountedExactly ==
  ASSUME Prompt, ~LateBroadcast
  PROVE  Spec => []CountExact
<1>1. Inv => CountExact
  <2> SUFFICES ASSUME Inv, Counter = Top, NEW b \in CPU, pc[b] \in BspAt \ {"absent", "gone", "open"}
               PROVE  ApCount = Cardinality({c \in CPU \ {b} : pc[c] \in ApWaiting \cup ApIn})
    BY DEF CountExact
  <2>1. PICK d \in CPU : pc[d] \in BspMain /\ Locks(pc[d])
    BY DEF Inv, CounterOK
  <2>2. ~Unsettled(pc[d])
    BY <2>1 DEF Locks, Unsettled, BspProgram, BspExit, BspCore
  <2>3. pc[b] # "unsync"
    BY <2>1, <2>2 DEF Inv, BspOK
  <2>4. pc[b] \in BspMain /\ b = d
    BY <2>1, <2>3 DEF Inv, BspOK, BspMain
  <2>5. ApCount = Count(pc, Aps)
    BY <2>1, <2>4 DEF Inv, CounterOK
  <2>6. pc[b] \notin Aps
    BY <2>4, PlacesApart DEF Aps, BspMain
  <2>7. {c \in CPU \ {b} : pc[c] \in ApWaiting \cup ApIn} = {c \in CPU : pc[c] \in Aps}
    BY <2>6 DEF Aps
  <2> QED BY <2>5, <2>7 DEF Count
<1> QED BY <1>1, RendezvousInvariant, PTL

\* The assertion at the end of SmiRendezvous: a processor leaves with its Run
\* semaphore at zero.
THEOREM SemaphoresConsumed ==
  ASSUME Prompt, ~LateBroadcast
  PROVE  Spec => []RunConsumed
<1>1. Inv => RunConsumed
  BY PlacesApart DEF RunConsumed, Inv, ApsOK, Counted, Aps
<1> QED BY <1>1, RendezvousInvariant, PTL

\* The assertion of APHandler: an AP runs a procedure with its BUSY lock taken,
\* and has exactly one to run.
THEOREM BusyWhileRunning ==
  ASSUME Prompt, ~LateBroadcast
  PROVE  Spec => []BusyHeld
<1>1. Inv => BusyHeld
  <2> SUFFICES ASSUME Inv, NEW c \in CPU, pc[c] = "run"
               PROVE  Busy[c] /\ owed[c] = 1
    BY DEF BusyHeld
  <2>1. PICK b \in CPU : Meets(pc[b], pc[c]) /\ ApOK(pc[b], c)
    BY TheBsp DEF ApIn
  <2>2. owed[c] = 1
    BY <2>1 DEF Meets, ApOK
  <2> QED BY <2>1, <2>2 DEF ApOK
<1> QED BY <1>1, RendezvousInvariant, PTL

=============================================================================
