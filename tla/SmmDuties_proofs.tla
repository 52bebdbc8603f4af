-------------------------- MODULE SmmDuties_proofs --------------------------
(***************************************************************************)
(* What the SMM rendezvous owes to the rest of the system, proved on top   *)
(* of the invariant that keeps the processors in step: no operating system *)
(* code runs beside SMI handlers that asked for all processors, or with    *)
(* the MTRRs of SMM; every scheduled procedure is run and its token freed. *)
(***************************************************************************)
EXTENDS SmmSync_proofs

\* Places of the BSP between programming the MTRRs and restoring them.
SmmMtrrs == {"program", "programmed", "busy", "exit", "exitAll", "tasks", "osMtrrs"} \cup BspCore

\* The MTRRs are those of SMM only there, and nobody saves those.
MtrrOK ==
  /\ mtrr \in {"os", "smm"} /\ saved = [c \in CPU |-> "os"]
  /\ mtrr = "smm" => mode.mtrr /\ \E b \in CPU : pc[b] \in SmmMtrrs

\* Places of the BSP after SmmWaitForApArrival has sent its SMIs, and after
\* AllCpusInSync keeps everybody from leaving.
Gathering == {"arrival2", "sync"}
Gathered  == {"lock", "exit"} \cup BspProgram \cup BspCore
               \cup (IF mode.alwaysValid THEN {"exitAll", "tasks", "osMtrrs", "osDone"} ELSE {})

\* A processor that runs normal mode code then, or is on its way to it, is
\* about to take an SMI.
NormalOK ==
  /\ mode.alwaysValid => \A c \in CPU : pc[c] = "inProgress" => ValidSmi[c]
  /\ GatherFirst => \A b, c \in CPU :
       /\ pc[b] \in Gathering /\ pc[c] \in {"normal", "quit", "leave", "giveUp", "unsync"} => smi[c]
       /\ pc[b] \in Gathered => AllCpusInSync /\ (pc[c] = "normal" => smi[c])

-----------------------------------------------------------------------------
(***************************************************************************)
(* What a step of processor e does to the places, the latched SMIs and     *)
(* AllCpusInSync.                                                          *)
(***************************************************************************)
Moves(e) ==
  /\ \E q \in Places : pc' = [pc EXCEPT ![e] = q]
  /\ mode' = mode
  /\ \A d \in CPU : smi[d] /\ ~smi'[d] => d = e /\ pc'[e] = "valid"
  /\ AllCpusInSync /\ ~AllCpusInSync' => pc[e] = "unsync"
  /\ pc'[e] = "inProgress" => (mode.alwaysValid => ValidSmi'[e])
  /\ \A d \in CPU \ {e} : ValidSmi'[d] = ValidSmi[d]
  /\ pc[e] \in SmmMtrrs \ {"osMtrrs"} /\ mode.mtrr => pc'[e] \in SmmMtrrs

\* Where a step that reaches these places comes from.
Reaches(e) ==
  /\ pc'[e] = "normal" => \/ pc[e] \in {"quit", "leave"} /\ ~AllCpusInSync
                          \/ pc[e] = "inProgress" /\ ~InsideSmm /\ ~ValidSmi[e]
  /\ pc'[e] = "quit" => Counter = Top
  /\ pc'[e] = "leave" => pc[e] \in {"giveUp", "resetDone", "unsync"}
  /\ pc'[e] = "giveUp" => ~InsideSmm
  /\ pc'[e] = "unsync" => pc[e] = "open"
  /\ pc'[e] = "arrival2" => pc[e] = "arrival1" /\ \A d \in CPU : ~Present[d] => smi'[d]
  /\ pc'[e] = "sync" => /\ Undisturbed
                        /\ pc[e] = "arrival2" \/ (pc[e] = "arrival1" /\ Counter >= NumberOfCpus)
  /\ pc'[e] \in Gathered /\ GatherFirst =>
       pc[e] \in Gathered \/ (pc[e] = "sync" /\ AllCpusInSync')

\* The processors do not share a program counter.
LEMMA PcOf ==
  ASSUME Types, NEW e \in CPU, NEW q, pc' = [pc EXCEPT ![e] = q]
  PROVE  pc'[e] = q /\ \A d \in CPU \ {e} : pc'[d] = pc[d]
BY DEF Types

\* SmiRendezvous and the way out.
LEMMA RendezvousMoves ==
  ASSUME Types, NEW e \in CPU, SmiRendezvous(e) \/ Leave(e),
         smi \in [CPU -> BOOLEAN], ValidSmi \in [CPU -> BOOLEAN]
  PROVE  Moves(e) /\ Reaches(e)
<1> USE DEF Goto, sync, task, local, world, mtrrs
<1>0. /\ {"normal", "valid", "inProgress", "checkIn", "quit", "elect", "timer1", "enter"} \subseteq Places
      /\ {"normal", "valid", "inProgress", "checkIn", "quit", "leave", "elect"} \cap SmmMtrrs = {}
      /\ {"normal", "valid", "inProgress", "checkIn", "quit", "elect", "timer1", "enter"} \cap Gathered = {}
  BY DEF Places, Arriving, ApWaiting, BspAt, BspGather, SmmMtrrs, Gathered, BspCore, BspProgram
<1>1. CASE TakeSmi(e)
  <2>1. pc[e] = "normal" /\ pc' = [pc EXCEPT ![e] = "valid"] /\ pc'[e] = "valid"
    BY <1>1, PcOf DEF TakeSmi
  <2> QED BY <1>0, <1>1, <2>1 DEF TakeSmi, Moves, Reaches
<1>2. CASE SampleValidSmi(e)
  <2>1. pc[e] = "valid" /\ pc' = [pc EXCEPT ![e] = "inProgress"] /\ pc'[e] = "inProgress"
    BY <1>2, PcOf DEF SampleValidSmi
  <2> QED BY <1>0, <1>2, <2>1 DEF SampleValidSmi, Moves, Reaches, PlatformValidSmi
<1>3. CASE SampleInsideSmm(e)
  <2>1. PICK q \in {"checkIn", "normal"} :
          /\ pc[e] = "inProgress" /\ pc' = [pc EXCEPT ![e] = q]
          /\ q = "normal" => ~InsideSmm /\ ~ValidSmi[e]
    BY <1>3 DEF SampleInsideSmm
  <2>2. pc'[e] = q
    BY <2>1, PcOf
  <2> QED BY <1>0, <1>3, <2>1, <2>2 DEF SampleInsideSmm, Moves, Reaches
<1>4. CASE CheckIn(e)
  <2>1. PICK q \in {"quit", "timer1", "elect"} :
          /\ pc[e] = "checkIn" /\ pc' = [pc EXCEPT ![e] = q] /\ (q = "quit" => Counter = Top)
    BY <1>4 DEF CheckIn
  <2>2. pc'[e] = q
    BY <2>1, PcOf
  <2> QED BY <1>0, <1>4, <2>1, <2>2 DEF CheckIn, Moves, Reaches
<1>5. CASE Elect(e)
  <2>1. PICK q \in {"enter", "timer1"} : pc[e] = "elect" /\ pc' = [pc EXCEPT ![e] = q]
    BY <1>5 DEF Elect
  <2>2. pc'[e] = q
    BY <2>1, PcOf
  <2> QED BY <1>0, <1>5, <2>1, <2>2 DEF Elect, Moves, Reaches
<1>6. CASE Leave(e)
  <2>1. /\ pc[e] \in {"quit", "leave"} /\ ~AllCpusInSync /\ pc' = [pc EXCEPT ![e] = "normal"]
        /\ pc'[e] = "normal"
    BY <1>6, PcOf DEF Leave
  <2> QED BY <1>0, <1>6, <2>1 DEF Leave, Moves, Reaches
<1> QED BY <1>1, <1>2, <1>3, <1>4, <1>5, <1>6 DEF SmiRendezvous
\* APHandler.
LEMMA ApMoves ==
  ASSUME Types, NEW e \in CPU, APHandler(e),
         smi \in [CPU -> BOOLEAN], ValidSmi \in [CPU -> BOOLEAN]
  PROVE  Moves(e) /\ Reaches(e)
<1> DEFINE Q == ApIn \cup {"timer2", "giveUp", "leave"}
<1> USE DEF Goto
<1>1. \E q \in Q : /\ pc' = [pc EXCEPT ![e] = q] /\ pc[e] \in ApWaiting \cup ApIn
                   /\ q = "giveUp" => ~InsideSmm
                   /\ q = "leave" => pc[e] \in {"giveUp", "resetDone"}
  <2>1. CASE BspTimeout1(e) \/ BspTimeout2(e) \/ GiveUp(e) \/ BspAvailable(e) \/ MarkPresent(e)
    BY <2>1 DEF BspTimeout1, BspTimeout2, GiveUp, BspAvailable, MarkPresent, ApIn, ApWaiting
  <2>2. CASE ApSignal(e)
    BY <2>2 DEF ApSignal, ApIn
  <2>3. CASE ApBackupMtrrs(e) \/ ApReplaceMtrrs(e) \/ ApWakeUp(e) \/ ApRestoreMtrrs(e) \/ ApReset(e)
    BY <2>3 DEF ApBackupMtrrs, ApReplaceMtrrs, ApWakeUp, ApRestoreMtrrs, ApReset, ApIn
  <2>4. CASE ApCheckExit(e) \/ ApRunProcedure(e) \/ ApRelease(e)
    BY <2>4 DEF ApCheckExit, ApRunProcedure, ApRelease, ApIn
  <2> QED BY <2>1, <2>2, <2>3, <2>4 DEF APHandler
<1>2. mode' = mode /\ AllCpusInSync' = AllCpusInSync /\ ValidSmi' = ValidSmi
  <2> USE DEF sync, local
  <2>1. CASE BspTimeout1(e) \/ BspTimeout2(e) \/ GiveUp(e) \/ BspAvailable(e) \/ MarkPresent(e)
    BY <2>1 DEF BspTimeout1, BspTimeout2, GiveUp, BspAvailable, MarkPresent
  <2>2. CASE ApSignal(e)
    BY <2>2 DEF ApSignal
  <2>3. CASE ApBackupMtrrs(e) \/ ApReplaceMtrrs(e) \/ ApWakeUp(e) \/ ApRestoreMtrrs(e) \/ ApReset(e)
    BY <2>3 DEF ApBackupMtrrs, ApReplaceMtrrs, ApWakeUp, ApRestoreMtrrs, ApReset
  <2>4. CASE ApCheckExit(e) \/ ApRunProcedure(e) \/ ApRelease(e)
    BY <2>4 DEF ApCheckExit, ApRunProcedure, ApRelease
  <2> QED BY <2>1, <2>2, <2>3, <2>4 DEF APHandler
<1>3. \A d \in CPU : smi[d] => smi'[d]
  <2> USE DEF world
  <2>1. CASE BspTimeout1(e)
    BY <2>1 DEF BspTimeout1, SendSmiIpi
  <2>2. CASE BspTimeout2(e) \/ GiveUp(e) \/ BspAvailable(e) \/ MarkPresent(e)
    BY <2>2 DEF BspTimeout2, GiveUp, BspAvailable, MarkPresent
  <2>3. CASE ApSignal(e)
    BY <2>3 DEF ApSignal
  <2>4. CASE ApBackupMtrrs(e) \/ ApReplaceMtrrs(e) \/ ApWakeUp(e) \/ ApRestoreMtrrs(e) \/ ApReset(e)
    BY <2>4 DEF ApBackupMtrrs, ApReplaceMtrrs, ApWakeUp, ApRestoreMtrrs, ApReset
  <2>5. CASE ApCheckExit(e) \/ ApRunProcedure(e) \/ ApRelease(e)
    BY <2>5 DEF ApCheckExit, ApRunProcedure, ApRelease
  <2> QED BY <2>1, <2>2, <2>3, <2>4, <2>5 DEF APHandler
<1>4. PICK q \in Q : /\ pc' = [pc EXCEPT ![e] = q] /\ pc[e] \in ApWaiting \cup ApIn
                     /\ q = "giveUp" => ~InsideSmm
                     /\ q = "leave" => pc[e] \in {"giveUp", "resetDone"}
  BY <1>1
<1>5. pc'[e] = q
  BY <1>4, PcOf
<1>6. /\ q \in Places /\ q \notin Gathered /\ q \notin {"normal", "inProgress", "quit", "unsync", "arrival2", "sync"}
      /\ pc[e] \notin SmmMtrrs
  BY <1>4 DEF Places, ApIn, ApWaiting, Gathered, SmmMtrrs, BspProgram, BspCore
<1>7. Moves(e)
  BY <1>2, <1>3, <1>4, <1>5, <1>6 DEF Moves
<1>8. Reaches(e)
  BY <1>4, <1>5, <1>6 DEF Reaches
<1> QED BY <1>7, <1>8

\* BSPHandler and the calls of the core.
LEMMA BspMoves ==
  ASSUME Types, NEW e \in CPU, BSPHandler(e) \/ Schedule(e),
         smi \in [CPU -> BOOLEAN], ValidSmi \in [CPU -> BOOLEAN],
         pc[e] = "allPresent" => ~GatherFirst
  PROVE  Moves(e) /\ Reaches(e)
<1> USE DEF Goto
<1>0. mode.mtrr \in BOOLEAN /\ (mode.mtrr => GatherFirst)
  BY DEF Types, ModeType, GatherFirst
<1> DEFINE Flow(p, q) ==
      \/ p = "enter" /\ q = "clear"
      \/ p = "clear" /\ q \in {"arrival1", "busy"} /\ (q = "busy" => ~GatherFirst)
      \/ p = "arrival1" /\ q \in {"arrival2", "sync"}
      \/ p = "arrival2" /\ q = "sync"
      \/ p = "sync" /\ q = "lock"
      \/ p = "sync2" /\ q = "lock2"
      \/ p = "lock" /\ q = "arrived"
      \/ p = "lock2" /\ q = "allPresent"
      \/ p \in {"arrived", "save", "saved", "program"} /\ q \in {"save", "saved", "program", "programmed", "busy"}
         /\ (p = "program" => q = "programmed")
      \/ p = "programmed" /\ q = "busy"
      \/ p = "busy" /\ q = "core"
      \/ p \in BspCore /\ q \in BspCore
      \/ p = "idle" /\ q \in {"exit", "sync2"} /\ (q = "sync2" => ~GatherFirst)
      \/ p = "allPresent" /\ q = "exit"
      \/ p = "exit" /\ q = "exitAll"
      \/ p = "exitAll" /\ q = "tasks"
      \/ p = "tasks" /\ q \in {"osMtrrs", "absent"} /\ (q = "absent" => ~mode.mtrr)
      \/ p = "osMtrrs" /\ q = "osDone"
      \/ p = "osDone" /\ q = "absent"
      \/ p = "absent" /\ q = "gone"
      \/ p = "gone" /\ q = "open"
      \/ p = "open" /\ q = "unsync"
      \/ p = "unsync" /\ q = "leave"
<1>1. \E q \in Places : pc' = [pc EXCEPT ![e] = q] /\ Flow(pc[e], q)
  <2> USE DEF Places, BspAt, BspGather, BspProgram, BspExit, BspCore
  <2>1. CASE BspEnter(e) \/ BspClear(e) \/ BspArrival1(e) \/ BspArrival2(e)
    BY <2>1 DEF BspEnter, BspClear, BspArrival1, BspArrival2
  <2>2. CASE BspSync(e) \/ BspLock(e)
    BY <2>2 DEF BspSync, BspLock
  <2>3. CASE BspWaitThenRelease(e)
    BY <1>0, <2>3 DEF BspWaitThenRelease
  <2>4. CASE BspWait(e) \/ BspMtrrs(e) \/ BspCallCore(e)
    BY <2>4 DEF BspWait, BspMtrrs, BspCallCore
  <2>5. CASE BspCoreDone(e) \/ BspAllIdle(e) \/ BspAllPresent(e) \/ BspExitSmm(e)
    BY <2>5 DEF BspCoreDone, BspAllIdle, BspAllPresent, BspExitSmm
  <2>6. CASE BspReleaseAll(e) \/ BspAbsent(e) \/ BspGone(e) \/ BspOpen(e) \/ BspUnsync(e)
    BY <2>6 DEF BspReleaseAll, BspAbsent, BspGone, BspOpen, BspUnsync
  <2>7. CASE Schedule(e)
    BY <2>7 DEF Schedule, StartupThisAp, StartupAllAPs, AcquireAllBusy, ScheduleAll, ReleaseScheduled,
      BlockingDone
  <2> QED BY <2>1, <2>2, <2>3, <2>4, <2>5, <2>6, <2>7 DEF BSPHandler
<1>2. mode' = mode /\ ValidSmi' = ValidSmi /\ AllCpusInSync' \in {AllCpusInSync, TRUE, pc[e] # "unsync"}
  <2> USE DEF sync, local
  <2>1. CASE BspEnter(e) \/ BspClear(e) \/ BspArrival1(e) \/ BspArrival2(e)
    BY <2>1 DEF BspEnter, BspClear, BspArrival1, BspArrival2
  <2>2. CASE BspSync(e) \/ BspLock(e)
    BY <2>2 DEF BspSync, BspLock
  <2>3. CASE BspWaitThenRelease(e) \/ BspWait(e) \/ BspMtrrs(e) \/ BspCallCore(e)
    BY <2>3 DEF BspWaitThenRelease, BspWait, BspMtrrs, BspCallCore
  <2>4. CASE BspCoreDone(e) \/ BspAllIdle(e) \/ BspAllPresent(e) \/ BspExitSmm(e)
    BY <2>4 DEF BspCoreDone, BspAllIdle, BspAllPresent, BspExitSmm
  <2>5. CASE BspReleaseAll(e) \/ BspAbsent(e) \/ BspGone(e) \/ BspOpen(e)
    BY <2>5 DEF BspReleaseAll, BspAbsent, BspGone, BspOpen
  <2>6. CASE BspUnsync(e)
    BY <2>6 DEF BspUnsync
  <2>7. CASE Schedule(e)
    BY <2>7 DEF Schedule, StartupThisAp, StartupAllAPs, AcquireAllBusy, ScheduleAll, ReleaseScheduled,
      BlockingDone
  <2> QED BY <2>1, <2>2, <2>3, <2>4, <2>5, <2>6, <2>7 DEF BSPHandler
<1>3. \A d \in CPU : smi[d] => smi'[d]
  <2> USE DEF world
  <2>1. CASE BspArrival1(e)
    BY <2>1 DEF BspArrival1, SendSmiIpi
  <2>2. CASE BspEnter(e) \/ BspClear(e) \/ BspArrival2(e) \/ BspSync(e) \/ BspLock(e)
    BY <2>2 DEF BspEnter, BspClear, BspArrival2, BspSync, BspLock
  <2>3. CASE BspWaitThenRelease(e) \/ BspWait(e) \/ BspMtrrs(e) \/ BspCallCore(e)
    BY <2>3 DEF BspWaitThenRelease, BspWait, BspMtrrs, BspCallCore
  <2>4. CASE BspCoreDone(e) \/ BspAllIdle(e) \/ BspAllPresent(e) \/ BspExitSmm(e)
    BY <2>4 DEF BspCoreDone, BspAllIdle, BspAllPresent, BspExitSmm
  <2>5. CASE BspReleaseAll(e) \/ BspAbsent(e) \/ BspGone(e) \/ BspOpen(e) \/ BspUnsync(e)
    BY <2>5 DEF BspReleaseAll, BspAbsent, BspGone, BspOpen, BspUnsync
  <2>6. CASE Schedule(e)
    BY <2>6 DEF Schedule, StartupThisAp, StartupAllAPs, AcquireAllBusy, ScheduleAll, ReleaseScheduled,
      BlockingDone
  <2> QED BY <2>1, <2>2, <2>3, <2>4, <2>5, <2>6 DEF BSPHandler
<1>4. PICK q \in Places : pc' = [pc EXCEPT ![e] = q] /\ Flow(pc[e], q)
  BY <1>1
<1>5. pc'[e] = q
  BY <1>4, PcOf
<1>6. Moves(e)
  <2>1. q \notin {"inProgress", "valid"}
    BY <1>4 DEF BspCore
  <2>2. pc[e] \in SmmMtrrs \ {"osMtrrs"} /\ mode.mtrr => q \in SmmMtrrs
    BY <1>0, <1>4 DEF SmmMtrrs, BspCore
  <2> QED BY <1>2, <1>3, <1>4, <1>5, <2>1, <2>2 DEF Moves
<1>7. Reaches(e)
  <2>1. q \notin {"normal", "quit", "giveUp"}
    BY <1>4 DEF BspCore
  <2>2. /\ q = "leave" => pc[e] = "unsync"
        /\ q = "unsync" => pc[e] = "open"
        /\ q = "arrival2" => pc[e] = "arrival1"
        /\ q = "sync" => pc[e] \in {"arrival1", "arrival2"}
        /\ q = "lock" => pc[e] = "sync"
    BY <1>4 DEF BspCore
  <2>3. q \in Gathered /\ GatherFirst => pc[e] \in Gathered \cup {"sync", "allPresent"} /\ (pc[e] = "sync" => q = "lock")
    BY <1>4 DEF Gathered, BspCore, BspProgram
  <2>6. pc[e] = "sync" => AllCpusInSync'
    <3> SUFFICES ASSUME pc[e] = "sync" PROVE AllCpusInSync' OBVIOUS
    <3>1. ~Schedule(e)
      BY DEF Schedule, StartupThisAp, StartupAllAPs, AcquireAllBusy, ScheduleAll, ReleaseScheduled,
        BlockingDone
    <3>2. ~BspEnter(e) /\ ~BspClear(e) /\ ~BspArrival1(e) /\ ~BspArrival2(e) /\ ~BspLock(e)
          /\ ~BspWaitThenRelease(e) /\ ~BspWait(e) /\ ~BspMtrrs(e) /\ ~BspCallCore(e) /\ ~BspCoreDone(e)
      BY DEF BspEnter, BspClear, BspArrival1, BspArrival2, BspLock, BspWaitThenRelease, BspWait, BspMtrrs,
        BspCallCore, BspCoreDone
    <3>3. ~BspAllIdle(e) /\ ~BspAllPresent(e) /\ ~BspExitSmm(e) /\ ~BspReleaseAll(e) /\ ~BspAbsent(e)
          /\ ~BspGone(e) /\ ~BspOpen(e) /\ ~BspUnsync(e)
      BY DEF BspAllIdle, BspAllPresent, BspExitSmm, BspReleaseAll, BspAbsent, BspGone, BspOpen, BspUnsync
    <3>4. BspSync(e)
      BY <3>1, <3>2, <3>3 DEF BSPHandler
    <3> QED BY <3>4 DEF BspSync
  <2>4. CASE pc[e] \in {"arrival1", "arrival2"}
    <3>1. BspArrival1(e) \/ BspArrival2(e)
      <4> USE DEF BspCore
      <4>1. ~Schedule(e)
        BY <2>4 DEF Schedule, StartupThisAp, StartupAllAPs, AcquireAllBusy, ScheduleAll, ReleaseScheduled,
            BlockingDone
      <4>2. ~BspEnter(e) /\ ~BspClear(e) /\ ~BspSync(e) /\ ~BspLock(e) /\ ~BspWaitThenRelease(e)
            /\ ~BspWait(e) /\ ~BspMtrrs(e) /\ ~BspCallCore(e) /\ ~BspCoreDone(e)
        BY <2>4 DEF BspEnter, BspClear, BspSync, BspLock, BspWaitThenRelease, BspWait, BspMtrrs, BspCallCore,
            BspCoreDone
      <4>3. ~BspAllIdle(e) /\ ~BspAllPresent(e) /\ ~BspExitSmm(e) /\ ~BspReleaseAll(e) /\ ~BspAbsent(e)
            /\ ~BspGone(e) /\ ~BspOpen(e) /\ ~BspUnsync(e)
        BY <2>4 DEF BspAllIdle, BspAllPresent, BspExitSmm, BspReleaseAll, BspAbsent, BspGone, BspOpen, BspUnsync
      <4> QED BY <4>1, <4>2, <4>3 DEF BSPHandler
    <3>2. /\ q = "arrival2" => \A d \in CPU : ~Present[d] => smi'[d]
          /\ q = "sync" => /\ Undisturbed
                           /\ pc[e] = "arrival2" \/ (pc[e] = "arrival1" /\ Counter >= NumberOfCpus)
      <4>1. Counter \in Nat /\ NumberOfCpus \in Nat
        BY ConstantsAssumption, FS_CardinalityType DEF Types, NumberOfCpus
      <4>2. CASE BspArrival1(e)
        <5>1. /\ pc[e] = "arrival1" /\ Undisturbed
              /\ \/ /\ Counter < NumberOfCpus /\ pc' = [pc EXCEPT ![e] = "arrival2"]
                    /\ smi' = [d \in CPU |-> smi[d] \/ d \in {f \in CPU : ~Present[f]}]
                 \/ ~(Counter < NumberOfCpus) /\ pc' = [pc EXCEPT ![e] = "sync"]
          BY <4>2 DEF BspArrival1, SendSmiIpi, ArrivalOver
        <5>2. q = "arrival2" => pc' # [pc EXCEPT ![e] = "sync"]
          BY <1>5 DEF Types
        <5>3. q = "sync" => pc' # [pc EXCEPT ![e] = "arrival2"]
          BY <1>5 DEF Types
        <5>4. q = "arrival2" => \A d \in CPU : ~Present[d] => smi'[d]
          BY <5>1, <5>2
        <5>5. q = "sync" => Undisturbed /\ pc[e] = "arrival1" /\ Counter >= NumberOfCpus
          BY <4>1, <5>1, <5>3
        <5> QED BY <5>4, <5>5
      <4>3. CASE BspArrival2(e)
        <5>1. pc[e] = "arrival2" /\ Undisturbed /\ pc' = [pc EXCEPT ![e] = "sync"]
          BY <4>3 DEF BspArrival2, ArrivalOver
        <5>2. q = "sync"
          BY <1>5, <5>1 DEF Types
        <5> QED BY <5>1, <5>2
      <4> QED BY <3>1, <4>2, <4>3
    <3>3. q \notin Gathered
      BY <1>4, <2>4 DEF Gathered, BspCore, BspProgram
    <3>4. q # "leave" /\ q # "unsync"
      BY <2>2, <2>4
    <3> QED BY <1>5, <2>1, <2>2, <3>2, <3>3, <3>4 DEF Reaches
  <2>5. CASE pc[e] \notin {"arrival1", "arrival2"}
    <3>1. q \notin {"arrival2", "sync"}
      BY <2>2, <2>5
    <3>2. q \in Gathered /\ GatherFirst => pc[e] \in Gathered \/ (pc[e] = "sync" /\ AllCpusInSync')
      BY <2>3, <2>6
    <3>3. pc'[e] = "leave" => pc[e] \in {"giveUp", "resetDone", "unsync"}
      BY <1>5, <2>2
    <3> QED BY <1>5, <2>1, <2>2, <3>1, <3>2, <3>3 DEF Reaches
  <2> QED BY <2>4, <2>5
<1> QED BY <1>6, <1>7

\* Every step of a processor.
LEMMA StepMoves ==
  ASSUME Inv, NEW e \in CPU, Step(e) \/ Leave(e),
         smi \in [CPU -> BOOLEAN], ValidSmi \in [CPU -> BOOLEAN]
  PROVE  Moves(e) /\ Reaches(e)
<1>1. Types
  BY DEF Inv
<1>2. pc[e] = "allPresent" => ~GatherFirst
  BY DEF Inv, BspOK, MainOK, BspMain, BspAt, BspExit
<1>3. CASE SmiRendezvous(e) \/ Leave(e)
  BY <1>1, <1>3, RendezvousMoves
<1>4. CASE APHandler(e)
  BY <1>1, <1>4, ApMoves
<1>5. CASE BSPHandler(e) \/ Schedule(e)
  BY <1>1, <1>2, <1>5, BspMoves
<1> QED BY <1>3, <1>4, <1>5 DEF Step

-----------------------------------------------------------------------------
(* No normal mode code while the BSP has gathered the processors. *)

\* What the rendezvous invariant says at these places of BSP b.
LEMMA GatheredFacts ==
  ASSUME Inv, GatherFirst, NEW b \in CPU, NEW c \in CPU, pc[b] \in Gathering \cup Gathered
  PROVE  /\ pc[b] \in BspMain
         /\ pc[b] \in Gathering => InsideSmm /\ Counter # Top /\ pc[c] # "resetDone"
         /\ pc[b] \in Gathered /\ ~mode.alwaysValid => InsideSmm
         /\ pc[b] \in Gathered => InsideSmm \/ mode.alwaysValid
         /\ pc[b] \in Gathered => pc[c] # "unsync"
         /\ pc[c] = "open" => c = b
<1>1. pc[b] \in BspMain
  BY DEF Gathering, Gathered, BspMain, BspAt, BspGather, BspProgram, BspCore, BspExit
<1>2. MainOK(b) /\ \A d \in CPU : pc[d] \in BspMain => d = b
  BY <1>1 DEF Inv, BspOK
<1>3. pc[b] \in Gathering \cup {"lock", "exit"} \cup BspProgram \cup BspCore => InsideSmm
  BY <1>2 DEF MainOK, Inside, Gathering, BspGather, BspProgram, BspCore
<1>4. pc[b] \in Gathered /\ ~mode.alwaysValid => InsideSmm
  BY <1>3 DEF Gathered
<1>5. pc[b] \in Gathering => Counter # Top
  <2> SUFFICES ASSUME pc[b] \in Gathering PROVE Counter # Top OBVIOUS
  <2>1. ~Locks(pc[b])
    BY DEF Locks, Gathering, BspProgram, BspExit, BspCore
  <2> QED BY <1>2, <2>1 DEF Inv, CounterOK
<1>6. pc[b] \in Gathering => pc[c] # "resetDone"
  <2>1. pc[c] = "resetDone" => pc[b] \in {"absent", "gone"}
    BY <1>1 DEF Inv, ApsOK, Aps, ApIn, Meets
  <2> QED BY <2>1 DEF Gathering
<1>7. pc[b] \in Gathered => pc[c] # "unsync"
  <2>1. pc[b] \in Gathered => ~Unsettled(pc[b])
    BY DEF Gathered, Unsettled, BspProgram, BspCore
  <2> QED BY <1>1, <2>1 DEF Inv, BspOK
<1>8. pc[c] = "open" => c = b
  BY <1>2 DEF BspMain, BspAt, BspExit
<1> QED BY <1>1, <1>3, <1>4, <1>5, <1>6, <1>7, <1>8

\* Whoever stands outside the rendezvous is not Present.
LEMMA OutsidersAbsent ==
  ASSUME Inv, NEW c \in CPU, pc[c] \in {"normal", "quit", "leave", "giveUp", "unsync"}
  PROVE  ~Present[c] /\ (pc[c] \in Counted => pc[c] = "giveUp")
BY DEF Inv, PresentOK, PresentAt, ApIn, BspMain, BspAt, BspGather, BspProgram, BspCore, BspExit,
  Counted, Aps, ApWaiting

\* When the Counter has reached NumberOfCpus, everybody has checked in.
LEMMA EverybodyIn ==
  ASSUME Inv, Counter # Top, Counter >= NumberOfCpus, NEW c \in CPU
  PROVE  pc[c] \in Counted
<1> DEFINE F == {d \in CPU : pc[d] \in Counted}
<1>1. F \in SUBSET CPU /\ IsFiniteSet(CPU) /\ Cardinality(F) = Counter
  BY ConstantsAssumption DEF Inv, CounterOK, Count
<1>2. IsFiniteSet(F) /\ Cardinality(F) <= Cardinality(CPU) /\ (Cardinality(F) = Cardinality(CPU) => F = CPU)
  BY <1>1, FS_Subset
<1>3. Cardinality(F) \in Nat /\ Cardinality(CPU) \in Nat
  BY <1>1, <1>2, FS_CardinalityType
<1> HIDE DEF F
<1>4. F = CPU
  BY <1>1, <1>2, <1>3 DEF NumberOfCpus
<1> QED BY <1>4 DEF F

\* A step of processor e preserves NormalOK.
LEMMA NormalStep ==
  ASSUME Inv, NormalOK, Prompt, NEW e \in CPU, Moves(e), Reaches(e),
         smi \in [CPU -> BOOLEAN], ValidSmi \in [CPU -> BOOLEAN]
  PROVE  NormalOK'
<1> DEFINE Out == {"normal", "quit", "leave", "giveUp", "unsync"}
<1>0. /\ \A d \in CPU \ {e} : pc'[d] = pc[d]
      /\ \A d \in CPU : smi[d] /\ ~smi'[d] => d = e /\ pc'[e] = "valid"
      /\ mode' = mode /\ (GatherFirst' <=> GatherFirst) /\ Gathered' = Gathered
  BY DEF Moves, GatherFirst, Gathered, Inv, Types
<1>1. mode'.alwaysValid => \A c \in CPU : pc'[c] = "inProgress" => ValidSmi'[c]
  BY <1>0 DEF Moves, NormalOK
<1> SUFFICES ASSUME GatherFirst, NEW b \in CPU, NEW c \in CPU
             PROVE  /\ pc'[b] \in Gathering /\ pc'[c] \in Out => smi'[c]
                    /\ pc'[b] \in Gathered => AllCpusInSync' /\ (pc'[c] = "normal" => smi'[c])
  BY <1>0, <1>1 DEF NormalOK, Gathering
<1>2. ASSUME pc'[b] \in Gathering, pc'[c] \in Out PROVE smi'[c]
  <2>1. b # c
    BY <1>2 DEF Gathering
  <2>2. CASE e = b
    <3>0. pc[c] = pc'[c] /\ (smi[c] => smi'[c])
      BY <1>0, <2>1, <2>2
    <3>1. ~Present[c] /\ (pc[c] \in Counted => pc[c] = "giveUp")
      BY <1>2, <3>0, OutsidersAbsent
    <3>2. CASE pc'[b] = "arrival2"
      BY <2>2, <3>1, <3>2 DEF Reaches
    <3>3. CASE pc'[b] = "sync"
      <4>1. Undisturbed /\ (pc[b] = "arrival2" \/ (pc[b] = "arrival1" /\ Counter >= NumberOfCpus))
        BY <2>2, <3>3 DEF Reaches
      <4>2. CASE pc[b] = "arrival2"
        <5>1. smi[c]
          BY <1>2, <3>0, <4>2 DEF NormalOK, Gathering
        <5> QED BY <3>0, <5>1
      <4>3. CASE pc[b] = "arrival1" /\ Counter >= NumberOfCpus
        <5>1. Counter # Top
          <6>1. pc[b] \in BspMain /\ ~Locks(pc[b])
            BY <4>3 DEF BspMain, BspAt, BspGather, Locks, BspProgram, BspExit, BspCore
          <6> QED BY <6>1 DEF Inv, BspOK, CounterOK
        <5>2. pc[c] \in Counted
          BY <4>3, <5>1, EverybodyIn
        <5> QED BY <3>1, <4>1, <5>2 DEF Undisturbed
      <4> QED BY <4>1, <4>2, <4>3
    <3> QED BY <1>2, <3>2, <3>3 DEF Gathering
  <2>3. CASE e # b
    <3>1. pc[b] = pc'[b] /\ pc[b] \in Gathering
      BY <1>0, <1>2, <2>3
    <3>2. /\ InsideSmm /\ Counter # Top /\ pc[c] # "resetDone" /\ pc[c] # "open"
      BY <2>1, <3>1, GatheredFacts
    <3>3. pc[c] \in Out => smi[c]
      BY <3>1 DEF NormalOK
    <3>4. CASE e = c
      <4>1. pc[c] \in Out
        BY <1>2, <3>2, <3>4 DEF Reaches
      <4> QED BY <1>0, <1>2, <3>3, <4>1
    <3>5. CASE e # c
      BY <1>0, <1>2, <3>3, <3>5
    <3> QED BY <3>4, <3>5
  <2> QED BY <2>2, <2>3
<1>3. ASSUME pc'[b] \in Gathered PROVE AllCpusInSync' /\ (pc'[c] = "normal" => smi'[c])
  <2>0. "normal" \notin Gathered /\ "unsync" \notin Gathered
    BY DEF Gathered, BspProgram, BspCore
  <2>1. CASE e = b
    <3>1. pc[b] \in Gathered \/ (pc[b] = "sync" /\ AllCpusInSync')
      BY <1>3, <2>1 DEF Reaches
    <3>2. AllCpusInSync'
      <4>1. pc[b] \in Gathered => AllCpusInSync /\ pc[b] # "unsync"
        BY <2>0 DEF NormalOK
      <4> QED BY <2>1, <3>1, <4>1 DEF Moves
    <3>3. ASSUME pc'[c] = "normal" PROVE smi'[c]
      <4>1. c # b /\ pc[c] = "normal"
        BY <1>0, <1>3, <2>0, <2>1, <3>3
      <4>2. smi[c]
        BY <3>1, <4>1 DEF NormalOK, Gathering
      <4> QED BY <1>0, <2>1, <4>1, <4>2
    <3> QED BY <3>2, <3>3
  <2>2. CASE e # b
    <3>1. pc[b] \in Gathered /\ pc[e] # "unsync" /\ (InsideSmm \/ mode.alwaysValid)
      <4>1. pc[b] \in Gathered
        BY <1>0, <1>3, <2>2
      <4> QED BY <4>1, GatheredFacts
    <3>2. AllCpusInSync /\ (pc[c] = "normal" => smi[c])
      BY <3>1 DEF NormalOK
    <3>3. AllCpusInSync'
      BY <3>1, <3>2 DEF Moves
    <3>4. ASSUME pc'[c] = "normal" PROVE smi'[c]
      <4>1. CASE e = c
        <5>1. pc[e] = "inProgress" /\ ~InsideSmm /\ ~ValidSmi[e]
          BY <3>2, <3>4, <4>1 DEF Reaches
        <5>2. ValidSmi[e]
          BY <3>1, <5>1 DEF NormalOK
        <5> QED BY <5>1, <5>2
      <4>2. CASE e # c
        BY <1>0, <3>2, <3>4, <4>2
      <4> QED BY <4>1, <4>2
    <3> QED BY <3>3, <3>4
  <2> QED BY <2>1, <2>2
<1> QED BY <1>2, <1>3

-----------------------------------------------------------------------------
(* The MTRRs. *)

\* The steps that change the MTRRs or their copies; the BSP cannot pass the
\* point where it restores them without doing so.
LEMMA MtrrsFrame ==
  ASSUME NEW e \in CPU, Step(e) \/ Leave(e),
         ~ApBackupMtrrs(e), ~ApReplaceMtrrs(e), ~ApRestoreMtrrs(e), ~BspMtrrs(e)
  PROVE  mtrr' = mtrr /\ saved' = saved /\ pc[e] # "osMtrrs"
<1> USE DEF mtrrs
<1>1. CASE SmiRendezvous(e) \/ Leave(e)
  BY <1>1 DEF SmiRendezvous, TakeSmi, SampleValidSmi, SampleInsideSmm, CheckIn, Elect, Leave
<1>2. CASE APHandler(e)
  <2>1. CASE BspTimeout1(e) \/ BspTimeout2(e) \/ GiveUp(e) \/ BspAvailable(e) \/ MarkPresent(e)
    BY <2>1 DEF BspTimeout1, BspTimeout2, GiveUp, BspAvailable, MarkPresent
  <2>2. CASE ApSignal(e)
    BY <2>2 DEF ApSignal
  <2>3. CASE ApWakeUp(e) \/ ApReset(e) \/ ApCheckExit(e) \/ ApRunProcedure(e) \/ ApRelease(e)
    BY <2>3 DEF ApWakeUp, ApReset, ApCheckExit, ApRunProcedure, ApRelease
  <2> QED BY <1>2, <2>1, <2>2, <2>3 DEF APHandler
<1>3. CASE BSPHandler(e)
  <2>1. CASE BspEnter(e) \/ BspClear(e) \/ BspArrival1(e) \/ BspArrival2(e) \/ BspSync(e) \/ BspLock(e)
    BY <2>1 DEF BspEnter, BspClear, BspArrival1, BspArrival2, BspSync, BspLock
  <2>2. CASE BspWaitThenRelease(e) \/ BspWait(e) \/ BspCallCore(e) \/ BspCoreDone(e)
    BY <2>2 DEF BspWaitThenRelease, BspWait, BspCallCore, BspCoreDone
  <2>3. CASE BspAllIdle(e) \/ BspAllPresent(e) \/ BspExitSmm(e) \/ BspReleaseAll(e)
    BY <2>3 DEF BspAllIdle, BspAllPresent, BspExitSmm, BspReleaseAll
  <2>4. CASE BspAbsent(e) \/ BspGone(e) \/ BspOpen(e) \/ BspUnsync(e)
    BY <2>4 DEF BspAbsent, BspGone, BspOpen, BspUnsync
  <2> QED BY <1>3, <2>1, <2>2, <2>3, <2>4 DEF BSPHandler
<1>4. CASE Schedule(e)
  BY <1>4 DEF Schedule, StartupThisAp, StartupAllAPs, AcquireAllBusy, ScheduleAll, ReleaseScheduled,
    BlockingDone
<1> QED BY <1>1, <1>2, <1>3, <1>4 DEF Step

\* A processor that saves its MTRRs finds those of the operating system, and
\* one that replaces them is followed by the BSP.
LEMMA MtrrsOrder ==
  ASSUME Inv, MtrrOK, NEW e \in CPU
  PROVE  /\ pc[e] \in {"backup", "save"} => mtrr = "os"
         /\ pc[e] = "replace" /\ Run[e] > 0 =>
              mode.mtrr /\ \E b \in CPU \ {e} : pc[b] \in {"program", "programmed"}
<1>1. \A b \in CPU : pc[b] \in SmmMtrrs => pc[b] \in BspMain
  BY DEF SmmMtrrs, BspMain, BspAt, BspGather, BspProgram, BspCore, BspExit
<1>2. ASSUME pc[e] \in {"backup", "save"} PROVE mtrr = "os"
  <2> SUFFICES ASSUME NEW b \in CPU, pc[b] \in SmmMtrrs PROVE FALSE
    BY DEF MtrrOK
  <2>1. CASE pc[e] = "save"
    <3>1. e = b
      BY <1>1, <2>1 DEF Inv, BspOK, BspMain, BspAt, BspProgram
    <3> QED BY <2>1, <3>1 DEF SmmMtrrs, BspCore
  <2>2. CASE pc[e] = "backup"
    <3>1. pc[b] \in Gather \cup {"save", "saved"}
      BY <1>1, <2>2 DEF Inv, ApsOK, Meets, Aps, ApIn
    <3> QED BY <3>1 DEF SmmMtrrs, BspCore, Gather
  <2> QED BY <1>2, <2>1, <2>2
<1>3. ASSUME pc[e] = "replace", Run[e] > 0
      PROVE  mode.mtrr /\ \E b \in CPU \ {e} : pc[b] \in {"program", "programmed"}
  <2>1. PICK b \in CPU : pc[b] \in BspMain
    BY <1>3 DEF Inv, ApsOK, ApIn
  <2>2. Meets(pc[b], pc[e]) /\ ApOK(pc[b], e)
    BY <1>3, <2>1 DEF Inv, ApsOK, Aps, ApIn
  <2>3. Run[e] = 1
    BY <1>3, <2>2 DEF ApOK
  <2>4. Released(pc[b], "replace")
    BY <1>3, <2>2, <2>3 DEF ApOK
  <2>5. mode.mtrr /\ pc[b] \in {"program", "programmed"}
    BY <1>3, <2>2, <2>4 DEF Meets, Released
  <2> QED BY <1>3, <2>5
<1> QED BY <1>2, <1>3

\* A step of processor e preserves MtrrOK.
LEMMA MtrrStep ==
  ASSUME Inv, MtrrOK, NEW e \in CPU, Step(e) \/ Leave(e), Moves(e)
  PROVE  MtrrOK'
<1> USE DEF Goto
<1>0. /\ \A d \in CPU \ {e} : pc'[d] = pc[d]
      /\ mode' = mode /\ pc \in [CPU -> Places]
      /\ mode.mtrr /\ pc[e] \in SmmMtrrs \ {"osMtrrs"} => pc'[e] \in SmmMtrrs
  BY DEF Moves, Inv, Types
<1>1. CASE ApBackupMtrrs(e)
  <2>1. pc[e] = "backup" /\ mtrr = "os" /\ mtrr' = mtrr /\ saved' = [saved EXCEPT ![e] = mtrr]
    BY <1>1, MtrrsOrder DEF ApBackupMtrrs
  <2> QED BY <2>1 DEF MtrrOK
<1>2. CASE ApReplaceMtrrs(e)
  <2>1. pc[e] = "replace" /\ Run[e] > 0 /\ mtrr' = "smm" /\ saved' = saved
    BY <1>2 DEF ApReplaceMtrrs, WaitForSemaphore
  <2>2. PICK b \in CPU \ {e} : pc[b] \in {"program", "programmed"}
    BY <2>1, MtrrsOrder
  <2>3. pc'[b] \in SmmMtrrs
    BY <1>0, <2>2 DEF SmmMtrrs
  <2>4. mode.mtrr
    BY <2>1, MtrrsOrder
  <2> QED BY <1>0, <2>1, <2>3, <2>4 DEF MtrrOK
<1>3. CASE ApRestoreMtrrs(e)
  <2>1. mtrr' = "os" /\ saved' = saved
    BY <1>3 DEF ApRestoreMtrrs, MtrrOK
  <2> QED BY <2>1 DEF MtrrOK
<1>4. CASE BspMtrrs(e)
  <2>1. CASE pc[e] = "save" /\ saved' = [saved EXCEPT ![e] = mtrr] /\ mtrr' = mtrr
    <3>1. mtrr = "os"
      BY <2>1, MtrrsOrder
    <3> QED BY <2>1, <3>1 DEF MtrrOK
  <2>2. CASE pc[e] = "program" /\ pc' = [pc EXCEPT ![e] = "programmed"] /\ mtrr' = "smm" /\ saved' = saved
    <3>1. pc'[e] \in SmmMtrrs
      BY <1>0, <2>2 DEF SmmMtrrs
    <3>2. mode.mtrr
      BY <2>2 DEF Inv, BspOK, MainOK, BspMain, BspAt, BspProgram
    <3> QED BY <1>0, <2>2, <3>1, <3>2 DEF MtrrOK
  <2>3. CASE mtrr' = saved[e] /\ saved' = saved
    BY <2>3 DEF MtrrOK
  <2> QED BY <1>4, <2>1, <2>2, <2>3 DEF BspMtrrs
<1>5. CASE ~ApBackupMtrrs(e) /\ ~ApReplaceMtrrs(e) /\ ~ApRestoreMtrrs(e) /\ ~BspMtrrs(e)
  <2>1. mtrr' = mtrr /\ saved' = saved /\ pc[e] # "osMtrrs"
    BY <1>5, MtrrsFrame
  <2>2. ASSUME mtrr = "smm" PROVE mode.mtrr /\ \E b \in CPU : pc'[b] \in SmmMtrrs
    <3>1. PICK b \in CPU : mode.mtrr /\ pc[b] \in SmmMtrrs
      BY <2>2 DEF MtrrOK
    <3>2. pc'[b] \in SmmMtrrs
      BY <1>0, <2>1, <3>1
    <3> QED BY <3>1, <3>2
  <2> QED BY <1>0, <2>1, <2>2 DEF MtrrOK
<1> QED BY <1>1, <1>2, <1>3, <1>4, <1>5

-----------------------------------------------------------------------------
(* The latched SMIs and the local variables of SmiRendezvous. *)

WorldOK ==
  /\ smi \in [CPU -> BOOLEAN] /\ smiStatus \in BOOLEAN /\ unserved \in BOOLEAN
  /\ ValidSmi \in [CPU -> BOOLEAN] /\ BspInProgress \in [CPU -> BOOLEAN]

\* They keep their types.
LEMMA WorldStep ==
  ASSUME Types, WorldOK, Next
  PROVE  WorldOK'
<1> USE DEF WorldOK, world, local
<1>0. mode.alwaysValid \in BOOLEAN /\ InsideSmm \in BOOLEAN
  BY DEF Types, ModeType
<1>1. CASE \E S \in SmiTargets : RaiseSmi(S)
  BY <1>1 DEF RaiseSmi
<1> SUFFICES ASSUME NEW e \in CPU, Step(e) \/ Leave(e)
             PROVE  WorldOK'
  BY <1>1 DEF Next
<1>2. CASE SmiRendezvous(e) \/ Leave(e)
  <2>1. CASE TakeSmi(e) \/ CheckIn(e) \/ Elect(e)
    BY <2>1 DEF TakeSmi, CheckIn, Elect
  <2>2. CASE SampleValidSmi(e)
    BY <1>0, <2>2 DEF SampleValidSmi, PlatformValidSmi
  <2>3. CASE SampleInsideSmm(e)
    BY <1>0, <2>3 DEF SampleInsideSmm
  <2>4. CASE Leave(e)
    BY <2>4 DEF Leave
  <2> QED BY <1>2, <2>1, <2>2, <2>3, <2>4 DEF SmiRendezvous
<1>3. CASE APHandler(e)
  <2>1. CASE BspTimeout1(e)
    BY <2>1 DEF BspTimeout1, SendSmiIpi
  <2>2. CASE BspTimeout2(e) \/ GiveUp(e) \/ BspAvailable(e) \/ MarkPresent(e)
    BY <2>2 DEF BspTimeout2, GiveUp, BspAvailable, MarkPresent
  <2>3. CASE ApSignal(e)
    BY <2>3 DEF ApSignal
  <2>4. CASE ApBackupMtrrs(e) \/ ApReplaceMtrrs(e) \/ ApRestoreMtrrs(e)
    BY <2>4 DEF ApBackupMtrrs, ApReplaceMtrrs, ApRestoreMtrrs
  <2>5. CASE ApWakeUp(e) \/ ApReset(e) \/ ApCheckExit(e) \/ ApRunProcedure(e) \/ ApRelease(e)
    BY <2>5 DEF ApWakeUp, ApReset, ApCheckExit, ApRunProcedure, ApRelease
  <2> QED BY <1>3, <2>1, <2>2, <2>3, <2>4, <2>5 DEF APHandler
<1>4. CASE BSPHandler(e)
  <2>1. CASE BspEnter(e) \/ BspClear(e) \/ BspArrival2(e) \/ BspSync(e) \/ BspLock(e)
    BY <2>1 DEF BspEnter, BspClear, BspArrival2, BspSync, BspLock
  <2>2. CASE BspArrival1(e)
    BY <2>2 DEF BspArrival1, SendSmiIpi
  <2>3. CASE BspWaitThenRelease(e) \/ BspWait(e) \/ BspMtrrs(e) \/ BspCallCore(e) \/ BspCoreDone(e)
    BY <2>3 DEF BspWaitThenRelease, BspWait, BspMtrrs, BspCallCore, BspCoreDone
  <2>4. CASE BspAllIdle(e) \/ BspAllPresent(e) \/ BspExitSmm(e) \/ BspReleaseAll(e)
    BY <2>4 DEF BspAllIdle, BspAllPresent, BspExitSmm, BspReleaseAll
  <2>5. CASE BspAbsent(e) \/ BspGone(e) \/ BspOpen(e) \/ BspUnsync(e)
    BY <2>5 DEF BspAbsent, BspGone, BspOpen, BspUnsync
  <2> QED BY <1>4, <2>1, <2>2, <2>3, <2>4, <2>5 DEF BSPHandler
<1>5. CASE Schedule(e)
  BY <1>5 DEF Schedule, StartupThisAp, StartupAllAPs, AcquireAllBusy, ScheduleAll, ReleaseScheduled,
    BlockingDone
<1> QED BY <1>2, <1>3, <1>4, <1>5 DEF Step

-----------------------------------------------------------------------------
(***************************************************************************)
(* The procedures and their tokens.  A token counts the processors that    *)
(* hold it; while StartupAllAPs takes the BUSY locks, it still counts all  *)
(* processors and nobody holds it yet.                                     *)
(***************************************************************************)
Holders(f, t) == {c \in CPU : f[c] = t}

Scheduling == \E b \in CPU : pc[b] \in {"acquire", "schedule"}

CallsOK ==
  /\ calls \in 0..MaxCalls /\ FirstFreeToken \in 1..calls + 1
  /\ call \in [all : BOOLEAN, blocking : BOOLEAN, token : 0..MaxCalls, cpu : CPU \cup {NoCpu}]
  /\ \A c \in CPU : owed[c] <= MaxCalls
  /\ Scheduling => /\ MaxCalls >= 1 /\ call.token < FirstFreeToken
                   /\ \E c \in CPU : pc[c] \in ApIn

HoldersOK ==
  /\ Token \in [CPU -> 0..MaxCalls]
  /\ \A c \in CPU : Token[c] < FirstFreeToken
  /\ \A c \in CPU : Token[c] # 0 => pc[c] \in ApIn /\ (owed[c] = 1 \/ pc[c] = "ran")

Pending(t) == Scheduling /\ call.token = t

TokenOK(t) ==
  /\ tokens[t].locked <=> tokens[t].RunningApCount # 0
  /\ Pending(t) => Holders(Token, t) = {} /\ tokens[t].RunningApCount = NumberOfCpus
  /\ ~Pending(t) => tokens[t].RunningApCount = Cardinality(Holders(Token, t))

TokensOK ==
  /\ tokens \in [1..MaxCalls -> [RunningApCount : 0..NumberOfCpus, locked : BOOLEAN]]
  /\ \A t \in 1..MaxCalls : TokenOK(t)

TasksOK == CallsOK /\ HoldersOK /\ TokensOK

\* A set of holders is finite, and empty exactly when its size is zero.
LEMMA HoldersFinite ==
  ASSUME NEW f, NEW t
  PROVE  /\ IsFiniteSet(Holders(f, t)) /\ NumberOfCpus \in Nat
         /\ Cardinality(Holders(f, t)) \in 0..NumberOfCpus
         /\ Cardinality(Holders(f, t)) = 0 <=> Holders(f, t) = {}
<1>1. Holders(f, t) \in SUBSET CPU /\ IsFiniteSet(CPU)
  BY ConstantsAssumption DEF Holders
<1> QED BY <1>1, FS_Subset, FS_CardinalityType, FS_EmptySet DEF NumberOfCpus

\* There are processors.
LEMMA SomeCpu == NumberOfCpus \in Nat /\ NumberOfCpus >= 1 /\ MaxCalls \in Nat
<1>1. IsFiniteSet(CPU) /\ CPU # {} /\ MaxCalls \in Nat
  BY ConstantsAssumption
<1>2. Cardinality(CPU) \in Nat /\ Cardinality(CPU) # 0
  BY <1>1, FS_CardinalityType, FS_EmptySet
<1> QED BY <1>1, <1>2 DEF NumberOfCpus

\* A processor with a procedure or a token is in the loop of APHandler, and
\* the BSP in the core.
LEMMA BusyPlaces ==
  ASSUME Inv, NEW c \in CPU, pc[c] \in ApIn, owed[c] = 1 \/ pc[c] = "ran"
  PROVE  /\ pc[c] \in {"wait", "check", "run", "ran"} /\ Busy[c] /\ InsideSmm
         /\ \E b \in CPU : pc[b] \in Tasks \ {"schedule"} /\ pc[b] \in BspMain
<1>1. PICK b \in CPU : pc[b] \in BspMain /\ Meets(pc[b], pc[c]) /\ ApOK(pc[b], c) /\ MainOK(b)
  BY TheBsp
<1>2. pc[c] \in {"wait", "check", "run", "ran"} /\ pc[b] \in Tasks /\ Busy[c]
  BY <1>1 DEF Meets, ApOK
<1>3. pc[b] # "schedule"
  BY <1>1 DEF Meets, ApOK
<1>4. InsideSmm
  BY <1>1, <1>2 DEF MainOK, Inside, Tasks
<1> QED BY <1>1, <1>2, <1>3, <1>4

\* Only one processor schedules procedures.
LEMMA OneScheduler ==
  ASSUME Inv, NEW b \in CPU, pc[b] \in BspMain
  PROVE  Scheduling <=> pc[b] \in {"acquire", "schedule"}
BY DEF Inv, BspOK, Scheduling, BspMain, BspAt, BspCore

\* A step of e that leaves the tokens and the procedures alone.
LEMMA TasksQuiet ==
  ASSUME Inv, TasksOK, NEW e \in CPU, NEW q, pc' = [pc EXCEPT ![e] = q],
         UNCHANGED <<Token, tokens, FirstFreeToken, call, calls, owed>>,
         pc[e] \in {"acquire", "schedule"} <=> q \in {"acquire", "schedule"},
         q \in ApIn \/ pc[e] \notin ApIn \/ pc[e] = "resetDone",
         Token[e] # 0 => q \in ApIn /\ (owed[e] = 1 \/ q = "ran")
  PROVE  TasksOK'
<1>1. pc'[e] = q /\ \A d \in CPU \ {e} : pc'[d] = pc[d]
  BY PcOf DEF Inv
<1>2. Scheduling' <=> Scheduling
  BY <1>1 DEF Scheduling
<1>3. ASSUME Scheduling PROVE \E c \in CPU : pc'[c] \in ApIn
  <2>1. PICK c \in CPU : pc[c] \in ApIn
    BY <1>3 DEF TasksOK, CallsOK
  <2>2. pc[c] # "resetDone"
    <3>1. PICK b \in CPU : pc[b] \in {"acquire", "schedule"} /\ pc[b] \in BspMain
      BY <1>3 DEF Scheduling, BspMain, BspAt, BspCore
    <3> QED BY <2>1, <3>1 DEF Inv, ApsOK, Aps, Meets
  <2> QED BY <1>1, <2>1, <2>2
<1>4. CallsOK'
  BY <1>2, <1>3 DEF TasksOK, CallsOK
<1>5. HoldersOK'
  BY <1>1 DEF TasksOK, HoldersOK
<1>6. TokensOK'
  BY <1>2 DEF TasksOK, TokensOK, TokenOK, Pending
<1> QED BY <1>4, <1>5, <1>6 DEF TasksOK

\* Most of the steps are such.
LEMMA TasksQuietSteps ==
  ASSUME Inv, TasksOK, NEW e \in CPU, Step(e) \/ Leave(e),
         ~ApRunProcedure(e), ~ApRelease(e), ~BspGone(e), ~ScheduleAll(e), ~BlockingDone(e),
         ~\E ap \in CPU, blocking, token \in BOOLEAN : StartupThisAp(e, ap, blocking, token),
         ~\E blocking \in BOOLEAN : StartupAllAPs(e, blocking)
  PROVE  TasksOK'
<1> USE DEF Goto, task
<1>0. Token[e] # 0 =>
        /\ pc[e] \in {"wait", "check", "run", "ran"} /\ (owed[e] = 1 \/ pc[e] = "ran") /\ InsideSmm
  BY BusyPlaces DEF TasksOK, HoldersOK
<1> DEFINE Quiet(q) ==
      /\ pc' = [pc EXCEPT ![e] = q]
      /\ UNCHANGED <<Token, tokens, FirstFreeToken, call, calls, owed>>
      /\ pc[e] \in {"acquire", "schedule"} <=> q \in {"acquire", "schedule"}
      /\ q \in ApIn \/ pc[e] \notin ApIn \/ pc[e] = "resetDone"
      /\ pc[e] \notin {"wait", "check", "run", "ran"} \/ q = "check" \/ (pc[e] = "check" /\ (InsideSmm => q = "run"))
<1>1. SUFFICES \E q : Quiet(q)
  <2>1. PICK q : Quiet(q)
    BY <1>1
  <2>2. Token[e] # 0 => q \in ApIn /\ (owed[e] = 1 \/ q = "ran")
    <3>1. Token[e] # 0 => q \in {"check", "run"}
      BY <1>0, <2>1
    <3>2. Token[e] # 0 => owed[e] = 1 \/ pc[e] = "ran"
      BY <1>0
    <3>3. pc[e] # "ran"
      <4> SUFFICES ASSUME pc[e] = "ran" PROVE FALSE OBVIOUS
      <4>1. ~APHandler(e) /\ ~SmiRendezvous(e) /\ ~Leave(e)
        BY DEF APHandler, BspTimeout1, BspTimeout2, GiveUp, BspAvailable, MarkPresent, ApSignal,
          ApBackupMtrrs, ApReplaceMtrrs, ApWakeUp, ApCheckExit, ApRestoreMtrrs, ApReset, SmiRendezvous,
          TakeSmi, SampleValidSmi, SampleInsideSmm, CheckIn, Elect, Leave
      <4>2. ~BSPHandler(e)
        BY DEF BSPHandler, BspEnter, BspClear, BspArrival1, BspArrival2, BspSync, BspLock,
          BspWaitThenRelease, BspWait, BspMtrrs, BspCallCore, BspCoreDone, BspAllIdle, BspAllPresent,
          BspExitSmm, BspReleaseAll, BspAbsent, BspOpen, BspUnsync
      <4>3. ~Schedule(e)
        BY DEF Schedule, AcquireAllBusy, ReleaseScheduled
      <4> QED BY <4>1, <4>2, <4>3 DEF Step
    <3> QED BY <3>1, <3>2, <3>3 DEF ApIn
  <2> QED BY <2>1, <2>2, TasksQuiet
<1>2. CASE SmiRendezvous(e) \/ Leave(e)
  BY <1>2 DEF SmiRendezvous, TakeSmi, SampleValidSmi, SampleInsideSmm, CheckIn, Elect, Leave, ApIn
<1>3. CASE APHandler(e)
  <2> USE DEF ApIn
  <2>1. CASE BspTimeout1(e) \/ BspTimeout2(e) \/ GiveUp(e) \/ BspAvailable(e) \/ MarkPresent(e)
    BY <2>1 DEF BspTimeout1, BspTimeout2, GiveUp, BspAvailable, MarkPresent
  <2>2. CASE ApSignal(e)
    BY <2>2 DEF ApSignal
  <2>3. CASE ApBackupMtrrs(e) \/ ApReplaceMtrrs(e) \/ ApRestoreMtrrs(e) \/ ApReset(e)
    BY <2>3 DEF ApBackupMtrrs, ApReplaceMtrrs, ApRestoreMtrrs, ApReset
  <2>4. CASE ApWakeUp(e)
    BY <2>4 DEF ApWakeUp
  <2>5. CASE ApCheckExit(e)
    BY <2>5 DEF ApCheckExit
  <2> QED BY <1>3, <2>1, <2>2, <2>3, <2>4, <2>5 DEF APHandler
<1>4. CASE BSPHandler(e)
  <2> USE DEF ApIn
  <2>1. CASE BspEnter(e) \/ BspClear(e) \/ BspArrival1(e) \/ BspArrival2(e) \/ BspSync(e) \/ BspLock(e)
    BY <2>1 DEF BspEnter, BspClear, BspArrival1, BspArrival2, BspSync, BspLock
  <2>2. CASE BspWaitThenRelease(e)
    BY <2>2 DEF BspWaitThenRelease
  <2>3. CASE BspWait(e) \/ BspMtrrs(e) \/ BspCallCore(e) \/ BspCoreDone(e)
    BY <2>3 DEF BspWait, BspMtrrs, BspCallCore, BspCoreDone
  <2>4. CASE BspAllIdle(e) \/ BspAllPresent(e) \/ BspExitSmm(e) \/ BspReleaseAll(e)
    BY <2>4 DEF BspAllIdle, BspAllPresent, BspExitSmm, BspReleaseAll
  <2>5. CASE BspAbsent(e) \/ BspOpen(e) \/ BspUnsync(e)
    BY <2>5 DEF BspAbsent, BspOpen, BspUnsync
  <2> QED BY <1>4, <2>1, <2>2, <2>3, <2>4, <2>5 DEF BSPHandler
<1>5. CASE AcquireAllBusy(e) \/ ReleaseScheduled(e)
  BY <1>5 DEF AcquireAllBusy, ReleaseScheduled, ApIn
<1> QED BY <1>2, <1>3, <1>4, <1>5 DEF Step, Schedule

\* An AP runs its procedure and then releases its token.
LEMMA ApTasksStep ==
  ASSUME Inv, TasksOK, NEW e \in CPU, ApRunProcedure(e) \/ ApRelease(e)
  PROVE  TasksOK'
<1> DEFINE q == IF pc[e] = "run" THEN "ran" ELSE "wait"
<1>0. /\ owed \in [CPU -> Nat] /\ Token \in [CPU -> 0..MaxCalls] /\ MaxCalls \in Nat
      /\ tokens \in [1..MaxCalls -> [RunningApCount : 0..NumberOfCpus, locked : BOOLEAN]]
  BY SomeCpu DEF Inv, Types, TasksOK, HoldersOK, TokensOK
<1>1. /\ pc[e] \in {"run", "ran"} /\ pc'[e] = q /\ (\A d \in CPU \ {e} : pc'[d] = pc[d])
      /\ UNCHANGED <<FirstFreeToken, call, calls>>
  BY PcOf DEF ApRunProcedure, ApRelease, Goto, task, Inv
<1>2. Scheduling' <=> Scheduling
  BY <1>1 DEF Scheduling
<1>3. pc[e] \in ApIn /\ pc'[e] \in ApIn
  BY <1>1 DEF ApIn
<1>4. Scheduling => \E c \in CPU : pc'[c] \in ApIn
  BY <1>3
<1>5. CASE ApRunProcedure(e)
  <2>1. pc[e] = "run" /\ owed' = [owed EXCEPT ![e] = @ - 1] /\ UNCHANGED <<Token, tokens>>
    BY <1>5 DEF ApRunProcedure
  <2>2. owed[e] = 1
    <3>1. PICK b \in CPU : Meets(pc[b], pc[e]) /\ ApOK(pc[b], e)
      BY <1>3, TheBsp
    <3> QED BY <2>1, <3>1 DEF Meets, ApOK
  <2>3. pc'[e] = "ran" /\ \A c \in CPU \ {e} : owed'[c] = owed[c] /\ pc'[c] = pc[c]
    BY <1>0, <1>1, <2>1
  <2>4. \A c \in CPU : owed'[c] <= MaxCalls
    BY <1>0, <2>1, <2>2 DEF TasksOK, CallsOK
  <2>5. CallsOK'
    BY <1>1, <1>2, <1>4, <2>4 DEF TasksOK, CallsOK
  <2>6. HoldersOK'
    BY <1>1, <1>3, <2>1, <2>3 DEF TasksOK, HoldersOK
  <2>7. TokensOK'
    BY <1>1, <1>2, <2>1 DEF TasksOK, TokensOK, TokenOK, Pending
  <2> QED BY <2>5, <2>6, <2>7 DEF TasksOK
<1>6. CASE ApRelease(e)
  <2>1. /\ pc[e] = "ran" /\ owed' = owed /\ Token' = [Token EXCEPT ![e] = 0] /\ tokens' = ReleaseToken(e)
    BY <1>6 DEF ApRelease
  <2>2. CallsOK'
    BY <1>1, <1>2, <1>4, <2>1 DEF TasksOK, CallsOK
  <2>3. HoldersOK'
    <3>1. \A c \in CPU : Token'[c] = IF c = e THEN 0 ELSE Token[c]
      BY <1>0, <2>1
    <3>2. Token' \in [CPU -> 0..MaxCalls] /\ FirstFreeToken \in Nat /\ FirstFreeToken > 0
      BY <1>0, <2>1 DEF TasksOK, CallsOK
    <3> QED BY <1>1, <2>1, <3>1, <3>2 DEF TasksOK, HoldersOK
  <2>4. CASE Token[e] = 0
    <3>1. tokens' = tokens /\ Token' = Token
      BY <1>0, <2>1, <2>4 DEF ReleaseToken
    <3>2. TokensOK'
      BY <1>1, <1>2, <3>1 DEF TasksOK, TokensOK, TokenOK, Pending
    <3> QED BY <2>2, <2>3, <3>2 DEF TasksOK
  <2>5. CASE Token[e] # 0
    <3>0. PICK t \in 1..MaxCalls : t = Token[e]
      BY <1>0, <2>5
    <3> DEFINE n == tokens[t].RunningApCount - 1
    <3>1. e \in Holders(Token, t) /\ e \notin Holders(Token', t)
      BY <1>0, <2>1, <3>0 DEF Holders
    <3>2. Holders(Token', t) = Holders(Token, t) \ {e}
      BY <1>0, <2>1, <3>0 DEF Holders
    <3>3. \A u \in 1..MaxCalls \ {t} : Holders(Token', u) = Holders(Token, u)
      BY <1>0, <2>1, <3>0 DEF Holders
    <3>4. TokenOK(t) /\ ~Pending(t) /\ ~Pending(t)'
      <4>1. TokenOK(t)
        BY <3>1 DEF TasksOK, TokensOK
      <4> QED BY <1>1, <1>2, <3>1, <4>1 DEF TokenOK, Pending
    <3>5. tokens[t].RunningApCount = Cardinality(Holders(Token, t)) /\ tokens[t].locked
      <4>1. Cardinality(Holders(Token, t)) # 0
        BY <3>1, HoldersFinite
      <4> QED BY <3>4, <4>1 DEF TokenOK
    <3>6. n = Cardinality(Holders(Token', t)) /\ n \in 0..NumberOfCpus
      <4>1. IsFiniteSet(Holders(Token, t)) /\ Cardinality(Holders(Token, t)) \in 0..NumberOfCpus
            /\ NumberOfCpus \in Nat /\ Cardinality(Holders(Token, t)) # 0
        BY <3>1, HoldersFinite
      <4>2. Cardinality(Holders(Token, t) \ {e}) = Cardinality(Holders(Token, t)) - 1
        BY <3>1, <4>1, FS_RemoveElement
      <4> QED BY <3>2, <3>5, <4>1, <4>2
    <3>7. tokens' = [tokens EXCEPT ![t] = [RunningApCount |-> n, locked |-> tokens[t].locked /\ n # 0]]
      BY <1>0, <2>1, <2>5, <3>0 DEF ReleaseToken
    <3> HIDE DEF n
    <3>8. tokens'[t] = [RunningApCount |-> n, locked |-> n # 0]
          /\ \A u \in 1..MaxCalls \ {t} : tokens'[u] = tokens[u]
      BY <1>0, <3>1, <3>5, <3>7
    <3>9. tokens' \in [1..MaxCalls -> [RunningApCount : 0..NumberOfCpus, locked : BOOLEAN]]
      BY <1>0, <3>5, <3>6, <3>7
    <3>10. TokenOK(t)'
      <4>1. tokens'[t].RunningApCount = n
        BY <3>8
      <4>2. tokens'[t].locked <=> n # 0
        <5>1. CASE n = 0
          <6>1. tokens'[t] = [RunningApCount |-> n, locked |-> FALSE]
            BY <3>8, <5>1
          <6> QED BY <5>1, <6>1
        <5>2. CASE n # 0
          <6>1. tokens'[t] = [RunningApCount |-> n, locked |-> TRUE]
            BY <3>8, <5>2
          <6> QED BY <5>2, <6>1
        <5> QED BY <5>1, <5>2
      <4> QED BY <3>4, <3>6, <4>1, <4>2 DEF TokenOK
    <3>11. ASSUME NEW u \in 1..MaxCalls \ {t} PROVE TokenOK(u)'
      <4>1. TokenOK(u) /\ (Pending(u)' <=> Pending(u))
        BY <1>1, <1>2 DEF TasksOK, TokensOK, Pending
      <4> QED BY <3>3, <3>8, <4>1 DEF TokenOK
    <3>12. TokensOK'
      BY <3>9, <3>10, <3>11 DEF TokensOK
    <3> QED BY <2>2, <2>3, <3>12 DEF TasksOK
  <2> QED BY <2>4, <2>5
<1> QED BY <1>5, <1>6

\* The end of a run of the BSP (ResetTokens) and of a blocking call.
LEMMA EndTasksStep ==
  ASSUME Inv, TasksOK, NEW e \in CPU, BspGone(e) \/ BlockingDone(e)
  PROVE  TasksOK'
<1>0. pc[e] \in {"gone", "block"} /\ pc[e] \in BspMain /\ ~Scheduling
  <2>1. pc[e] \in {"gone", "block"} /\ pc[e] \in BspMain
    BY DEF BspGone, BlockingDone, BspMain, BspAt, BspExit, BspCore
  <2> QED BY <2>1, OneScheduler
<1>1. /\ pc'[e] \in {"open", "core"} /\ (\A d \in CPU \ {e} : pc'[d] = pc[d])
      /\ UNCHANGED <<Token, tokens, owed>>
  BY PcOf DEF BspGone, BlockingDone, Goto, Inv
<1>2. ~Scheduling' /\ MaxCalls \in Nat
  BY <1>0, <1>1, SomeCpu DEF Scheduling
<1>3. TokensOK'
  BY <1>0, <1>1, <1>2 DEF TasksOK, TokensOK, TokenOK, Pending
<1>4. pc[e] \notin ApIn
  BY <1>0 DEF ApIn
<1>5. CASE BspGone(e)
  <2>1. pc[e] = "gone" /\ FirstFreeToken' = 1 /\ calls' = 0 /\ call' = call
    BY <1>5 DEF BspGone
  <2>2. \A c \in CPU : Token[c] = 0
    <3> SUFFICES ASSUME NEW c \in CPU, Token[c] # 0 PROVE FALSE OBVIOUS
    <3>1. PICK b \in CPU : pc[b] \in Tasks /\ pc[b] \in BspMain
      BY BusyPlaces DEF TasksOK, HoldersOK
    <3>2. b = e
      BY <1>0, <3>1 DEF Inv, BspOK
    <3> QED BY <2>1, <3>1, <3>2 DEF Tasks, BspCore
  <2>3. CallsOK'
    BY <1>1, <1>2, <2>1 DEF TasksOK, CallsOK
  <2>4. HoldersOK'
    BY <1>1, <2>1, <2>2 DEF TasksOK, HoldersOK
  <2> QED BY <1>3, <2>3, <2>4 DEF TasksOK
<1>6. CASE BlockingDone(e)
  <2>1. UNCHANGED <<FirstFreeToken, calls>> /\ call' = NoCall
    BY <1>6 DEF BlockingDone
  <2>2. call' \in [all : BOOLEAN, blocking : BOOLEAN, token : 0..MaxCalls, cpu : CPU \cup {NoCpu}]
    BY <1>2, <2>1 DEF NoCall
  <2>3. CallsOK'
    BY <1>1, <1>2, <2>1, <2>2 DEF TasksOK, CallsOK
  <2>4. HoldersOK'
    BY <1>1, <1>4, <2>1 DEF TasksOK, HoldersOK
  <2> QED BY <1>3, <2>3, <2>4 DEF TasksOK
<1> QED BY <1>5, <1>6

\* GetFreeToken: nobody holds the next free token.
LEMMA FreeToken ==
  ASSUME TasksOK, calls < MaxCalls
  PROVE  /\ FirstFreeToken \in 1..MaxCalls /\ MaxCalls >= 1 /\ MaxCalls \in Nat /\ calls \in Nat
         /\ FirstFreeToken + 1 \in 1..(calls + 1) + 1
         /\ Holders(Token, FirstFreeToken) = {}
<1>1. calls \in 0..MaxCalls /\ FirstFreeToken \in 1..calls + 1 /\ MaxCalls \in Nat
  BY SomeCpu DEF TasksOK, CallsOK
<1>2. Holders(Token, FirstFreeToken) = {}
  BY <1>1 DEF TasksOK, HoldersOK, Holders
<1> QED BY <1>1, <1>2

\* InternalSmmStartupThisAp.
LEMMA StartupThisStep ==
  ASSUME Inv, TasksOK, NEW e \in CPU, NEW ap \in CPU, NEW blocking \in BOOLEAN, NEW token \in BOOLEAN,
         StartupThisAp(e, ap, blocking, token)
  PROVE  TasksOK'
<1>0. /\ pc[e] = "core" /\ pc[e] \in Tasks /\ pc[e] \in BspMain /\ calls < MaxCalls /\ IsPresentAp(ap) /\ ~Busy[ap]
      /\ calls' = calls + 1
      /\ owed' = [owed EXCEPT ![ap] = @ + 1]
      /\ call' = IF blocking THEN [NoCall EXCEPT !.blocking = TRUE, !.cpu = ap] ELSE NoCall
      /\ pc' = [pc EXCEPT ![e] = IF blocking THEN "block" ELSE "core"]
  BY DEF StartupThisAp, Goto, Tasks, BspCore, BspMain, BspAt
<1>1. pc'[e] \in {"block", "core"} /\ \A d \in CPU \ {e} : pc'[d] = pc[d]
  <2>1. pc \in [CPU -> Places]
    BY DEF Inv, Types
  <2> QED BY <1>0, <2>1
<1>2. ~Scheduling /\ ~Scheduling'
  <2>1. ~Scheduling
    BY <1>0, OneScheduler
  <2> QED BY <1>1, <2>1 DEF Scheduling
<1>3. pc[ap] \in ApIn /\ pc[ap] = "wait" /\ ap # e /\ owed[ap] = 0 /\ owed \in [CPU -> Nat]
  BY <1>0, IdleAp DEF Inv, Types
<1>4. Token[ap] = 0 /\ pc'[ap] = pc[ap] /\ pc[e] \notin ApIn
  <2>1. Token[ap] = 0
    BY <1>3 DEF TasksOK, HoldersOK
  <2> QED BY <1>0, <1>1, <1>3, <2>1 DEF ApIn
<1>5. owed'[ap] = 1 /\ \A c \in CPU \ {ap} : owed'[c] = owed[c]
  BY <1>0, <1>3
<1>6. /\ FirstFreeToken \in 1..MaxCalls /\ MaxCalls >= 1 /\ MaxCalls \in Nat /\ calls \in Nat
      /\ FirstFreeToken + 1 \in 1..(calls + 1) + 1
      /\ Holders(Token, FirstFreeToken) = {}
  BY <1>0, FreeToken
<1>7. CallsOK'
  <2>1. calls' \in 0..MaxCalls
    BY <1>0, <1>6
  <2>2. FirstFreeToken' \in 1..calls' + 1
    <3>1. FirstFreeToken' \in {FirstFreeToken, FirstFreeToken + 1}
      BY DEF StartupThisAp, GetFreeToken
    <3> QED BY <1>0, <1>6, <3>1 DEF TasksOK, CallsOK
  <2>3. call' \in [all : BOOLEAN, blocking : BOOLEAN, token : 0..MaxCalls, cpu : CPU \cup {NoCpu}]
    <3>1. 0 \in 0..MaxCalls
      BY <1>6
    <3>2. CASE blocking
      <4>1. call' = [NoCall EXCEPT !.blocking = TRUE, !.cpu = ap]
        BY <1>0, <3>2
      <4>2. NoCall \in [all : BOOLEAN, blocking : BOOLEAN, token : 0..MaxCalls, cpu : CPU \cup {NoCpu}]
        BY <3>1 DEF NoCall
      <4> QED BY <4>1, <4>2
    <3>3. CASE ~blocking
      BY <1>0, <3>1, <3>3 DEF NoCall
    <3> QED BY <3>2, <3>3
  <2>4. ASSUME NEW c \in CPU PROVE owed'[c] <= MaxCalls
    <3>1. CASE c = ap
      BY <1>5, <1>6, <3>1
    <3>2. CASE c # ap
      BY <1>5, <3>2 DEF TasksOK, CallsOK
    <3> QED BY <3>1, <3>2
  <2> QED BY <1>2, <2>1, <2>2, <2>3, <2>4 DEF CallsOK
<1>8. CASE ~token
  <2>1. UNCHANGED <<Token, tokens, FirstFreeToken>>
    BY <1>8 DEF StartupThisAp, GetFreeToken
  <2>2. HoldersOK'
    BY <1>1, <1>4, <1>5, <2>1 DEF TasksOK, HoldersOK
  <2>3. TokensOK'
    BY <1>2, <2>1 DEF TasksOK, TokensOK, TokenOK, Pending
  <2> QED BY <1>7, <2>2, <2>3 DEF TasksOK
<1>9. CASE token
  <2>1. PICK t \in 1..MaxCalls : t = FirstFreeToken
    BY <1>6
  <2>2. /\ tokens' = [tokens EXCEPT ![t] = [RunningApCount |-> 1, locked |-> TRUE]]
        /\ FirstFreeToken' = t + 1 /\ Token' = [Token EXCEPT ![ap] = t]
    BY <1>9, <2>1 DEF StartupThisAp, GetFreeToken
  <2>3. /\ Token \in [CPU -> 0..MaxCalls] /\ (\A c \in CPU : Token[c] < t)
        /\ tokens \in [1..MaxCalls -> [RunningApCount : 0..NumberOfCpus, locked : BOOLEAN]]
    BY <2>1 DEF TasksOK, HoldersOK, TokensOK
  <2>4. HoldersOK'
    <3>1. Token'[ap] = t /\ \A c \in CPU \ {ap} : Token'[c] = Token[c]
      BY <2>2, <2>3
    <3>2. Token' \in [CPU -> 0..MaxCalls]
      BY <1>6, <2>2, <2>3
    <3>3. \A c \in CPU : Token'[c] < t + 1
      BY <1>6, <2>3, <3>1
    <3>4. \A c \in CPU : Token'[c] # 0 => pc'[c] \in ApIn /\ (owed'[c] = 1 \/ pc'[c] = "ran")
      BY <1>1, <1>3, <1>4, <1>5, <3>1 DEF TasksOK, HoldersOK
    <3> QED BY <2>2, <3>2, <3>3, <3>4 DEF HoldersOK
  <2>5. TokenOK(t)'
    <3>1. Holders(Token', t) = {ap}
      BY <1>6, <2>1, <2>2, <2>3 DEF Holders
    <3>2. Cardinality(Holders(Token', t)) = 1
      BY <3>1, FS_Singleton
    <3>3. tokens'[t].RunningApCount = 1 /\ tokens'[t].locked
      BY <2>2, <2>3
    <3> QED BY <1>2, <3>2, <3>3 DEF TokenOK, Pending
  <2>6. ASSUME NEW u \in 1..MaxCalls, u # t PROVE TokenOK(u)'
    <3>1. Holders(Token', u) = Holders(Token, u) /\ tokens'[u] = tokens[u]
      BY <1>4, <2>2, <2>3, <2>6 DEF Holders
    <3>2. TokenOK(u)
      BY DEF TasksOK, TokensOK
    <3> QED BY <1>2, <3>1, <3>2 DEF TokenOK, Pending
  <2>7. tokens' \in [1..MaxCalls -> [RunningApCount : 0..NumberOfCpus, locked : BOOLEAN]]
    BY <2>2, <2>3, SomeCpu
  <2>8. TokensOK'
    BY <2>5, <2>6, <2>7 DEF TokensOK
  <2> QED BY <1>7, <2>4, <2>8 DEF TasksOK
<1> QED BY <1>8, <1>9

\* InternalSmmStartupAllAPs: a token for all processors, held by nobody yet.
LEMMA StartupAllStep ==
  ASSUME Inv, TasksOK, NEW e \in CPU, NEW blocking \in BOOLEAN, StartupAllAPs(e, blocking)
  PROVE  TasksOK'
<1>0. /\ pc[e] = "core" /\ pc[e] \in BspMain /\ calls < MaxCalls /\ PresentAps # {}
      /\ calls' = calls + 1 /\ owed' = owed /\ Token' = Token
      /\ call' = [all |-> TRUE, blocking |-> blocking,
                  token |-> IF blocking THEN 0 ELSE FirstFreeToken, cpu |-> NoCpu]
      /\ pc' = [pc EXCEPT ![e] = "acquire"]
  BY DEF StartupAllAPs, Goto, BspCore, BspMain, BspAt
<1>1. pc'[e] = "acquire" /\ \A d \in CPU \ {e} : pc'[d] = pc[d]
  BY <1>0, PcOf DEF Inv
<1>2. ~Scheduling /\ Scheduling'
  <2>1. ~Scheduling
    BY <1>0, OneScheduler
  <2> QED BY <1>1, <2>1 DEF Scheduling
<1>3. pc[e] \notin ApIn /\ \E c \in CPU : pc'[c] \in ApIn
  <2>1. PICK c \in CPU : IsPresentAp(c)
    BY <1>0 DEF PresentAps
  <2>2. pc[c] \in ApIn
    BY <1>0, <2>1, PresentApsFacts
  <2>3. pc[e] \notin ApIn
    BY <1>0 DEF ApIn
  <2> QED BY <1>1, <2>2, <2>3
<1>4. /\ FirstFreeToken \in 1..MaxCalls /\ MaxCalls >= 1 /\ MaxCalls \in Nat /\ calls \in Nat
      /\ FirstFreeToken + 1 \in 1..(calls + 1) + 1
      /\ Holders(Token, FirstFreeToken) = {}
  BY <1>0, FreeToken
<1>5. /\ FirstFreeToken' = IF blocking THEN FirstFreeToken ELSE FirstFreeToken + 1
      /\ tokens' = IF blocking THEN tokens
                   ELSE [tokens EXCEPT ![FirstFreeToken] = [RunningApCount |-> NumberOfCpus, locked |-> TRUE]]
  BY DEF StartupAllAPs, GetFreeToken
<1>6. call'.token = IF blocking THEN 0 ELSE FirstFreeToken
  BY <1>0
<1>7. CallsOK'
  <2>1. calls' \in 0..MaxCalls /\ FirstFreeToken' \in 1..calls' + 1
    BY <1>0, <1>4, <1>5 DEF TasksOK, CallsOK
  <2>2. call' \in [all : BOOLEAN, blocking : BOOLEAN, token : 0..MaxCalls, cpu : CPU \cup {NoCpu}]
    BY <1>0, <1>4
  <2>3. call'.token < FirstFreeToken'
    BY <1>4, <1>5, <1>6
  <2> QED BY <1>0, <1>3, <1>4, <2>1, <2>2, <2>3 DEF TasksOK, CallsOK
<1>8. HoldersOK'
  BY <1>0, <1>1, <1>3, <1>4, <1>5 DEF TasksOK, HoldersOK
<1>9. TokensOK'
  <2>1. tokens \in [1..MaxCalls -> [RunningApCount : 0..NumberOfCpus, locked : BOOLEAN]]
    BY DEF TasksOK, TokensOK
  <2>2. tokens' \in [1..MaxCalls -> [RunningApCount : 0..NumberOfCpus, locked : BOOLEAN]]
    <3>1. NumberOfCpus \in 0..NumberOfCpus
      BY SomeCpu
    <3>2. CASE blocking
      BY <1>5, <2>1, <3>2
    <3>3. CASE ~blocking
      <4>1. tokens' = [tokens EXCEPT ![FirstFreeToken] = [RunningApCount |-> NumberOfCpus, locked |-> TRUE]]
        BY <1>5, <3>3
      <4> QED BY <1>4, <2>1, <3>1, <4>1
    <3> QED BY <3>2, <3>3
  <2>3. ASSUME NEW u \in 1..MaxCalls PROVE TokenOK(u)'
    <3>1. TokenOK(u) /\ ~Pending(u)
      BY <1>2 DEF TasksOK, TokensOK, Pending
    <3>2. CASE blocking \/ u # FirstFreeToken
      <4>1. tokens'[u] = tokens[u] /\ ~Pending(u)'
        BY <1>5, <1>6, <2>1, <3>2 DEF Pending
      <4> QED BY <1>0, <3>1, <4>1 DEF TokenOK
    <3>3. CASE ~blocking /\ u = FirstFreeToken
      <4>1. tokens'[u] = [RunningApCount |-> NumberOfCpus, locked |-> TRUE]
        BY <1>5, <2>1, <3>3
      <4>2. tokens'[u].RunningApCount = NumberOfCpus /\ tokens'[u].locked /\ NumberOfCpus # 0
        BY <4>1, SomeCpu
      <4>3. Pending(u)' /\ Holders(Token', u) = {}
        BY <1>0, <1>2, <1>4, <1>6, <3>3 DEF Pending
      <4> QED BY <4>2, <4>3 DEF TokenOK
    <3> QED BY <3>2, <3>3
  <2> QED BY <2>2, <2>3 DEF TokensOK
<1> QED BY <1>7, <1>8, <1>9 DEF TasksOK

\* The APs get the procedure and the token, which then counts them.
LEMMA ScheduleAllStep ==
  ASSUME Inv, TasksOK, NEW e \in CPU, ScheduleAll(e)
  PROVE  TasksOK'
<1>0. /\ pc[e] = "schedule" /\ pc[e] \in BspMain /\ pc' = [pc EXCEPT ![e] = "release"]
      /\ owed' = [d \in CPU |-> IF d \in PresentAps THEN owed[d] + 1 ELSE owed[d]]
      /\ UNCHANGED <<FirstFreeToken, call, calls>>
  BY DEF ScheduleAll, Goto, BspCore, BspMain, BspAt
<1>1. pc'[e] = "release" /\ \A d \in CPU \ {e} : pc'[d] = pc[d]
  BY <1>0, PcOf DEF Inv
<1>2. Scheduling /\ ~Scheduling'
  <2>1. Scheduling /\ \A d \in CPU \ {e} : pc[d] \notin {"acquire", "schedule"}
    BY <1>0 DEF Scheduling, Inv, BspOK, BspMain, BspAt, BspCore
  <2> QED BY <1>1, <2>1 DEF Scheduling
<1>3. \A c \in CPU : pc[c] \in ApIn => pc[c] = "wait" /\ owed[c] = 0
  <2> SUFFICES ASSUME NEW c \in CPU, pc[c] \in ApIn PROVE pc[c] = "wait" /\ owed[c] = 0
    OBVIOUS
  <2>1. Meets(pc[e], pc[c]) /\ ApOK(pc[e], c) /\ MainOK(e)
    BY <1>0, BspFacts DEF Aps
  <2>2. GatherFirst
    BY <1>0, <2>1 DEF MainOK
  <2>3. pc[c] = "wait"
    BY <1>0, <2>1, <2>2 DEF Meets, ApIn, Arrivals, Gather, Tasks, BspCore
  <2> QED BY <1>0, <2>1, <2>3 DEF ApOK
<1>4. PresentAps = {c \in CPU : pc[c] \in ApIn} /\ PresentAps # {} /\ e \notin PresentAps
  <2>1. \A c \in CPU : c \in PresentAps <=> pc[c] \in ApIn
    BY <1>0, <1>3, PresentApsFacts DEF PresentAps
  <2>2. PresentAps # {}
    BY <1>2, <2>1 DEF TasksOK, CallsOK
  <2> QED BY <1>0, <2>1, <2>2 DEF ApIn, PresentAps
<1>5. /\ Token \in [CPU -> 0..MaxCalls] /\ MaxCalls \in Nat /\ MaxCalls >= 1
      /\ (\A c \in CPU : Token[c] = 0)
      /\ tokens \in [1..MaxCalls -> [RunningApCount : 0..NumberOfCpus, locked : BOOLEAN]]
      /\ call.token \in 0..MaxCalls /\ call.token < FirstFreeToken
  BY <1>2, <1>3, SomeCpu, SMTT(30) DEF TasksOK, CallsOK, HoldersOK, TokensOK
<1>6. CallsOK'
  <2>1. ASSUME NEW c \in CPU PROVE owed'[c] <= MaxCalls
    <3>1. CASE c \in PresentAps
      BY <1>0, <1>3, <1>4, <1>5, <3>1
    <3>2. CASE c \notin PresentAps
      BY <1>0, <3>2 DEF TasksOK, CallsOK
    <3> QED BY <3>1, <3>2
  <2> QED BY <1>0, <1>2, <2>1 DEF TasksOK, CallsOK
<1>7. CASE call.token = 0
  <2>1. UNCHANGED <<tokens, Token>>
    BY <1>7 DEF ScheduleAll
  <2>2. HoldersOK'
    BY <1>0, <1>5, <2>1 DEF TasksOK, HoldersOK
  <2>3. TokensOK'
    BY <1>0, <1>2, <1>7, <2>1 DEF TasksOK, TokensOK, TokenOK, Pending
  <2> QED BY <1>6, <2>2, <2>3 DEF TasksOK
<1>8. CASE call.token # 0
  <2>1. PICK t \in 1..MaxCalls : t = call.token
    BY <1>5, <1>8
  <2>2. /\ Token' = [d \in CPU |-> IF d \in PresentAps THEN t ELSE Token[d]]
        /\ tokens' = [tokens EXCEPT ![t].RunningApCount = @ - Cardinality(CPU \ PresentAps)]
    BY <1>8, <2>1 DEF ScheduleAll
  <2>3. HoldersOK'
    <3>1. Token' \in [CPU -> 0..MaxCalls]
      BY <1>5, <2>2
    <3>2. \A c \in CPU : Token'[c] < FirstFreeToken
      <4>1. \A c \in CPU : Token[c] < FirstFreeToken
        BY DEF TasksOK, HoldersOK
      <4> QED BY <1>5, <2>1, <2>2, <4>1
    <3>3. ASSUME NEW c \in CPU, Token'[c] # 0 PROVE pc'[c] \in ApIn /\ owed'[c] = 1
      <4>1. c \in PresentAps
        BY <1>5, <2>2, <3>3
      <4> QED BY <1>0, <1>1, <1>3, <1>4, <4>1
    <3> QED BY <1>0, <3>1, <3>2, <3>3 DEF HoldersOK
  <2>4. TokenOK(t) /\ Pending(t)
    BY <1>2, <2>1 DEF TasksOK, TokensOK, Pending
  <2>5. tokens[t].RunningApCount = NumberOfCpus /\ tokens[t].locked
    BY <2>4, SomeCpu DEF TokenOK
  <2>6. Holders(Token', t) = PresentAps /\ IsFiniteSet(CPU)
    BY <1>5, <2>2, ConstantsAssumption DEF Holders, PresentAps
  <2>7. /\ Cardinality(CPU \ PresentAps) = NumberOfCpus - Cardinality(PresentAps)
        /\ Cardinality(PresentAps) \in 1..NumberOfCpus
    <3>1. PresentAps \in SUBSET CPU
      BY DEF PresentAps
    <3>2. CPU \cap PresentAps = PresentAps
      BY <3>1
    <3>3. Cardinality(CPU \ PresentAps) = NumberOfCpus - Cardinality(PresentAps)
      <4>1. IsFiniteSet(CPU)
        BY <2>6
      <4>2. Cardinality(CPU \ PresentAps) = Cardinality(CPU) - Cardinality(CPU \cap PresentAps)
        BY <4>1, FS_Difference
      <4> QED BY <3>2, <4>2 DEF NumberOfCpus
    <3>4. Cardinality(Holders(Token', t)) \in 0..NumberOfCpus /\ Cardinality(Holders(Token', t)) # 0
      BY <1>4, <2>6, HoldersFinite
    <3> QED BY <2>6, <3>3, <3>4, SomeCpu
  <2>8. /\ tokens'[t].RunningApCount = Cardinality(PresentAps) /\ tokens'[t].locked
        /\ \A u \in 1..MaxCalls \ {t} : tokens'[u] = tokens[u]
    <3>1. NumberOfCpus - (NumberOfCpus - Cardinality(PresentAps)) = Cardinality(PresentAps)
      BY <2>7, SomeCpu
    <3> QED BY <1>5, <2>2, <2>5, <2>7, <3>1
  <2>9. tokens' \in [1..MaxCalls -> [RunningApCount : 0..NumberOfCpus, locked : BOOLEAN]]
    <3>1. tokens[t].RunningApCount - Cardinality(CPU \ PresentAps) \in 0..NumberOfCpus
      BY <2>5, <2>7, SomeCpu
    <3> QED BY <1>5, <2>2, <3>1
  <2>10. TokenOK(t)'
    BY <1>2, <2>6, <2>7, <2>8 DEF TokenOK, Pending
  <2>11. ASSUME NEW u \in 1..MaxCalls, u # t PROVE TokenOK(u)'
    <3>1. Holders(Token', u) = Holders(Token, u)
      BY <1>5, <2>2, <2>11 DEF Holders
    <3>2. TokenOK(u) /\ ~Pending(u) /\ ~Pending(u)'
      BY <1>2, <2>1, <2>11 DEF TasksOK, TokensOK, Pending
    <3> QED BY <2>8, <2>11, <3>1, <3>2 DEF TokenOK
  <2>12. TokensOK'
    BY <2>9, <2>10, <2>11 DEF TokensOK
  <2> QED BY <1>6, <2>3, <2>12 DEF TasksOK
<1> QED BY <1>7, <1>8

\* A step of processor e preserves TasksOK.
LEMMA TasksStep ==
  ASSUME Inv, TasksOK, NEW e \in CPU, Step(e) \/ Leave(e)
  PROVE  TasksOK'
<1>1. CASE ApRunProcedure(e) \/ ApRelease(e)
  BY <1>1, ApTasksStep
<1>2. CASE BspGone(e) \/ BlockingDone(e)
  BY <1>2, EndTasksStep
<1>3. CASE \E ap \in CPU, blocking, token \in BOOLEAN : StartupThisAp(e, ap, blocking, token)
  BY <1>3, StartupThisStep
<1>4. CASE \E blocking \in BOOLEAN : StartupAllAPs(e, blocking)
  BY <1>4, StartupAllStep
<1>5. CASE ScheduleAll(e)
  BY <1>5, ScheduleAllStep
<1> QED BY <1>1, <1>2, <1>3, <1>4, <1>5, TasksQuietSteps

-----------------------------------------------------------------------------
(* The invariant of the whole rendezvous, and what follows from it. *)

Duties == Inv /\ WorldOK /\ NormalOK /\ MtrrOK /\ TasksOK

\* Nothing has been scheduled, and nobody is in SMM.
LEMMA InitDuties == Init => Duties
<1> SUFFICES ASSUME Init PROVE Duties
  OBVIOUS
<1>1. Inv
  BY InitInv
<1>2. \A c \in CPU : pc[c] = "normal" /\ owed[c] = 0 /\ Token[c] = 0
  BY DEF Init
<1>3. ~Scheduling
  BY <1>2 DEF Scheduling
<1>4. WorldOK
  BY DEF Init, WorldOK
<1>5. NormalOK
  <2>1. "normal" \notin Gathered /\ "normal" \notin Gathering
    BY DEF Gathered, Gathering, BspProgram, BspCore
  <2> QED BY <1>2, <2>1 DEF NormalOK
<1>6. MtrrOK
  BY DEF Init, MtrrOK
<1>7. CallsOK
  <2>1. MaxCalls \in Nat /\ calls = 0 /\ FirstFreeToken = 1 /\ call = NoCall
    BY SomeCpu DEF Init
  <2> QED BY <1>2, <1>3, <2>1 DEF CallsOK, NoCall
<1>8. HoldersOK
  <2>1. Token = [c \in CPU |-> 0] /\ FirstFreeToken = 1 /\ MaxCalls \in Nat
    BY SomeCpu DEF Init
  <2> QED BY <2>1 DEF HoldersOK
<1>9. TokensOK
  <2>1. tokens = [t \in 1..MaxCalls |-> [RunningApCount |-> 0, locked |-> FALSE]]
    BY DEF Init
  <2>2. tokens \in [1..MaxCalls -> [RunningApCount : 0..NumberOfCpus, locked : BOOLEAN]]
    BY <2>1, SomeCpu
  <2>3. ASSUME NEW t \in 1..MaxCalls PROVE TokenOK(t)
    <3>1. Holders(Token, t) = {}
      BY <1>2 DEF Holders
    <3>2. Cardinality(Holders(Token, t)) = 0
      BY <3>1, FS_EmptySet
    <3> QED BY <1>3, <2>1, <3>2 DEF TokenOK, Pending
  <2> QED BY <2>2, <2>3 DEF TokensOK
<1> QED BY <1>1, <1>4, <1>5, <1>6, <1>7, <1>8, <1>9 DEF Duties, TasksOK

\* Every step preserves it.
LEMMA NextDuties ==
  ASSUME Duties, Prompt, ~LateBroadcast, [Next]_vars
  PROVE  Duties'
<1>0. Inv /\ WorldOK /\ NormalOK /\ MtrrOK /\ TasksOK /\ Types
  BY DEF Duties, Inv
<1>1. Inv'
  BY <1>0, NextInv
<1>2. CASE UNCHANGED vars
  <2>1. UNCHANGED <<mode, pc, Counter, InsideSmm, AllCpusInSync, smi, smiStatus, unserved, ValidSmi,
                    BspInProgress, mtrr, saved, Token, tokens, FirstFreeToken, call, calls, owed>>
    BY <1>2 DEF vars, sync, task, local, world, mtrrs
  <2>2. WorldOK' /\ MtrrOK'
    BY <1>0, <2>1 DEF WorldOK, MtrrOK
  <2>3. NormalOK'
    BY <1>0, <2>1 DEF NormalOK, GatherFirst, Gathered
  <2>4. TasksOK'
    BY <1>0, <2>1 DEF TasksOK, CallsOK, HoldersOK, TokensOK, TokenOK, Pending, Scheduling
  <2> QED BY <1>1, <2>2, <2>3, <2>4 DEF Duties
<1>3. CASE \E S \in SmiTargets : RaiseSmi(S)
  <2>1. /\ UNCHANGED <<mode, pc, Counter, InsideSmm, AllCpusInSync, ValidSmi,
                       mtrr, saved, Token, tokens, FirstFreeToken, call, calls, owed>>
        /\ \A c \in CPU : smi[c] => smi'[c]
    BY <1>3 DEF RaiseSmi, sync, task, local, mtrrs
  <2>2. WorldOK'
    BY <1>0, <1>3, WorldStep DEF Next
  <2>3. NormalOK' /\ MtrrOK'
    BY <1>0, <2>1 DEF NormalOK, GatherFirst, Gathered, MtrrOK
  <2>4. TasksOK'
    BY <1>0, <2>1 DEF TasksOK, CallsOK, HoldersOK, TokensOK, TokenOK, Pending, Scheduling
  <2> QED BY <1>1, <2>2, <2>3, <2>4 DEF Duties
<1>4. ASSUME NEW e \in CPU, Step(e) \/ Leave(e)
      PROVE  Duties'
  <2>1. Moves(e) /\ Reaches(e)
    BY <1>0, <1>4, StepMoves DEF WorldOK
  <2>2. WorldOK'
    BY <1>0, <1>4, WorldStep DEF Next
  <2>3. NormalOK'
    BY <1>0, <2>1, NormalStep DEF WorldOK
  <2>4. MtrrOK'
    BY <1>0, <1>4, <2>1, MtrrStep
  <2>5. TasksOK'
    BY <1>0, <1>4, TasksStep
  <2> QED BY <1>1, <2>2, <2>3, <2>4, <2>5 DEF Duties
<1> QED BY <1>2, <1>3, <1>4 DEF Next

\* The rendezvous keeps the processors in step, the operating system out, its
\* MTRRs apart from those of SMM, and the tokens equal to the work they stand for.
THEOREM DutiesInvariant ==
  ASSUME Prompt, ~LateBroadcast
  PROVE  Spec => []Duties
<1>1. Init => Duties
  BY InitDuties
<1>2. Duties /\ [Next]_vars => Duties'
  BY NextDuties
<1> QED BY <1>1, <1>2, PTL DEF Spec

\* SmmWaitForApArrival: while the handlers run that asked for all processors,
\* no processor executes normal mode code without an SMI waiting for it.
THEOREM NoNormalCodeBeside ==
  ASSUME Prompt, ~LateBroadcast
  PROVE  Spec => []NoNormalCode
<1>1. Duties => NoNormalCode
  <2> SUFFICES ASSUME Duties, NEW b \in CPU, GatherFirst, pc[b] \in BspCore, NEW c \in CPU, Outside(c)
               PROVE  FALSE
    BY DEF NoNormalCode
  <2>1. pc[b] \in Gathered
    BY DEF Gathered
  <2> QED BY <2>1 DEF Duties, NormalOK, Outside
<1> QED BY <1>1, DutiesInvariant, PTL

\* The MTRRs that threads of a core share (MtrrGetAllMtrrs, ReplaceOSMtrrs and
\* MtrrSetAllMtrrs): nobody saves those of SMM, and the operating system never
\* runs with them.
THEOREM MtrrsRestored ==
  ASSUME Prompt, ~LateBroadcast
  PROVE  Spec => []MtrrsKept
<1>1. Duties => MtrrsKept
  <2> SUFFICES ASSUME Duties PROVE MtrrsKept
    OBVIOUS
  <2>1. \A c \in CPU : saved[c] = "os"
    BY DEF Duties, MtrrOK
  <2>2. ASSUME mode.alwaysValid, NEW c \in CPU, Outside(c), mtrr # "os"
        PROVE  FALSE
    <3>1. PICK b \in CPU : mode.mtrr /\ pc[b] \in SmmMtrrs
      BY <2>2 DEF Duties, MtrrOK
    <3>2. GatherFirst /\ pc[b] \in Gathered
      BY <2>2, <3>1 DEF GatherFirst, Gathered, SmmMtrrs, BspProgram
    <3> QED BY <2>2, <3>2 DEF Duties, NormalOK, Outside
  <2> QED BY <2>1, <2>2 DEF MtrrsKept
<1> QED BY <1>1, DutiesInvariant, PTL

\* When the BSP clears InsideSmm, every scheduled procedure has run and every
\* token is free; until then a token that somebody holds is not free
\* (ReleaseToken, IsApReady, ResetTokens).
THEOREM EveryTaskFinished ==
  ASSUME Prompt, ~LateBroadcast
  PROVE  Spec => []TasksFinished
<1>1. Duties => TasksFinished
  <2> SUFFICES ASSUME Duties PROVE TasksFinished
    OBVIOUS
  <2>0. Inv /\ TasksOK
    BY DEF Duties
  <2>1. \A c \in CPU : Token[c] # 0 => InsideSmm
    BY <2>0, BusyPlaces DEF TasksOK, HoldersOK
  <2>2. ASSUME ~InsideSmm, NEW c \in CPU PROVE owed[c] = 0
    <3>1. CASE pc[c] \in ApIn
      <4>1. owed[c] \in {0, 1}
        BY <2>0, <3>1, TheBsp DEF ApOK
      <4> QED BY <2>0, <2>2, <3>1, <4>1, BusyPlaces
    <3>2. CASE pc[c] \notin ApIn
      BY <2>0, <3>2 DEF Inv, ApsOK
    <3> QED BY <3>1, <3>2
  <2>3. ASSUME ~InsideSmm, NEW t \in 1..MaxCalls PROVE ~tokens[t].locked
    <3>1. ~Scheduling
      <4> SUFFICES ASSUME NEW b \in CPU, pc[b] \in {"acquire", "schedule"} PROVE FALSE
        BY DEF Scheduling
      <4>1. pc[b] \in BspMain /\ pc[b] \in Inside
        BY DEF BspMain, BspAt, BspCore, Inside
      <4>2. MainOK(b)
        BY <2>0, <4>1, BspFacts
      <4> QED BY <2>3, <4>1, <4>2 DEF MainOK
    <3>2. Holders(Token, t) = {}
      BY <2>1, <2>3 DEF Holders
    <3>3. Cardinality(Holders(Token, t)) = 0
      BY <3>2, FS_EmptySet
    <3> QED BY <2>0, <3>1, <3>3 DEF TasksOK, TokensOK, TokenOK, Pending
  <2>4. ASSUME NEW c \in CPU, Token[c] # 0 PROVE tokens[Token[c]].locked
    <3>1. PICK t \in 1..MaxCalls : t = Token[c]
      BY <2>0, <2>4, SomeCpu DEF TasksOK, HoldersOK
    <3>2. c \in Holders(Token, t)
      BY <3>1 DEF Holders
    <3>3. Cardinality(Holders(Token, t)) # 0
      BY <3>2, HoldersFinite
    <3>4. TokenOK(t)
      BY <2>0 DEF TasksOK, TokensOK
    <3> QED BY <3>1, <3>2, <3>3, <3>4 DEF TokenOK
  <2> QED BY <2>2, <2>3, <2>4 DEF TasksFinished
<1> QED BY <1>1, DutiesInvariant, PTL

\* The variables of the rendezvous keep their types; the semaphores and the
\* Counter do not overflow.
THEOREM RendezvousTypes ==
  ASSUME Prompt, ~LateBroadcast
  PROVE  Spec => []TypeOK
<1>1. Duties => TypeOK
  <2> SUFFICES ASSUME Duties PROVE TypeOK
    OBVIOUS
  <2>0. Inv /\ Types /\ WorldOK /\ MtrrOK /\ TasksOK
    BY DEF Duties, Inv
  <2>1. Top \in Nat /\ NumberOfCpus \in Nat /\ NumberOfCpus < Top /\ 1 < Top /\ MaxCalls \in Nat
    BY SomeCpu, ConstantsAssumption DEF NumberOfCpus
  <2>2. Counter \in 0..Top
    <3>1. Count(pc, Counted) \in Nat /\ Count(pc, Counted) <= NumberOfCpus
      BY CountType
    <3> QED BY <2>0, <2>1, <3>1 DEF Inv, CounterOK
  <2>3. Run \in [CPU -> 0..Top]
    <3> SUFFICES ASSUME NEW c \in CPU PROVE Run[c] \in 0..Top
      BY <2>0 DEF Types
    <3>1. CASE pc[c] \in ApIn
      <4>1. Run[c] \in {0, 1}
        BY <2>0, <3>1, TheBsp DEF ApOK
      <4> QED BY <2>1, <4>1
    <3>2. CASE pc[c] \in BspMain \ {"absent", "gone"}
      <4>1. Run[c] = Count(pc, Signalled(pc[c]))
        BY <2>0, <3>2 DEF Inv, SignalsOK
      <4>2. Count(pc, Signalled(pc[c])) \in Nat /\ Count(pc, Signalled(pc[c])) <= NumberOfCpus
        BY CountType
      <4> QED BY <2>1, <4>1, <4>2
    <3>3. CASE pc[c] \in {"absent", "gone"}
      <4>1. Run[c] + Count(pc, {"reset", "resetDone"}) = ApCount /\ ApCount \in 0..NumberOfCpus
            /\ Run[c] \in Nat
        BY <2>0, <3>3 DEF Inv, SignalsOK, Types
      <4>2. Count(pc, {"reset", "resetDone"}) \in Nat
        BY CountType
      <4> QED BY <2>1, <4>1, <4>2
    <3>4. CASE pc[c] \notin ApIn \cup BspMain
      <4>1. Run[c] = 0
        BY <2>0, <3>4 DEF Inv, ApsOK
      <4> QED BY <2>1, <4>1
    <3> QED BY <3>1, <3>2, <3>3, <3>4
  <2>4. FirstFreeToken \in 1..MaxCalls + 1 /\ owed \in [CPU -> 0..MaxCalls]
    BY <2>0, <2>1 DEF TasksOK, CallsOK, Types
  <2> QED BY <2>0, <2>2, <2>3, <2>4 DEF TypeOK, Types, WorldOK, MtrrOK, TasksOK, CallsOK, HoldersOK, TokensOK
<1> QED BY <1>1, DutiesInvariant, PTL

=============================================================================
