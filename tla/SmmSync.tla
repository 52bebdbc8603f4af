------------------------------ MODULE SmmSync ------------------------------
(***************************************************************************)
(* The rendezvous of the processors in System Management Mode:             *)
(* UefiCpuPkg/PiSmmCpuDxeSmm/MpService.c.  Every processor that takes an   *)
(* SMI runs SmiRendezvous; one becomes the BSP and calls the SMM core, the *)
(* others wait for it in APHandler and run the procedures it schedules.    *)
(*                                                                         *)
(* A label of pc is a place in the code where other processors can be      *)
(* observed; what lies between two labels touches nothing shared or is one *)
(* interlocked instruction.  The loops over all processors (ReleaseAllAPs, *)
(* WaitForAllAPs, WaitForAllAPsNotBusy) are one step each.  The sync timer *)
(* may expire at any time.                                                 *)
(***************************************************************************)
EXTENDS Integers, FiniteSets

CONSTANTS
  CPU,        \* the processors
  BootCpu,    \* the one with index 0, which a platform hook elects
  NoCpu,      \* (UINT32)-1 in BspIndex
  Modes,      \* platform settings to start from, see ModeType
  Top,        \* the largest UINT32, the value of a locked Counter
  MaxCalls,   \* bound on the procedures scheduled in one SMI run
  SmiTargets, \* the sets of processors one SMI may be delivered to
  Prompt,     \* no processor is overtaken between two adjacent instructions
  LateBroadcast \* StartupAllAPs is called while processors may still arrive

(***************************************************************************)
(* The settings of a platform: PcdCpuSmmSyncMode,                          *)
(* SmmCpuFeaturesNeedConfigureMtrrs, whether PlatformValidSmi looks at the *)
(* SMI status at all, and how the BSP is elected.                          *)
(***************************************************************************)
ModeType == [tradition : BOOLEAN, mtrr : BOOLEAN, alwaysValid : BOOLEAN,
             election : {"first", "platform", "fixed"}]

ASSUME ConstantsAssumption ==
  /\ IsFiniteSet(CPU) /\ BootCpu \in CPU /\ NoCpu \notin CPU
  /\ Modes \subseteq ModeType
  /\ Top \in Nat /\ Top > Cardinality(CPU) + 1
  /\ MaxCalls \in Nat
  /\ SmiTargets \subseteq SUBSET CPU
  /\ Prompt \in BOOLEAN /\ LateBroadcast \in BOOLEAN

VARIABLES
  mode,
  \* mSmmMpSyncData
  Counter, InsideSmm, AllCpusInSync, BspIndex,
  \* mSmmMpSyncData->CpuData[]
  Run, Present, Busy, Token,
  \* gSmmCpuPrivate: the token list and SmmCoreEntryContext
  tokens, FirstFreeToken, CurrentlyExecutingCpu,
  \* local variables: BspIndex of APHandler, ValidSmi, BspInProgress, ApCount
  bsp, ValidSmi, BspInProgress, ApCount,
  \* processors and platform: program counters, latched SMIs, the SMI status,
  \* the MTRRs (threads of a core share them) and the saved copies
  pc, smi, smiStatus, mtrr, saved,
  \* the call the SMM core is making, and the calls it made in this run
  call, calls,
  \* history: procedures scheduled and not yet run; an SMI for all processors
  \* that the core has not been called for
  owed, unserved

sync  == <<Counter, InsideSmm, AllCpusInSync, BspIndex>>
local == <<bsp, ValidSmi, BspInProgress, ApCount>>
task  == <<Busy, Token, tokens, FirstFreeToken, call, calls, owed>>
world == <<smi, smiStatus, unserved>>
mtrrs == <<mtrr, saved>>
vars  == <<mode, sync, Run, Present, task, CurrentlyExecutingCpu, local, pc,
           world, mtrrs>>

NumberOfCpus == Cardinality(CPU)

\* Places in the code.
Arriving   == {"normal", "valid", "inProgress", "checkIn", "quit"}
ApWaiting  == {"elect", "timer1", "timer2", "giveUp"}
ApIn       == {"present", "notify", "backup", "backedUp", "replace", "replaced",
               "wait", "check", "run", "ran", "ready", "restore", "restored",
               "reset", "resetDone"}
BspGather  == {"enter", "clear", "arrival1", "arrival2", "sync", "lock"}
BspProgram == {"arrived", "save", "saved", "program", "programmed", "busy"}
BspCore    == {"core", "block", "acquire", "schedule", "release", "idle"}
BspExit    == {"sync2", "lock2", "allPresent", "exit", "exitAll", "tasks",
               "osMtrrs", "osDone", "absent", "gone", "open", "unsync"}
BspAt      == BspGather \cup BspProgram \cup BspCore \cup BspExit
Places     == Arriving \cup ApWaiting \cup ApIn \cup BspAt \cup {"leave"}

NoCall == [all |-> FALSE, blocking |-> FALSE, token |-> 0, cpu |-> NoCpu]

\* InitializeMpSyncData, run once before the first SMI.
Init ==
  /\ mode \in Modes
  /\ Counter = 0 /\ InsideSmm = FALSE /\ AllCpusInSync = FALSE
  /\ BspIndex = IF mode.election = "fixed" THEN BootCpu ELSE NoCpu
  /\ Run = [c \in CPU |-> 0]
  /\ Present = [c \in CPU |-> FALSE]
  /\ Busy = [c \in CPU |-> FALSE]
  /\ Token = [c \in CPU |-> 0]
  /\ tokens = [t \in 1..MaxCalls |-> [RunningApCount |-> 0, locked |-> FALSE]]
  /\ FirstFreeToken = 1
  /\ CurrentlyExecutingCpu = BootCpu
  /\ bsp = [c \in CPU |-> NoCpu]
  /\ ValidSmi = [c \in CPU |-> FALSE]
  /\ BspInProgress = [c \in CPU |-> FALSE]
  /\ ApCount = 0
  /\ pc = [c \in CPU |-> "normal"]
  /\ smi = [c \in CPU |-> FALSE] /\ smiStatus = FALSE
  /\ mtrr = "os" /\ saved = [c \in CPU |-> "os"]
  /\ call = NoCall /\ calls = 0
  /\ owed = [c \in CPU |-> 0] /\ unserved = FALSE

-----------------------------------------------------------------------------
(* Semaphores and helpers. *)

Goto(c, place) == pc' = [pc EXCEPT ![c] = place]

\* WaitForSemaphore: from zero it waits; a locked semaphore is not zero.
WaitForSemaphore(c) == Run[c] > 0 /\ Run' = [Run EXCEPT ![c] = @ - 1]

ReleaseSemaphore(c) == Run' = [Run EXCEPT ![c] = IF @ = Top THEN Top ELSE @ + 1]

IsPresentAp(c) == c # CurrentlyExecutingCpu /\ Present[c]

PresentAps == {c \in CPU : IsPresentAp(c)}

ReleaseAllAPs ==
  Run' = [c \in CPU |-> IF IsPresentAp(c) /\ Run[c] # Top THEN Run[c] + 1 ELSE Run[c]]

\* WaitForAllAPs takes ApCount units from the Run semaphore of the BSP.
AllAPsSignalled(b) == Run[b] >= ApCount

WaitForAllAPs(b) == AllAPsSignalled(b) /\ Run' = [Run EXCEPT ![b] = @ - ApCount]

\* Mutant: the APs are released without waiting for them.
ReleaseAPsAtOnce(b) == ReleaseAllAPs

\* WaitForAllAPs followed at once by ReleaseAllAPs.
WaitThenReleaseAPs(b) ==
  /\ AllAPsSignalled(b)
  /\ Run' = [c \in CPU |-> IF c = b THEN Run[b] - ApCount
                           ELSE IF IsPresentAp(c) THEN Run[c] + 1 ELSE Run[c]]

\* Mutant: the result of the non-blocking form is ignored.
WaitForNobody == TRUE

WaitForAllAPsNotBusy == \A c \in PresentAps : ~Busy[c]

AllCpusInSmm == Counter = NumberOfCpus \/ \A c \in CPU : Present[c]

\* SmmCpuSyncModeTradition or MTRRs to be configured: the BSP gathers the
\* processors before it calls the core rather than after.
GatherFirst == mode.tradition \/ mode.mtrr

\* The sync timer may have expired whenever it is looked at.
IsSyncTimerTimeout == TRUE

\* The sync timer is longer than the distance between two instructions: the
\* BSP does not conclude its wait while a processor stands between its last
\* look at InsideSmm and the Counter, or between the two assignments that
\* end an SMI run.
Undisturbed == Prompt => \A c \in CPU : pc[c] \notin {"giveUp", "unsync"}
-----------------------------------------------------------------------------
(* The platform. *)

\* An SMI is raised and delivered; while a processor is in SMM it is latched.
RaiseSmi(S) ==
  /\ smi' = [c \in CPU |-> smi[c] \/ c \in S]
  /\ smiStatus' = TRUE /\ unserved' = (unserved \/ S = CPU)
  /\ UNCHANGED <<mode, sync, Run, Present, task, CurrentlyExecutingCpu, local, pc, mtrrs>>

TakeSmi(c) ==
  /\ pc[c] = "normal" /\ smi[c]
  /\ smi' = [smi EXCEPT ![c] = FALSE]
  /\ Goto(c, "valid")
  /\ UNCHANGED <<mode, sync, Run, Present, task, CurrentlyExecutingCpu, local,
                 smiStatus, unserved, mtrrs>>

PlatformValidSmi == mode.alwaysValid \/ smiStatus

\* PlatformSmmBspElection: the boot processor, on platforms that decide.
PlatformSmmBspElection(c) == c = BootCpu

-----------------------------------------------------------------------------
(* SmiRendezvous *)

SampleValidSmi(c) ==
  /\ pc[c] = "valid"
  /\ ValidSmi' = [ValidSmi EXCEPT ![c] = PlatformValidSmi]
  /\ Goto(c, "inProgress")
  /\ UNCHANGED <<mode, sync, Run, Present, task, CurrentlyExecutingCpu, bsp,
                 BspInProgress, ApCount, world, mtrrs>>

SampleInsideSmm(c) ==
  /\ pc[c] = "inProgress"
  /\ BspInProgress' = [BspInProgress EXCEPT ![c] = InsideSmm]
  /\ Goto(c, IF InsideSmm \/ ValidSmi[c] THEN "checkIn" ELSE "normal")
  /\ ValidSmi' = [ValidSmi EXCEPT ![c] = FALSE]  \* not looked at again
  /\ UNCHANGED <<mode, sync, Run, Present, task, CurrentlyExecutingCpu, bsp,
                 ApCount, world, mtrrs>>

\* Mutant: the Counter is incremented also when the BSP has locked it.
CheckInAnyway(c) ==
  /\ pc[c] = "checkIn"
  /\ Counter' = Counter + 1
  /\ Busy' = [Busy EXCEPT ![c] = FALSE]
  /\ Goto(c, IF BspInProgress[c] THEN "timer1" ELSE "elect")
  /\ UNCHANGED <<mode, InsideSmm, AllCpusInSync, BspIndex, Run, Present, Token, tokens,
                 FirstFreeToken, call, calls, owed, CurrentlyExecutingCpu, local,
                 world, mtrrs>>

\* ReleaseSemaphore on the Counter; zero is returned when the BSP locked it.
CheckIn(c) ==
  /\ pc[c] = "checkIn"
  /\ IF Counter = Top
     THEN Goto(c, "quit") /\ UNCHANGED <<Counter, Busy>>
     ELSE /\ Counter' = Counter + 1
          /\ Busy' = [Busy EXCEPT ![c] = FALSE]
          /\ Goto(c, IF BspInProgress[c] THEN "timer1" ELSE "elect")
  /\ UNCHANGED <<mode, InsideSmm, AllCpusInSync, BspIndex, Run, Present, Token, tokens,
                 FirstFreeToken, call, calls, owed, CurrentlyExecutingCpu, local,
                 world, mtrrs>>

\* Mutant: the index is stored without comparing.
ElectedLast(c) == IF mode.election = "fixed" THEN BspIndex ELSE c

Elected(c) ==
  CASE mode.election = "first" -> IF BspIndex = NoCpu THEN c ELSE BspIndex
    [] mode.election = "platform" -> IF PlatformSmmBspElection(c) THEN c ELSE BspIndex
    [] mode.election = "fixed" -> BspIndex

Elect(c) ==
  /\ pc[c] = "elect"
  /\ BspIndex' = Elected(c)
  /\ Goto(c, IF BspIndex' = c THEN "enter" ELSE "timer1")
  /\ UNCHANGED <<mode, Counter, InsideSmm, AllCpusInSync, Run, Present, task,
                 CurrentlyExecutingCpu, local, world, mtrrs>>

\* Both waits for AllCpusInSync, that of a late processor and the last one;
\* the local variables end with the function.
Leave(c) ==
  /\ pc[c] \in {"quit", "leave"} /\ ~AllCpusInSync
  /\ Goto(c, "normal")
  /\ BspInProgress' = [BspInProgress EXCEPT ![c] = FALSE]
  /\ bsp' = [bsp EXCEPT ![c] = NoCpu]
  /\ UNCHANGED <<mode, sync, Run, Present, task, CurrentlyExecutingCpu, ValidSmi, ApCount,
                 world, mtrrs>>

-----------------------------------------------------------------------------
(* APHandler *)

SendSmiIpi(S) == smi' = [c \in CPU |-> smi[c] \/ c \in S]

\* The BSP did not come in time; ask for it, or give up when it is not known.
BspTimeout1(c) ==
  /\ pc[c] = "timer1" /\ ~InsideSmm
  /\ IF BspIndex # NoCpu
     THEN SendSmiIpi({BspIndex}) /\ Goto(c, "timer2")
     ELSE UNCHANGED smi /\ Goto(c, "giveUp")
  /\ UNCHANGED <<mode, sync, Run, Present, task, CurrentlyExecutingCpu, local,
                 smiStatus, unserved, mtrrs>>

BspTimeout2(c) ==
  /\ pc[c] = "timer2" /\ ~InsideSmm
  /\ Goto(c, "giveUp")
  /\ UNCHANGED <<mode, sync, Run, Present, task, CurrentlyExecutingCpu, local, world, mtrrs>>

\* WaitForSemaphore on the Counter, whatever happened to it meanwhile.
GiveUp(c) ==
  /\ pc[c] = "giveUp" /\ Counter # 0
  /\ Counter' = Counter - 1
  /\ Goto(c, "leave")
  /\ UNCHANGED <<mode, InsideSmm, AllCpusInSync, BspIndex, Run, Present, task,
                 CurrentlyExecutingCpu, local, world, mtrrs>>

BspAvailable(c) ==
  /\ pc[c] \in {"timer1", "timer2"} /\ InsideSmm
  /\ bsp' = [bsp EXCEPT ![c] = BspIndex]
  /\ Goto(c, "present")
  /\ UNCHANGED <<mode, sync, Run, Present, task, CurrentlyExecutingCpu, ValidSmi,
                 BspInProgress, ApCount, world, mtrrs>>

MarkPresent(c) ==
  /\ pc[c] = "present"
  /\ Present' = [Present EXCEPT ![c] = TRUE]
  /\ Goto(c, IF GatherFirst THEN "notify" ELSE "wait")
  /\ UNCHANGED <<mode, sync, Run, task, CurrentlyExecutingCpu, local, world, mtrrs>>

\* The releases of the BSP's Run semaphore: what each one reports.
ApSignal(c) ==
  /\ \/ pc[c] = "notify"    /\ Goto(c, IF mode.mtrr THEN "backup" ELSE "wait")
     \/ pc[c] = "backedUp"  /\ Goto(c, "replace")
     \/ pc[c] = "replaced"  /\ Goto(c, "wait")
     \/ pc[c] = "ready"     /\ Goto(c, "restore")
     \/ pc[c] = "restored"  /\ Goto(c, "reset")
     \/ pc[c] = "resetDone" /\ Goto(c, "leave")
  /\ ReleaseSemaphore(bsp[c])
  /\ UNCHANGED <<mode, sync, Present, task, CurrentlyExecutingCpu, local, world, mtrrs>>

ApBackupMtrrs(c) ==
  /\ pc[c] = "backup" /\ WaitForSemaphore(c)
  /\ saved' = [saved EXCEPT ![c] = mtrr]
  /\ Goto(c, "backedUp")
  /\ UNCHANGED <<mode, sync, Present, task, CurrentlyExecutingCpu, local, world, mtrr>>

ApReplaceMtrrs(c) ==
  /\ pc[c] = "replace" /\ WaitForSemaphore(c)
  /\ mtrr' = "smm"
  /\ Goto(c, "replaced")
  /\ UNCHANGED <<mode, sync, Present, task, CurrentlyExecutingCpu, local, world, saved>>

ApWakeUp(c) ==
  /\ pc[c] = "wait" /\ WaitForSemaphore(c)
  /\ Goto(c, "check")
  /\ UNCHANGED <<mode, sync, Present, task, CurrentlyExecutingCpu, local, world, mtrrs>>

ApCheckExit(c) ==
  /\ pc[c] = "check"
  /\ Goto(c, IF InsideSmm THEN "run" ELSE IF mode.mtrr THEN "ready" ELSE "restored")
  /\ UNCHANGED <<mode, sync, Run, Present, task, CurrentlyExecutingCpu, local, world, mtrrs>>

\* The scheduled procedure, and the status it returns.
ApRunProcedure(c) ==
  /\ pc[c] = "run"
  /\ owed' = [owed EXCEPT ![c] = @ - 1]
  /\ Goto(c, "ran")
  /\ UNCHANGED <<mode, sync, Run, Present, Busy, Token, tokens, FirstFreeToken, call,
                 calls, CurrentlyExecutingCpu, local, world, mtrrs>>

\* The token list after processor c has finished with its token.
ReleaseToken(c) ==
  IF Token[c] = 0 THEN tokens
  ELSE LET n == tokens[Token[c]].RunningApCount - 1
       IN  [tokens EXCEPT ![Token[c]] =
             [RunningApCount |-> n, locked |-> @.locked /\ n # 0]]

ApRelease(c) ==
  /\ pc[c] = "ran"
  /\ tokens' = ReleaseToken(c)
  /\ Token' = [Token EXCEPT ![c] = 0]
  /\ Busy' = [Busy EXCEPT ![c] = FALSE]
  /\ Goto(c, "wait")
  /\ UNCHANGED <<mode, sync, Run, Present, FirstFreeToken, call, calls, owed,
                 CurrentlyExecutingCpu, local, world, mtrrs>>

ApRestoreMtrrs(c) ==
  /\ pc[c] = "restore" /\ WaitForSemaphore(c)
  /\ mtrr' = saved[c]
  /\ Goto(c, "restored")
  /\ UNCHANGED <<mode, sync, Present, task, CurrentlyExecutingCpu, local, world, saved>>

\* Mutant: the AP does not wait for the signal to reset its state.
ApResetEarly(c) ==
  /\ pc[c] = "reset"
  /\ Present' = [Present EXCEPT ![c] = FALSE]
  /\ Goto(c, "resetDone")
  /\ UNCHANGED <<mode, sync, Run, task, CurrentlyExecutingCpu, local, world, mtrrs>>

ApReset(c) ==
  /\ pc[c] = "reset" /\ WaitForSemaphore(c)
  /\ Present' = [Present EXCEPT ![c] = FALSE]
  /\ Goto(c, "resetDone")
  /\ UNCHANGED <<mode, sync, task, CurrentlyExecutingCpu, local, world, mtrrs>>
-----------------------------------------------------------------------------
(* BSPHandler *)

BspEnter(c) ==
  /\ pc[c] = "enter"
  /\ InsideSmm' = TRUE
  /\ Goto(c, "clear")
  /\ UNCHANGED <<mode, Counter, AllCpusInSync, BspIndex, Run, Present, task,
                 CurrentlyExecutingCpu, local, world, mtrrs>>

\* Present, ClearTopLevelSmiStatus and the running processor index.
BspClear(c) ==
  /\ pc[c] = "clear"
  /\ Present' = [Present EXCEPT ![c] = TRUE]
  /\ smiStatus' = FALSE
  /\ CurrentlyExecutingCpu' = c
  /\ Goto(c, IF GatherFirst THEN "arrival1" ELSE "busy")
  /\ UNCHANGED <<mode, sync, Run, task, local, smi, unserved, mtrrs>>

\* SmmWaitForApArrival: two rounds, with an SMI sent to the absent in between.
ArrivalOver == Undisturbed /\ (AllCpusInSmm \/ IsSyncTimerTimeout)

\* Mutant: no SMI is sent to the processors that have not arrived.
BspArrivalNoIpi(c) ==
  /\ pc[c] = "arrival1" /\ ArrivalOver
  /\ Goto(c, IF Counter < NumberOfCpus THEN "arrival2" ELSE "sync")
  /\ UNCHANGED <<mode, sync, Run, Present, task, CurrentlyExecutingCpu, local, world, mtrrs>>

BspArrival1(c) ==
  /\ pc[c] = "arrival1" /\ ArrivalOver
  /\ IF Counter < NumberOfCpus
     THEN SendSmiIpi({d \in CPU : ~Present[d]}) /\ Goto(c, "arrival2")
     ELSE UNCHANGED smi /\ Goto(c, "sync")
  /\ UNCHANGED <<mode, sync, Run, Present, task, CurrentlyExecutingCpu, local,
                 smiStatus, unserved, mtrrs>>

BspArrival2(c) ==
  /\ pc[c] = "arrival2" /\ ArrivalOver
  /\ Goto(c, "sync")
  /\ UNCHANGED <<mode, sync, Run, Present, task, CurrentlyExecutingCpu, local, world, mtrrs>>

\* AllCpusInSync = TRUE, before the core (sync) or after it (sync2).
BspSync(c) ==
  /\ \/ pc[c] = "sync" /\ Goto(c, "lock")
     \/ pc[c] = "sync2" /\ Undisturbed /\ Goto(c, "lock2")
  /\ AllCpusInSync' = TRUE
  /\ UNCHANGED <<mode, Counter, InsideSmm, BspIndex, Run, Present, task,
                 CurrentlyExecutingCpu, local, world, mtrrs>>

\* Mutant: the BSP counts itself among the APs.
BspLockAll(c) ==
  /\ \/ pc[c] = "lock" /\ Goto(c, "arrived")
     \/ pc[c] = "lock2" /\ Goto(c, "allPresent")
  /\ ApCount' = Counter
  /\ Counter' = Top
  /\ UNCHANGED <<mode, InsideSmm, AllCpusInSync, BspIndex, Run, Present, task,
                 CurrentlyExecutingCpu, bsp, ValidSmi, BspInProgress, world, mtrrs>>

\* LockdownSemaphore: from here on nobody checks in.
BspLock(c) ==
  /\ \/ pc[c] = "lock" /\ Goto(c, "arrived")
     \/ pc[c] = "lock2" /\ Goto(c, "allPresent")
  /\ ApCount' = Counter - 1
  /\ Counter' = Top
  /\ UNCHANGED <<mode, InsideSmm, AllCpusInSync, BspIndex, Run, Present, task,
                 CurrentlyExecutingCpu, bsp, ValidSmi, BspInProgress, world, mtrrs>>

\* The waits for all APs that are followed by a release of all APs.
BspWaitThenRelease(c) ==
  /\ \/ pc[c] = "arrived" /\ mode.mtrr /\ Goto(c, "save")
     \/ pc[c] = "saved" /\ Goto(c, "program")
     \/ pc[c] = "tasks" /\ Goto(c, IF mode.mtrr THEN "osMtrrs" ELSE "absent")
     \/ pc[c] = "osDone" /\ Goto(c, "absent")
  /\ WaitThenReleaseAPs(c)
  /\ UNCHANGED <<mode, sync, Present, task, CurrentlyExecutingCpu, local, world, mtrrs>>

\* The waits for all APs before the core is called.
BspWait(c) ==
  /\ \/ pc[c] = "arrived" /\ ~mode.mtrr
     \/ pc[c] = "programmed"
  /\ Goto(c, "busy")
  /\ WaitForAllAPs(c)
  /\ UNCHANGED <<mode, sync, Present, task, CurrentlyExecutingCpu, local, world, mtrrs>>

BspMtrrs(c) ==
  /\ \/ /\ pc[c] = "save" /\ Goto(c, "saved")
        /\ saved' = [saved EXCEPT ![c] = mtrr] /\ UNCHANGED mtrr
     \/ pc[c] = "program" /\ Goto(c, "programmed") /\ mtrr' = "smm" /\ UNCHANGED saved
     \/ pc[c] = "osMtrrs" /\ Goto(c, "osDone") /\ mtrr' = saved[c] /\ UNCHANGED saved
  /\ UNCHANGED <<mode, sync, Run, Present, task, CurrentlyExecutingCpu, local, world>>

\* The BUSY lock of the BSP, and the call of SmmCoreEntry.
BspCallCore(c) ==
  /\ pc[c] = "busy" /\ ~Busy[c]
  /\ Busy' = [Busy EXCEPT ![c] = TRUE]
  /\ unserved' = FALSE
  /\ Goto(c, "core")
  /\ UNCHANGED <<mode, sync, Run, Present, Token, tokens, FirstFreeToken, call, calls,
                 owed, CurrentlyExecutingCpu, local, smi, smiStatus, mtrrs>>

\* Mutant: the SMI status is cleared after the handlers have run.
BspCoreDoneClears(c) ==
  /\ pc[c] = "core"
  /\ smiStatus' = FALSE
  /\ Goto(c, "idle")
  /\ UNCHANGED <<mode, sync, Run, Present, task, CurrentlyExecutingCpu, local, smi,
                 unserved, mtrrs>>

\* The core has returned; its procedures may still be running.
BspCoreDone(c) ==
  /\ pc[c] = "core"
  /\ Goto(c, "idle")
  /\ UNCHANGED <<mode, sync, Run, Present, task, CurrentlyExecutingCpu, local, world, mtrrs>>

BspAllIdle(c) ==
  /\ pc[c] = "idle" /\ WaitForAllAPsNotBusy
  /\ Goto(c, IF GatherFirst THEN "exit" ELSE "sync2")
  /\ UNCHANGED <<mode, sync, Run, Present, task, CurrentlyExecutingCpu, local, world, mtrrs>>

\* Mutant: the Present flags are not waited for.
BspAnyPresent(c) ==
  /\ pc[c] = "allPresent"
  /\ Goto(c, "exit")
  /\ UNCHANGED <<mode, sync, Run, Present, task, CurrentlyExecutingCpu, local, world, mtrrs>>

\* In relaxed mode: every AP that checked in has set its Present flag.
BspAllPresent(c) ==
  /\ pc[c] = "allPresent"
  /\ Cardinality({d \in CPU : Present[d]}) > ApCount
  /\ Goto(c, "exit")
  /\ UNCHANGED <<mode, sync, Run, Present, task, CurrentlyExecutingCpu, local, world, mtrrs>>

BspExitSmm(c) ==
  /\ pc[c] = "exit"
  /\ InsideSmm' = FALSE
  /\ Goto(c, "exitAll")
  /\ UNCHANGED <<mode, Counter, AllCpusInSync, BspIndex, Run, Present, task,
                 CurrentlyExecutingCpu, local, world, mtrrs>>

BspReleaseAll(c) ==
  /\ pc[c] = "exitAll"
  /\ ReleaseAllAPs
  /\ Goto(c, "tasks")
  /\ UNCHANGED <<mode, sync, Present, task, CurrentlyExecutingCpu, local, world, mtrrs>>

BspAbsent(c) ==
  /\ pc[c] = "absent"
  /\ Present' = [Present EXCEPT ![c] = FALSE]
  /\ Goto(c, "gone")
  /\ UNCHANGED <<mode, sync, Run, task, CurrentlyExecutingCpu, local, world, mtrrs>>

\* The last wait, ResetTokens, and the end of the election; ApCount is not
\* used after this.
BspGone(c) ==
  /\ pc[c] = "gone" /\ WaitForAllAPs(c)
  /\ FirstFreeToken' = 1
  /\ calls' = 0 /\ ApCount' = 0
  /\ BspIndex' = IF mode.election = "fixed" THEN BspIndex ELSE NoCpu
  /\ Goto(c, "open")
  /\ UNCHANGED <<mode, Counter, InsideSmm, AllCpusInSync, Present, Busy, Token, tokens,
                 call, owed, CurrentlyExecutingCpu, bsp, ValidSmi, BspInProgress, world,
                 mtrrs>>

BspOpen(c) ==
  /\ pc[c] = "open"
  /\ Counter' = 0
  /\ Goto(c, "unsync")
  /\ UNCHANGED <<mode, InsideSmm, AllCpusInSync, BspIndex, Run, Present, task,
                 CurrentlyExecutingCpu, local, world, mtrrs>>

BspUnsync(c) ==
  /\ pc[c] = "unsync"
  /\ AllCpusInSync' = FALSE
  /\ Goto(c, "leave")
  /\ UNCHANGED <<mode, Counter, InsideSmm, BspIndex, Run, Present, task,
                 CurrentlyExecutingCpu, local, world, mtrrs>>

-----------------------------------------------------------------------------
(* Procedures for the APs, called by SMI handlers that run in the core.    *)

\* GetFreeToken for n processors, when a token is wanted.
GetFreeToken(wanted, n) ==
  IF wanted
  THEN /\ tokens' = [tokens EXCEPT ![FirstFreeToken] =
                       [RunningApCount |-> n, locked |-> TRUE]]
       /\ FirstFreeToken' = FirstFreeToken + 1
  ELSE UNCHANGED <<tokens, FirstFreeToken>>

\* Mutant: the BUSY lock of the AP is not taken.
StartupThisApUnlocked(c, ap, blocking, token) ==
  /\ pc[c] = "core" /\ calls < MaxCalls /\ IsPresentAp(ap)
  /\ owed' = [owed EXCEPT ![ap] = @ + 1]
  /\ ReleaseSemaphore(ap)
  /\ calls' = calls + 1
  /\ UNCHANGED <<mode, sync, Present, Busy, Token, tokens, FirstFreeToken, call, pc,
                 CurrentlyExecutingCpu, local, world, mtrrs>>

\* InternalSmmStartupThisAp; a blocking call has no token, others may have.
StartupThisAp(c, ap, blocking, token) ==
  /\ pc[c] = "core" /\ calls < MaxCalls
  /\ ~(blocking /\ token)
  /\ IsPresentAp(ap) /\ ~Busy[ap]
  /\ Busy' = [Busy EXCEPT ![ap] = TRUE]
  /\ owed' = [owed EXCEPT ![ap] = @ + 1]
  /\ GetFreeToken(token, 1)
  /\ Token' = IF token THEN [Token EXCEPT ![ap] = FirstFreeToken] ELSE Token
  /\ ReleaseSemaphore(ap)
  /\ calls' = calls + 1
  /\ call' = IF blocking THEN [NoCall EXCEPT !.blocking = TRUE, !.cpu = ap] ELSE NoCall
  /\ Goto(c, IF blocking THEN "block" ELSE "core")
  /\ UNCHANGED <<mode, sync, Present, CurrentlyExecutingCpu, local, world, mtrrs>>

\* InternalSmmStartupAllAPs looks at the APs four times: are they idle, ...
StartupAllAPs(c, blocking) ==
  /\ pc[c] = "core" /\ calls < MaxCalls
  /\ GatherFirst \/ LateBroadcast
  /\ PresentAps # {} /\ \A d \in PresentAps : ~Busy[d]
  /\ GetFreeToken(~blocking, NumberOfCpus)
  /\ calls' = calls + 1
  /\ call' = [all |-> TRUE, blocking |-> blocking,
              token |-> IF blocking THEN 0 ELSE FirstFreeToken, cpu |-> NoCpu]
  /\ Goto(c, "acquire")
  /\ UNCHANGED <<mode, sync, Run, Present, Busy, Token, owed, CurrentlyExecutingCpu,
                 local, world, mtrrs>>

\* ... take their BUSY locks, ...
AcquireAllBusy(c) ==
  /\ pc[c] = "acquire" /\ \A d \in PresentAps : ~Busy[d]
  /\ Busy' = [d \in CPU |-> Busy[d] \/ d \in PresentAps]
  /\ Goto(c, "schedule")
  /\ UNCHANGED <<mode, sync, Run, Present, Token, tokens, FirstFreeToken, call, calls,
                 owed, CurrentlyExecutingCpu, local, world, mtrrs>>

\* ... give them the procedure, counting the others as finished, ...
ScheduleAll(c) ==
  /\ pc[c] = "schedule"
  /\ owed' = [d \in CPU |-> IF d \in PresentAps THEN owed[d] + 1 ELSE owed[d]]
  /\ IF call.token = 0
     THEN UNCHANGED <<tokens, Token>>
     ELSE /\ Token' = [d \in CPU |-> IF d \in PresentAps THEN call.token ELSE Token[d]]
          /\ tokens' = [tokens EXCEPT ![call.token].RunningApCount =
                          @ - Cardinality(CPU \ PresentAps)]
  /\ Goto(c, "release")
  /\ UNCHANGED <<mode, sync, Run, Present, Busy, FirstFreeToken, call, calls,
                 CurrentlyExecutingCpu, local, world, mtrrs>>

\* ... and release them.
ReleaseScheduled(c) ==
  /\ pc[c] = "release"
  /\ ReleaseAllAPs
  /\ Goto(c, IF call.blocking THEN "block" ELSE "core")
  /\ UNCHANGED <<mode, sync, Present, task, CurrentlyExecutingCpu, local, world, mtrrs>>

\* The end of a blocking call.
BlockingDone(c) ==
  /\ pc[c] = "block"
  /\ IF call.all THEN WaitForAllAPsNotBusy ELSE ~Busy[call.cpu]
  /\ call' = NoCall
  /\ Goto(c, "core")
  /\ UNCHANGED <<mode, sync, Run, Present, Busy, Token, tokens, FirstFreeToken, calls,
                 owed, CurrentlyExecutingCpu, local, world, mtrrs>>

-----------------------------------------------------------------------------
SmiRendezvous(c) ==
  TakeSmi(c) \/ SampleValidSmi(c) \/ SampleInsideSmm(c) \/ CheckIn(c) \/ Elect(c)

APHandler(c) ==
  \/ BspTimeout1(c) \/ BspTimeout2(c) \/ GiveUp(c) \/ BspAvailable(c) \/ MarkPresent(c)
  \/ ApSignal(c) \/ ApBackupMtrrs(c) \/ ApReplaceMtrrs(c) \/ ApWakeUp(c)
  \/ ApCheckExit(c) \/ ApRunProcedure(c) \/ ApRelease(c) \/ ApRestoreMtrrs(c)
  \/ ApReset(c)

BSPHandler(c) ==
  \/ BspEnter(c) \/ BspClear(c) \/ BspArrival1(c) \/ BspArrival2(c) \/ BspSync(c)
  \/ BspLock(c) \/ BspWaitThenRelease(c) \/ BspWait(c) \/ BspMtrrs(c)
  \/ BspCallCore(c) \/ BspCoreDone(c) \/ BspAllIdle(c) \/ BspAllPresent(c)
  \/ BspExitSmm(c) \/ BspReleaseAll(c) \/ BspAbsent(c) \/ BspGone(c)
  \/ BspOpen(c) \/ BspUnsync(c)

Schedule(c) ==
  \/ \E ap \in CPU, blocking, token \in BOOLEAN : StartupThisAp(c, ap, blocking, token)
  \/ \E blocking \in BOOLEAN : StartupAllAPs(c, blocking)
  \/ AcquireAllBusy(c) \/ ScheduleAll(c) \/ ReleaseScheduled(c) \/ BlockingDone(c)

Step(c) == SmiRendezvous(c) \/ APHandler(c) \/ BSPHandler(c) \/ Schedule(c)

Next == \/ \E S \in SmiTargets : RaiseSmi(S)
        \/ \E c \in CPU : Step(c) \/ Leave(c)

Spec == Init /\ [][Next]_vars

\* Every processor keeps executing.  One that polls AllCpusInSync sees it
\* cleared if it is cleared again and again: the poll is shorter than the way
\* out of SMM and back into it.
FairSpec == Spec /\ \A c \in CPU : WF_vars(Step(c)) /\ SF_vars(Leave(c))

-----------------------------------------------------------------------------
(* Properties *)

\* The variables of the rendezvous keep their types.
TypeOK ==
  /\ mode \in ModeType
  /\ Counter \in 0..Top /\ InsideSmm \in BOOLEAN /\ AllCpusInSync \in BOOLEAN
  /\ BspIndex \in CPU \cup {NoCpu}
  /\ Run \in [CPU -> 0..Top]
  /\ Present \in [CPU -> BOOLEAN] /\ Busy \in [CPU -> BOOLEAN]
  /\ Token \in [CPU -> 0..MaxCalls]
  /\ tokens \in [1..MaxCalls -> [RunningApCount : 0..NumberOfCpus, locked : BOOLEAN]]
  /\ FirstFreeToken \in 1..MaxCalls + 1
  /\ CurrentlyExecutingCpu \in CPU
  /\ bsp \in [CPU -> CPU \cup {NoCpu}]
  /\ ValidSmi \in [CPU -> BOOLEAN] /\ BspInProgress \in [CPU -> BOOLEAN]
  /\ ApCount \in 0..NumberOfCpus
  /\ pc \in [CPU -> Places]
  /\ smi \in [CPU -> BOOLEAN] /\ smiStatus \in BOOLEAN
  /\ mtrr \in {"os", "smm"} /\ saved \in [CPU -> {"os", "smm"}]
  /\ call \in [all : BOOLEAN, blocking : BOOLEAN, token : 0..MaxCalls,
               cpu : CPU \cup {NoCpu}]
  /\ calls \in 0..MaxCalls
  /\ owed \in [CPU -> 0..MaxCalls] /\ unserved \in BOOLEAN

\* Processor c runs code of the operating system, with no SMI waiting for it.
Outside(c) == pc[c] = "normal" /\ ~smi[c]

\* While the Counter is locked, the BSP waits for exactly the processors that
\* are on their way through APHandler: none that gave up or came late, and it
\* forgets none (ApCount, the WaitForAllAPs calls of BSPHandler).
CountExact ==
  Counter = Top =>
    \A b \in CPU : pc[b] \in BspAt \ {"absent", "gone", "open"} =>
      ApCount = Cardinality({c \in CPU \ {b} : pc[c] \in ApWaiting \cup ApIn})

\* SmmWaitForApArrival: when it returns, no processor executes normal mode
\* code before entering SMM, so none does while traditional handlers run.
NoNormalCode ==
  \A b \in CPU : GatherFirst /\ pc[b] \in BspCore => \A c \in CPU : ~Outside(c)

\* Threads of a core share their MTRRs: none saves them after another one has
\* replaced them, and no operating system code runs with those of SMM.  (On a
\* platform whose PlatformValidSmi reads a status bit, a late processor goes
\* straight back once InsideSmm is FALSE, which is before they are restored.)
MtrrsKept ==
  /\ \A c \in CPU : saved[c] = "os"
  /\ mode.alwaysValid /\ (\E c \in CPU : Outside(c)) => mtrr = "os"

\* The assertion of SmiRendezvous: nobody leaves with its Run semaphore still
\* released, which would let it through its first wait in the next SMI.
RunConsumed == \A c \in CPU : pc[c] = "leave" => Run[c] = 0

\* The assertion of APHandler, "BUSY should be acquired by SmmStartupThisAp()",
\* and what it is for: an AP that is woken has one procedure to run.
BusyHeld == \A c \in CPU : pc[c] = "run" => Busy[c] /\ owed[c] = 1

\* When the BSP lets the processors go, every scheduled procedure has run and
\* every token is free to be handed out again (ResetTokens); until then a token
\* reads as complete (IsApReady) only when every processor it was given to has
\* finished.
TasksFinished ==
  /\ ~InsideSmm => /\ \A c \in CPU : owed[c] = 0
                   /\ \A t \in 1..MaxCalls : ~tokens[t].locked
  /\ \A c \in CPU : Token[c] # 0 => tokens[Token[c]].locked

\* There is one BSP at a time, and all APs agree on it.
OneBsp ==
  /\ \A c \in CPU : pc[c] \in BspAt \ {"open", "unsync"} => BspIndex = c
  /\ \A c \in CPU : pc[c] \in ApIn \ {"resetDone"} => bsp[c] = BspIndex

\* An SMI delivered to all processors is followed by a call of the SMM core,
\* also when it arrives while an earlier one is being handled.
SmiServed == unserved ~> ~unserved

\* Every processor gets out of SMM again: nobody waits for ever on another.
EveryoneLeaves == \A c \in CPU : []<>(pc[c] = "normal")

====
