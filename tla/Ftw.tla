-------------------------------- MODULE Ftw --------------------------------
(***************************************************************************)
(* The fault tolerant write driver,                                        *)
(*   MdeModulePkg/Universal/FaultTolerantWriteDxe:                         *)
(*     FaultTolerantWrite.c, FtwMisc.c, UpdateWorkingBlock.c               *)
(*                                                                         *)
(* The driver is sequential; what makes it hard is that the power may fail *)
(* between any two operations on the flash, and inside one.  The state is  *)
(* the flash (the working block, the spare block, the target blocks) and   *)
(* the driver's program: todo, the operations and decisions it still has   *)
(* to make, the next one first.  A function that calls another puts the    *)
(* callee's steps in front of its own; a loss of power drops them all.     *)
(*                                                                         *)
(* A write header and a write record have the same size (40 bytes, with    *)
(* PrivateDataSize 0), so the work space is an array of W cells, each of   *)
(* which may be read as a header or as a record.  The driver's copy of the *)
(* work space in memory (FtwWorkSpace) is read back from the flash at the  *)
(* start of every service and changed with the flash afterwards; only the  *)
(* two pointers into it are kept here.                                     *)
(***************************************************************************)
EXTENDS Integers, Sequences, FiniteSets

CONSTANTS
  Blocks,        \* the target blocks (not the boot or the working block)
  Values,        \* contents a client may write to a block
  V0,            \* what the blocks hold at the first boot
  Garbage,       \* an erased block, or one an interrupted operation left
  NoBlock,
  NoRequest,
  W,             \* cells of the work space
  AllocSizes,    \* the NumberOfWrites clients allocate
  PrivateData,   \* whether clients pass PrivateData: a subset of BOOLEAN
  Services,      \* the services clients call
  FvbErrors,     \* flash operations may fail with an error
  LookupFails    \* GetFvbByAddress may find no FVB for a target block

ASSUME FtwAssumption ==
  /\ V0 \in Values /\ Garbage \notin Values
  /\ NoBlock \notin Blocks
  /\ NoRequest \notin [blk : Blocks, val : Values]
  /\ W \in Nat /\ W >= 2
  /\ AllocSizes \subseteq Nat \ {0}
  /\ PrivateData \subseteq BOOLEAN
  /\ Services \subseteq {"Allocate", "Write", "Restart", "Abort", "GetLastWrite"}
  /\ FvbErrors \in BOOLEAN /\ LookupFails \in BOOLEAN

(***************************************************************************)
(* The state bits.  In flash a bit is set by programming it from the       *)
(* erased value 1 to FTW_VALID_STATE, 0; the first byte of a cell holds    *)
(* the bits of a header or of a record, whichever it is read as.           *)
(***************************************************************************)
HEADER_ALLOCATED == 1
WRITES_ALLOCATED == 2
WRITES_COMPLETED == 4
BOOT_BLOCK_UPDATE == 1
SPARE_COMPLETED == 2
DEST_COMPLETED == 4
WORKING_BLOCK_VALID == 1
WORKING_BLOCK_INVALID == 2

Huge == W + 1   \* NumberOfWrites of an erased cell, larger than any queue
Index == 0..(W - 1)
Cell == [state : SUBSET {1, 2, 4}, num : 1..Huge, blk : Blocks \cup {NoBlock}]
Erased == [state |-> {}, num |-> Huge, blk |-> NoBlock]
Header(n) == [state |-> {HEADER_ALLOCATED}, num |-> n, blk |-> NoBlock]
Record(b) == [state |-> {}, num |-> Huge, blk |-> b]

(***************************************************************************)
(* A working block: whether its header carries the signature and the CRC,  *)
(* the header's state bits, the cells.                                     *)
(***************************************************************************)
WorkingBlock == [sig : BOOLEAN, state : SUBSET {1, 2}, cells : [Index -> Cell]]
NoCells == [i \in Index |-> Erased]
BlankWork == [sig |-> FALSE, state |-> {}, cells |-> NoCells]

\* The spare block, read as the contents of a target or as a working block.
SpareBlock == [val : Values \cup {Garbage}, work : WorkingBlock]
Wiped == [val |-> Garbage, work |-> BlankWork]
Data(v) == [val |-> v, work |-> BlankWork]
Copy(w) == [val |-> Garbage, work |-> w]

VARIABLES
  work,      \* the working block in flash
  spare,     \* the spare block in flash
  target,    \* the target blocks in flash
  power,     \* "off", "boot" (InitFtwProtocol is running) or "on"
  todo,      \* the steps the driver has still to take
  FtwLastWriteHeader,   \* index of a cell
  FtwLastWriteRecord,   \* index of a cell
  request,   \* the FtwWrite call under way
  result     \* what the last FtwWrite call returned

flash == <<work, spare, target>>
ptrs == <<FtwLastWriteHeader, FtwLastWriteRecord>>
client == <<request, result>>
vars == <<flash, power, todo, ptrs, client>>

Cells == work.cells
LastHdr == Cells[FtwLastWriteHeader]   \* what FtwLastWriteHeader points to
LastRec == Cells[FtwLastWriteRecord]   \* what FtwLastWriteRecord points to

-----------------------------------------------------------------------------
(***************************************************************************)
(* FtwGetLastWriteHeader: skip the headers that are complete, with their   *)
(* records.  W stands for EFI_ABORTED: the end of the space was reached.   *)
(***************************************************************************)
LastHeader(cells) ==
  LET skip[i \in 0..W] ==
        IF i = W THEN W
        ELSE IF WRITES_COMPLETED \notin cells[i].state THEN i
        ELSE IF i + 1 + cells[i].num >= W THEN W
        ELSE skip[i + 1 + cells[i].num]
  IN  skip[0]

(***************************************************************************)
(* FtwGetLastWriteRecord: the first record of the header at h that is not  *)
(* complete, or its last record.                                           *)
(***************************************************************************)
LastRecord(cells, h) ==
  LET open == {i \in Index : /\ h < i /\ i <= h + cells[h].num
                             /\ DEST_COMPLETED \notin cells[i].state}
  IN  IF open # {} THEN CHOOSE i \in open : \A j \in open : i <= j
      ELSE h + cells[h].num

IsFirstRecordOfWrites == FtwLastWriteRecord = FtwLastWriteHeader + 1
IsLastRecordOfWrites == FtwLastWriteRecord = FtwLastWriteHeader + LastHdr.num

\* IsValidWorkSpace: the header is the one InitializeLocalWorkSpaceHeader makes.
IsValidWorkSpace(w) == w.sig /\ w.state = {WORKING_BLOCK_VALID}

-----------------------------------------------------------------------------
(***************************************************************************)
(* The operations on the flash.                                            *)
(***************************************************************************)
Step(x) == [do |-> x]
EraseSpare == Step("EraseSpare")
WriteSpare(d) == [do |-> "WriteSpare", data |-> d]
SpareBit(b) == [do |-> "SpareBit", bit |-> b]
WorkBit(b) == [do |-> "WorkBit", bit |-> b]
EraseWork == Step("EraseWork")
WriteWork(c) == [do |-> "WriteWork", cells |-> c]
WriteCell(i, c) == [do |-> "WriteCell", at |-> i, cell |-> c]
CellBit(i, b) == [do |-> "CellBit", at |-> i, bit |-> b]
EraseTarget(b) == [do |-> "EraseTarget", blk |-> b]
WriteTarget(b, v) == [do |-> "WriteTarget", blk |-> b, val |-> v]

Refresh == Step("Refresh")
Point == Step("Point")

\* FlushSpareBlockToWorkingBlock, for a spare block with the cells c.
FlushSpareBlockToWorkingBlock(c) ==
  <<SpareBit(WORKING_BLOCK_VALID), WorkBit(WORKING_BLOCK_INVALID), EraseWork,
    WriteWork(c), WorkBit(WORKING_BLOCK_VALID)>>

\* Mutant: the completed headers are not removed.
ReclaimedCells_KeepsAll(cells) == cells

(***************************************************************************)
(* FtwReclaimWorkSpace: build a work space with nothing but the header     *)
(* that is allocated and not complete, if any, and its records; put it in  *)
(* the spare block, from there in the working block, and put the old       *)
(* contents of the spare block back.                                       *)
(***************************************************************************)
ReclaimedCells(cells) ==
  LET h == LastHeader(cells)
  IN  IF /\ h < W
         /\ WRITES_COMPLETED \notin cells[h].state
         /\ HEADER_ALLOCATED \in cells[h].state
      THEN [i \in Index |-> IF i <= cells[h].num /\ h + i < W
                            THEN cells[h + i] ELSE Erased]
      ELSE NoCells

FtwReclaimWorkSpace(cells, sig) ==
  <<EraseSpare, WriteSpare(Copy([sig |-> sig, state |-> {}, cells |-> cells])),
    SpareBit(WORKING_BLOCK_VALID), WorkBit(WORKING_BLOCK_INVALID)>>
  \o FlushSpareBlockToWorkingBlock(cells)
  \o <<EraseSpare, WriteSpare(spare), Point>>

ReclaimPreserving == FtwReclaimWorkSpace(ReclaimedCells(Cells), work.sig)

\* Mutant: DestinationComplete is set before the target block is written.
FtwWriteRecord_DestFirst(b, v) ==
  <<CellBit(FtwLastWriteRecord, DEST_COMPLETED), EraseTarget(b),
    WriteTarget(b, v)>>
  \o IF IsLastRecordOfWrites
     THEN <<CellBit(FtwLastWriteHeader, WRITES_COMPLETED)>> ELSE << >>

(***************************************************************************)
(* FtwWriteRecord, for a block that is neither the working block nor the   *)
(* boot block: copy the spare block to the target                          *)
(* (FlushSpareBlockToTargetBlock) and set the bits.                        *)
(***************************************************************************)
FtwWriteRecord(b, v) ==
  <<EraseTarget(b), WriteTarget(b, v),
    CellBit(FtwLastWriteRecord, DEST_COMPLETED)>>
  \o IF IsLastRecordOfWrites
     THEN <<CellBit(FtwLastWriteHeader, WRITES_COMPLETED)>> ELSE << >>

FtwAbort == <<Refresh, Step("Abort")>>
FtwRestart == <<Refresh, Step("Restart")>>

InitFtwProtocol ==
  <<Refresh, Step("Validate"), Step("AbortFirst"), Step("AbortLast"),
    Step("CheckEmpty"), Step("RestartPending"), Step("Hook")>>

-----------------------------------------------------------------------------
Init ==
  /\ work = BlankWork /\ spare = Wiped /\ target = [b \in Blocks |-> V0]
  /\ power = "off" /\ todo = << >>
  /\ FtwLastWriteHeader = 0 /\ FtwLastWriteRecord = 1
  /\ request = NoRequest /\ result = "none"

At(x) == todo # << >> /\ Head(todo).do = x
Op == Head(todo)
\* Go on with the steps s, then with what was to be done after this step.
Go(s) == todo' = s \o Tail(todo)
\* A step that reads the flash and decides what to do.
Decide(x, s) == At(x) /\ Go(s) /\ UNCHANGED <<flash, power, ptrs, client>>

\* A step of the flash.
Flash == todo' = Tail(todo) /\ UNCHANGED <<power, ptrs, client>>

DoEraseSpare == At("EraseSpare") /\ spare' = Wiped /\ Flash /\ UNCHANGED <<work, target>>
DoWriteSpare == At("WriteSpare") /\ spare' = Op.data /\ Flash /\ UNCHANGED <<work, target>>
DoSpareBit ==
  /\ At("SpareBit")
  /\ spare' = [spare EXCEPT !.work.state = @ \cup {Op.bit}]
  /\ Flash /\ UNCHANGED <<work, target>>
DoWorkBit ==
  /\ At("WorkBit")
  /\ work' = [work EXCEPT !.state = @ \cup {Op.bit}]
  /\ Flash /\ UNCHANGED <<spare, target>>
DoEraseWork == At("EraseWork") /\ work' = BlankWork /\ Flash /\ UNCHANGED <<spare, target>>
DoWriteWork ==
  /\ At("WriteWork")
  /\ work' = [sig |-> TRUE, state |-> {}, cells |-> Op.cells]
  /\ Flash /\ UNCHANGED <<spare, target>>
DoWriteCell ==
  /\ At("WriteCell")
  /\ work' = [work EXCEPT !.cells[Op.at] = Op.cell]
  /\ Flash /\ UNCHANGED <<spare, target>>
\* FtwUpdateFvState on a header or a record.
DoCellBit ==
  /\ At("CellBit")
  /\ work' = [work EXCEPT !.cells[Op.at].state = @ \cup {Op.bit}]
  /\ Flash /\ UNCHANGED <<spare, target>>
DoEraseTarget ==
  /\ At("EraseTarget")
  /\ target' = [target EXCEPT ![Op.blk] = Garbage]
  /\ Flash /\ UNCHANGED <<work, spare>>
DoWriteTarget ==
  /\ At("WriteTarget")
  /\ target' = [target EXCEPT ![Op.blk] = Op.val]
  /\ Flash /\ UNCHANGED <<work, spare>>

FlashStep ==
  \/ DoEraseSpare \/ DoWriteSpare \/ DoSpareBit \/ DoWorkBit \/ DoEraseWork
  \/ DoWriteWork \/ DoWriteCell \/ DoCellBit \/ DoEraseTarget \/ DoWriteTarget
-----------------------------------------------------------------------------
\* The pointers are set; a damaged work space ends the service (EFI_ABORTED).
PointStep ==
  /\ At("Point")
  /\ LET h == LastHeader(Cells)
     IN  IF h < W
         THEN /\ FtwLastWriteHeader' = h
              /\ FtwLastWriteRecord' = LastRecord(Cells, h)
              /\ Go(<< >>)
         ELSE UNCHANGED ptrs /\ todo' = << >>
  /\ UNCHANGED <<flash, power, client>>

(***************************************************************************)
(* WorkSpaceRefresh: read the work space; reclaim it when it has no room   *)
(* for a header and a record behind the last header.                       *)
(***************************************************************************)
WorkSpaceRefresh ==
  Decide("Refresh", IF W - LastHeader(Cells) < 2
                    THEN Append(ReclaimPreserving, Point) ELSE <<Point>>)

\* Mutant: the header is written at the offset of the last record.
Allocate_AtRecord ==
  Decide("Allocate",
    LET n == Op.num
        offset == FtwLastWriteRecord
        room == offset + 1 + n <= W
    IN  IF \/ 1 + n > W
           \/ LastHdr.state \cap {HEADER_ALLOCATED, WRITES_ALLOCATED} # {}
        THEN << >>
        ELSE (IF room THEN << >> ELSE ReclaimPreserving)
             \o <<WriteCell(offset, Header(n)), CellBit(offset, WRITES_ALLOCATED),
                  [do |-> "AllocateDone", num |-> n]>>)

(***************************************************************************)
(* FtwAllocate after its WorkSpaceRefresh.  The offset of the new header   *)
(* is computed before the work space is reclaimed and used after it.       *)
(***************************************************************************)
Allocate ==
  Decide("Allocate",
    LET n == Op.num
        offset == FtwLastWriteHeader
        room == offset + 1 + n <= W
    IN  IF \/ 1 + n > W
           \/ LastHdr.state \cap {HEADER_ALLOCATED, WRITES_ALLOCATED} # {}
        THEN << >>
        ELSE (IF room THEN << >> ELSE ReclaimPreserving)
             \o <<WriteCell(offset, Header(n)), CellBit(offset, WRITES_ALLOCATED),
                  [do |-> "AllocateDone", num |-> n]>>)

AllocateDone == Decide("AllocateDone", << >>)

FtwAllocate(n) == <<Refresh, [do |-> "Allocate", num |-> n]>>

\* FtwWrite returns an error.
Refused == /\ Go(<< >>) /\ request' = NoRequest /\ result' = "failed"
           /\ UNCHANGED <<flash, power, ptrs>>

(***************************************************************************)
(* FtwWrite after its WorkSpaceRefresh: allocate a header for one write if *)
(* there is none and the caller has no private data.                       *)
(***************************************************************************)
WriteBegin ==
  /\ At("WriteBegin")
  /\ IF LastHdr # Erased THEN /\ Go(<<Step("WriteCheck")>>)
                              /\ UNCHANGED <<flash, power, ptrs, client>>
     ELSE IF Op.private THEN Refused
     ELSE /\ Go(Append(FtwAllocate(1), Step("WriteCheck")))
          /\ UNCHANGED <<flash, power, ptrs, client>>

(***************************************************************************)
(* FtwWrite from its check of the record on: write the record, back the    *)
(* new contents up in the spare block, set SpareComplete, copy the spare   *)
(* block to the target, and put the old contents of the spare block back.  *)
(***************************************************************************)
WriteDenied ==
  \/ FtwLastWriteRecord - FtwLastWriteHeader > LastHdr.num
  \/ WRITES_COMPLETED \in LastHdr.state
  \/ DEST_COMPLETED \in LastRec.state
  \/ SPARE_COMPLETED \in LastRec.state

\* Mutant: SpareComplete is set before the spare block is written.
WriteCheck_SpareEarly ==
  /\ At("WriteCheck")
  /\ IF WriteDenied THEN Refused
     ELSE /\ Go(<<WriteCell(FtwLastWriteRecord, Record(request.blk)),
                  CellBit(FtwLastWriteRecord, SPARE_COMPLETED),
                  EraseSpare, WriteSpare(Data(request.val))>>
                \o FtwWriteRecord(request.blk, request.val)
                \o <<EraseSpare, WriteSpare(spare), Step("WriteDone")>>)
          /\ UNCHANGED <<flash, power, ptrs, client>>

WriteCheck ==
  /\ At("WriteCheck")
  /\ IF WriteDenied THEN Refused
     ELSE /\ Go(<<WriteCell(FtwLastWriteRecord, Record(request.blk)),
                  EraseSpare, WriteSpare(Data(request.val)),
                  CellBit(FtwLastWriteRecord, SPARE_COMPLETED)>>
                \o FtwWriteRecord(request.blk, request.val)
                \o <<EraseSpare, WriteSpare(spare), Step("WriteDone")>>)
          /\ UNCHANGED <<flash, power, ptrs, client>>

WriteDone ==
  /\ At("WriteDone")
  /\ Go(<< >>)
  /\ request' = NoRequest /\ result' = "success"
  /\ UNCHANGED <<flash, power, ptrs>>

(***************************************************************************)
(* FtwRestart after its WorkSpaceRefresh.                                  *)
(***************************************************************************)
Restart ==
  Decide("Restart",
    IF \/ WRITES_COMPLETED \in LastHdr.state
       \/ DEST_COMPLETED \in LastRec.state
       \/ SPARE_COMPLETED \notin LastRec.state
    THEN << >>
    ELSE Append(FtwWriteRecord(LastRec.blk, spare.val), EraseSpare))

\* FtwAbort after its WorkSpaceRefresh.
Abort ==
  Decide("Abort",
    IF /\ HEADER_ALLOCATED \in LastHdr.state
       /\ WRITES_COMPLETED \notin LastHdr.state
    THEN <<CellBit(FtwLastWriteHeader, WRITES_COMPLETED)>>
    ELSE << >>)

(***************************************************************************)
(* FtwGetLastWrite after its WorkSpaceRefresh: it aborts a header whose    *)
(* records are all complete, and one whose first record is not backed up.  *)
(***************************************************************************)
LastCompletedHeaderNot ==
  /\ WRITES_COMPLETED \notin LastHdr.state
  /\ DEST_COMPLETED \in LastRec.state
  /\ IsLastRecordOfWrites

GetLastWrite ==
  Decide("GetLastWrite",
    IF \/ LastCompletedHeaderNot
       \/ /\ HEADER_ALLOCATED \in LastHdr.state
          /\ SPARE_COMPLETED \notin LastRec.state
          /\ IsFirstRecordOfWrites
    THEN FtwAbort ELSE << >>)

-----------------------------------------------------------------------------
\* Mutant: a valid copy in the spare block is not copied to the working block.
Validate_NoFlush ==
  Decide("Validate",
    IF IsValidWorkSpace(work) THEN << >>
    ELSE IF IsValidWorkSpace(spare.work) THEN Append(FtwAbort, Refresh)
    ELSE FtwReclaimWorkSpace(NoCells, TRUE))

(***************************************************************************)
(* InitFtwProtocol.  If the working block is not valid, use the copy in    *)
(* the spare block; if neither is valid, make a new work space.            *)
(***************************************************************************)
Validate ==
  Decide("Validate",
    IF IsValidWorkSpace(work) THEN << >>
    ELSE IF IsValidWorkSpace(spare.work)
    THEN FlushSpareBlockToWorkingBlock(spare.work.cells) \o Append(FtwAbort, Refresh)
    ELSE FtwReclaimWorkSpace(NoCells, TRUE))

\* Mutant: a header with an unfinished first record is left open.
AbortFirst_Skipped == Decide("AbortFirst", << >>)

AbortFirst ==
  Decide("AbortFirst",
    IF /\ HEADER_ALLOCATED \in LastHdr.state
       /\ SPARE_COMPLETED \notin LastRec.state
       /\ IsFirstRecordOfWrites
    THEN FtwAbort ELSE << >>)

AbortLast == Decide("AbortLast", IF LastCompletedHeaderNot THEN FtwAbort ELSE << >>)

\* Whatever lies behind the last header and its records must be erased.
CheckEmpty ==
  Decide("CheckEmpty",
    LET end == IF LastHdr.state = {} THEN FtwLastWriteHeader
               ELSE FtwLastWriteHeader + 1 + LastHdr.num
    IN  IF \A i \in Index : i >= end => Cells[i] = Erased
        THEN << >> ELSE ReclaimPreserving)

\* Mutant: only boot block updates are restarted.
RestartPending_Skipped == Decide("RestartPending", << >>)

\* A write that was backed up is finished, and the rest of its header aborted.
RestartPending ==
  /\ At("RestartPending")
  /\ IF /\ WRITES_COMPLETED \notin LastHdr.state
        /\ SPARE_COMPLETED \in LastRec.state
     THEN \/ Go(FtwRestart \o FtwAbort)
          \/ LookupFails /\ Go(FtwAbort)
     ELSE Go(<< >>)
  /\ UNCHANGED <<flash, power, ptrs, client>>

\* The protocol is installed.
Hook ==
  /\ At("Hook")
  /\ power' = "on"
  /\ Go(<< >>)
  /\ UNCHANGED <<flash, ptrs, client>>

DriverStep ==
  \/ PointStep \/ WorkSpaceRefresh \/ Allocate \/ AllocateDone
  \/ WriteBegin \/ WriteCheck \/ WriteDone \/ Restart \/ Abort \/ GetLastWrite
  \/ Validate \/ AbortFirst \/ AbortLast \/ CheckEmpty \/ RestartPending \/ Hook

-----------------------------------------------------------------------------
\* The services, called when the driver is not inside one.
Call(svc, s) ==
  /\ svc \in Services /\ power = "on" /\ todo = << >>
  /\ todo' = s
  /\ UNCHANGED <<flash, power, ptrs>>

CallAllocate == \E n \in AllocSizes : Call("Allocate", FtwAllocate(n)) /\ UNCHANGED client
CallWrite ==
  \E b \in Blocks, v \in Values, p \in PrivateData :
    /\ Call("Write", <<Refresh, [do |-> "WriteBegin", private |-> p]>>)
    /\ request' = [blk |-> b, val |-> v] /\ result' = "none"
CallRestart == Call("Restart", FtwRestart) /\ UNCHANGED client
CallAbort == Call("Abort", FtwAbort) /\ UNCHANGED client
CallGetLastWrite ==
  Call("GetLastWrite", <<Refresh, Step("GetLastWrite")>>) /\ UNCHANGED client

Service == CallAllocate \/ CallWrite \/ CallRestart \/ CallAbort \/ CallGetLastWrite

-----------------------------------------------------------------------------
PowerOn ==
  /\ power = "off"
  /\ power' = "boot"
  /\ todo' = InitFtwProtocol
  /\ UNCHANGED <<flash, ptrs, client>>

(***************************************************************************)
(* What an operation may leave behind that does not reach its end.  A byte *)
(* and a cell are written whole or not at all; a block that is written or  *)
(* erased in part holds garbage.  An interrupted write of the spare block  *)
(* may have written the header of a working block and not its cells; an    *)
(* interrupted erase of the working block leaves old cells or none behind  *)
(* a header that is no longer valid; an interrupted write of it leaves the *)
(* first of the new cells and state bits not yet set.                      *)
(***************************************************************************)
Torn ==
  \/ /\ At("EraseSpare") \/ At("WriteSpare")
     /\ \/ spare' = Wiped
        \/ /\ At("WriteSpare")
           /\ spare' = Copy([Op.data.work EXCEPT !.cells = NoCells])
     /\ UNCHANGED <<work, target>>
  \/ /\ At("EraseWork")
     /\ work' = [work EXCEPT !.sig = FALSE]
     /\ UNCHANGED <<spare, target>>
  \/ /\ At("WriteWork")
     /\ \E k \in 0..W : work' = [sig |-> TRUE, state |-> {}, cells |->
                                   [i \in Index |-> IF i < k THEN Op.cells[i] ELSE Erased]]
     /\ UNCHANGED <<spare, target>>
  \/ /\ At("EraseTarget") \/ At("WriteTarget")
     /\ target' = [target EXCEPT ![Op.blk] = Garbage]
     /\ UNCHANGED <<work, spare>>

\* A write that is under way ends without having returned.
Interrupted == /\ request' = NoRequest
               /\ result' = IF request = NoRequest THEN result ELSE "failed"

PowerLoss ==
  /\ power # "off"
  /\ power' = "off"
  /\ todo' = << >>
  /\ FtwLastWriteHeader' = 0 /\ FtwLastWriteRecord' = 1
  /\ Interrupted
  /\ Torn \/ UNCHANGED flash

(***************************************************************************)
(* A flash operation fails: the service returns EFI_ABORTED.  (The one     *)
(* call whose status is not looked at sets a bit in the spare block.)      *)
(***************************************************************************)
FvbError ==
  /\ FvbErrors /\ power = "on"
  /\ \E x \in {"EraseSpare", "WriteSpare", "WorkBit", "EraseWork", "WriteWork",
               "WriteCell", "CellBit", "EraseTarget", "WriteTarget"} : At(x)
  /\ todo' = << >>
  /\ Interrupted
  /\ Torn \/ UNCHANGED flash
  /\ UNCHANGED <<power, ptrs>>

Driver == power # "off" /\ (FlashStep \/ DriverStep)

Next == Driver \/ Service \/ PowerOn \/ PowerLoss \/ FvbError

Spec == Init /\ [][Next]_vars

-----------------------------------------------------------------------------
\* Type correctness of the flash and of the driver's pointers.
TypeOK ==
  /\ work \in WorkingBlock
  /\ spare \in SpareBlock
  /\ target \in [Blocks -> Values \cup {Garbage}]
  /\ power \in {"off", "boot", "on"}
  /\ FtwLastWriteHeader \in Index
  /\ FtwLastWriteRecord \in 1..(W - 1)
  /\ request \in [blk : Blocks, val : Values] \cup {NoRequest}
  /\ result \in {"none", "success", "failed"}

(***************************************************************************)
(* What the flash says about a block b: a write to b is backed up in the   *)
(* spare block and not finished.                                           *)
(***************************************************************************)
Pending(b) ==
  LET h == LastHeader(Cells)
      r == LastRecord(Cells, h)
  IN  /\ IsValidWorkSpace(work)
      /\ h < W
      /\ r < W
      /\ SPARE_COMPLETED \in Cells[r].state
      /\ DEST_COMPLETED \notin Cells[r].state
      /\ Cells[r].blk = b

\* What a reader gets once InitFtwProtocol has done its work.
Logical(b) == IF Pending(b) THEN spare.val ELSE target[b]

(***************************************************************************)
(* The driver keeps what FtwWrite promises: it implements AtomicBlock. The *)
(* contents change when SpareComplete is set, and at no other step; the    *)
(* copy to the target, its interruption and its restart change nothing.    *)
(* Whenever the power fails no block is lost: its contents are in the      *)
(* block itself, or in the spare block with a record that says so.         *)
(***************************************************************************)
Atomic == INSTANCE AtomicBlock WITH content <- [b \in Blocks |-> Logical(b)]
AtomicWrites == Atomic!Spec

(***************************************************************************)
(* When InitFtwProtocol has installed the protocol, the working block is   *)
(* valid and no interrupted write is left over: clients only ever see      *)
(* blocks whose contents are in place.                                     *)
(***************************************************************************)
Recovered ==
  (power = "on" /\ todo = << >>)
    => IsValidWorkSpace(work) /\ \A b \in Blocks : ~Pending(b)

(***************************************************************************)
(* Whatever went wrong before (losses of power, flash errors, an FVB that  *)
(* was not found), InitFtwProtocol hands over a valid working block and no *)
(* interrupted write, also when it is itself interrupted and run again.    *)
(***************************************************************************)
BootRecovered ==
  At("Hook") => /\ IsValidWorkSpace(work)
                /\ \A b \in Blocks : ~Pending(b)

(***************************************************************************)
(* FtwAllocate returns EFI_SUCCESS only when the space is there: the last  *)
(* write header in flash is the new one, with all its records.             *)
(***************************************************************************)
SpaceAllocated ==
  At("AllocateDone") =>
    LET h == LastHeader(Cells)
    IN  /\ h + Op.num < W
        /\ Cells[h].num = Op.num
        /\ {HEADER_ALLOCATED, WRITES_ALLOCATED} \subseteq Cells[h].state

(***************************************************************************)
(* Headers and records are written to erased flash, or written again with  *)
(* the same contents: EFI_FIRMWARE_VOLUME_BLOCK2_PROTOCOL.Write can only   *)
(* take bits out of the erased state, so a header or record of another     *)
(* write underneath would be mixed with the new one; and the state stays   *)
(* of its type.                                                            *)
(***************************************************************************)
WritesErased ==
  /\ TypeOK
  /\ At("WriteCell") => Cells[Op.at] \in {Erased, Op.cell}

(***************************************************************************)
(* Fairness: the processor runs the driver while the power is on, the      *)
(* power comes back, and in the end it stays.                              *)
(***************************************************************************)
FairSpec ==
  Spec /\ WF_vars(Driver) /\ WF_vars(PowerOn) /\ <>[][~PowerLoss]_vars

(***************************************************************************)
(* Recovery comes to its end: InitFtwProtocol always gets to install the   *)
(* protocol, and no service runs for ever (WorkSpaceRefresh, reclaim).     *)
(***************************************************************************)
Recovers == []<>(power = "on" /\ todo = << >>)
=============================================================================
