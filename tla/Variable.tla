----------------------------- MODULE Variable ------------------------------
(***************************************************************************)
(* The non-volatile store of the variable driver                           *)
(* (MdeModulePkg/Universal/Variable/RuntimeDxe).  Variables are appended   *)
(* to a log in flash; a state byte in each header, whose bits can only be  *)
(* cleared, says whether the variable is complete, being replaced or gone. *)
(* Reclaim copies the live variables to the front of the store.            *)
(*                                                                         *)
(* Every write to flash is a step, and power may be lost between any two.  *)
(* Reclaim replaces the store through the fault tolerant write protocol;   *)
(* Ftw.tla shows that power lost in such a write leaves it done or not     *)
(* done, so it is one step here.  The protocol may return an error, and    *)
(* then it has done nothing, or all of it, or it leaves a spare block that *)
(* the next boot copies over the store.  The store is measured in cells:   *)
(* one for a header, one for name and data.                                *)
(***************************************************************************)
EXTENDS Integers, Sequences, FiniteSets, FiniteSetsExt

CONSTANTS
  Names,           \* the non-volatile variables
  Values,          \* what may be stored in one
  NoVal,           \* no data: a variable that does not exist
  Space,           \* CommonVariableSpace, in cells
  RuntimeSpace,    \* CommonRuntimeVariableSpace, in cells
  NoName,          \* what a header that does not read as written says
  FtwErrors,       \* the places where the fault tolerant write may fail
  VolatilePresent  \* there are variables in the volatile store

\* FtwWrite fails before the spare block is complete, before or while the spare
\* block is copied to the target, before the record says so, or after that.
FtwPlaces == {"before", "spare", "target", "dest", "after"}

ASSUME ConstantsAssumption ==
  /\ Names # {} /\ IsFiniteSet(Names) /\ IsFiniteSet(Values) /\ NoVal \notin Values
  /\ NoName \notin Names
  /\ Space \in Nat /\ RuntimeSpace \in 0..Space
  /\ FtwErrors \subseteq FtwPlaces /\ VolatilePresent \in BOOLEAN

VARIABLES
  flash,       \* the variable store: a sequence of variables, as programmed
  garbled,     \* those whose header was programmed over another and damaged
  tail,        \* behind the last variable the flash is free; or there is a part
               \* of a torn header, or there was and it was programmed over
  ftw,         \* the last write is done; or a complete spare block waits for the
               \* next boot; or that, and the store was half replaced
  spare,       \* the store in that spare block
  \* memory: mNvVariableCache, NonVolatileLastVariableOffset,
  \* CommonVariableTotalSize, the static Reclaimed of ReclaimForOS
  cache, LastVariableOffset, CommonVariableTotalSize, Reclaimed,
  phase,       \* off, read (only GetVariable), boot, runtime (AtRuntime)
  pc, op,      \* the place in UpdateVariable, and its arguments and pointers
  status,      \* what the last SetVariable returned
  committed,   \* history: the contents the calls have brought about
  spared,      \* history: the contents the waiting spare block will bring about
  doubled,     \* history: names that were left with two old copies
  unsafe       \* history: names updated with a failed write or a torn header about

memory == <<cache, LastVariableOffset, CommonVariableTotalSize, Reclaimed>>
block == <<ftw, spare, spared>>
vars == <<flash, garbled, tail, memory, block, phase, pc, op, status, committed,
          doubled, unsafe>>

HeaderSize   == 1
VariableSize == 2

State == {"header", "headerValid", "added", "inDeleted", "deleted"}
Entry == [state : State, name : Names \cup {NoName}, val : Values \cup {NoVal}]

-----------------------------------------------------------------------------
(* VariableParsing.c *)

\* The cells of a store: a header whose state is 0xff has no name and data.
SizeOf(s) ==
  HeaderSize * Len(s) +
  (VariableSize - HeaderSize) * Cardinality({i \in DOMAIN s : s[i].state # "header"})

InState(s, n, state) == {i \in DOMAIN s : s[i].name = n /\ s[i].state = state}

LastOf(S) == IF S = {} THEN 0 ELSE Max(S)

\* FindVariableEx: the first ADDED variable of that name, with the last one in
\* transition before it; without an ADDED one, the last one in transition.
FindVariableEx(s, n) ==
  LET added == InState(s, n, "added")
      trans == InState(s, n, "inDeleted")
  IN  IF added # {}
      THEN [CurrPtr |-> Min(added),
            InDeletedTransitionPtr |-> LastOf({i \in trans : i < Min(added)})]
      ELSE [CurrPtr |-> LastOf(trans), InDeletedTransitionPtr |-> 0]

\* VariableServiceGetVariable
GetVariable(s, n) ==
  LET p == FindVariableEx(s, n).CurrPtr IN IF p = 0 THEN NoVal ELSE s[p].val

\* Mutant: the check for an ADDED variable of the same name is left out.
ReturnedAny(s, i) == s[i].state \in {"added", "inDeleted"}

\* GetNextVariableInternal returns the variable at i when it comes to it.
Returned(s, i) ==
  \/ s[i].state = "added"
  \/ /\ s[i].state = "inDeleted"
     /\ s[FindVariableEx(s, s[i].name).CurrPtr].state # "added"

\* Where the search begins for an empty name: FindVariableEx stops at the
\* first ADDED variable of any name.  A volatile variable is found first, and
\* then the search comes to the non-volatile store at its beginning.
FirstName(s) ==
  LET added == {i \in DOMAIN s : s[i].state = "added"}
      trans == {i \in DOMAIN s : s[i].state = "inDeleted"}
  IN  IF VolatilePresent THEN 1
      ELSE IF added # {} THEN Min(added) ELSE LastOf(trans)

\* The position GetNextVariableName returns when it searches from i; 0: none.
NextFrom(s, i) ==
  LET found == {j \in DOMAIN s : j >= i /\ i # 0 /\ Returned(s, j)}
  IN  IF found = {} THEN 0 ELSE Min(found)

\* The positions a caller of GetNextVariableName is led to, one after another:
\* each call starts behind the variable FindVariableEx finds for the last name.
Enumerated(s) ==
  LET visit[k \in 1..Len(s)] ==
        IF k = 1 THEN NextFrom(s, FirstName(s))
        ELSE IF visit[k-1] = 0 THEN 0
        ELSE NextFrom(s, FindVariableEx(s, s[visit[k-1]].name).CurrPtr + 1)
  IN  [k \in {j \in 1..Len(s) : visit[j] # 0} |-> visit[k]]

-----------------------------------------------------------------------------
(* Reclaim *)

\* The variables of s at the positions I, in order.
Pick(s, I) ==
  LET nth(k) == CHOOSE i \in I : Cardinality({j \in I : j <= i}) = k
  IN  [k \in 1..Cardinality(I) |-> s[nth(k)]]

\* Mutant: variables in transition are not carried over.
LiveAddedOnly(s, CurrPtr, InDeletedTransitionPtr) ==
  Pick(s, {i \in DOMAIN s : i # CurrPtr /\ s[i].state = "added"})

\* All ADDED variables but the one being updated; then those in transition
\* for which no variable of that name is in the buffer yet, promoted to ADDED.
LiveVariables(s, CurrPtr, InDeletedTransitionPtr) ==
  LET added == {i \in DOMAIN s : i # CurrPtr /\ s[i].state = "added"}
      trans == {i \in DOMAIN s :
                  /\ s[i].state = "inDeleted" /\ i \notin {CurrPtr, InDeletedTransitionPtr}
                  /\ \A j \in added : s[j].name # s[i].name}
      first == {i \in trans : \A j \in trans : j < i => s[j].name # s[i].name}
      promoted == Pick(s, first)
  IN  Pick(s, added) \o [k \in DOMAIN promoted |-> [promoted[k] EXCEPT !.state = "added"]]

\* What the flash reads: a damaged header is that of some other variable.
AsRead ==
  [i \in DOMAIN flash |-> IF i \in garbled THEN [flash[i] EXCEPT !.name = NoName] ELSE flash[i]]

\* The flash reads s; the cache is copied from it and the totals computed from it.
Reread(s) ==
  /\ flash' = s /\ garbled' = {} /\ cache' = s
  /\ LastVariableOffset' = SizeOf(s) /\ CommonVariableTotalSize' = SizeOf(s)

\* FtwVariableSpace succeeds: flash, cache and totals describe the new store.
FtwVariableSpace(s) ==
  /\ ftw = "done"
  /\ Reread(s) /\ tail' = "free"
  /\ UNCHANGED block

\* Mutant: the cache, used as the buffer, is not copied back.
FtwErrorKeepsBuffer(s, contents) ==
  /\ "before" \in FtwErrors
  /\ cache' = s
  /\ LastVariableOffset' = SizeOf(flash)
  /\ CommonVariableTotalSize' = SizeOf(flash)
  /\ UNCHANGED <<flash, garbled, tail, block, committed>>

\* It returns an error; s in place would give the contents.  The write did nothing
\* (it must, while another one waits), or its spare block waits, the store being
\* old, in part new, or new, or it is done.  The cache, which served as the buffer,
\* is read back and the totals are computed again.
FtwVariableSpaceError(s, contents) ==
  \/ /\ "before" \in FtwErrors \/ ftw # "done"
     /\ Reread(AsRead)
     /\ UNCHANGED <<tail, block, committed>>
  \/ /\ ftw = "done" /\ spare' = s /\ spared' = contents
     /\ \/ /\ "spare" \in FtwErrors /\ ftw' = "spare"
           /\ Reread(AsRead) /\ UNCHANGED <<tail, committed>>
        \/ /\ "target" \in FtwErrors /\ ftw' = "half"
           /\ \E k \in 0..Len(s) : Reread(SubSeq(s, 1, k))
           /\ tail' \in {"free", "torn"} /\ UNCHANGED committed
        \/ /\ "dest" \in FtwErrors /\ ftw' = "spare"
           /\ Reread(s) /\ tail' = "free" /\ committed' = contents
  \/ /\ "after" \in FtwErrors /\ ftw = "done"
     /\ Reread(s) /\ tail' = "free" /\ committed' = contents
     /\ UNCHANGED block

-----------------------------------------------------------------------------
NoOp == [name |-> NoName, val |-> NoVal, old |-> NoVal,
         CurrPtr |-> 0, InDeletedTransitionPtr |-> 0]

Init ==
  /\ flash = <<>> /\ garbled = {} /\ tail = "free"
  /\ ftw = "done" /\ spare = <<>> /\ spared = [n \in Names |-> NoVal]
  /\ cache = <<>> /\ LastVariableOffset = 0 /\ CommonVariableTotalSize = 0
  /\ Reclaimed = FALSE
  /\ phase = "off" /\ pc = "idle" /\ op = NoOp /\ status = "none"
  /\ committed = [n \in Names |-> NoVal] /\ doubled = {} /\ unsafe = {}

\* Names with two variables in transition, which Reclaim and FindVariableEx
\* do not resolve in the same way.
Doubled(s) == {n \in Names : Cardinality(InState(s, n, "inDeleted")) > 1}

\* The call returns.
Return(s) ==
  /\ pc' = "idle" /\ status' = s
  /\ doubled' = doubled \cup Doubled(flash')
  /\ op' = [op EXCEPT !.CurrPtr = 0, !.InDeletedTransitionPtr = 0]

\* Nothing is returned yet.
Continue(place) == pc' = place /\ UNCHANGED <<status, doubled>>

-----------------------------------------------------------------------------
(* Start-up and the phases of a boot. *)

\* InitNonVolatileVariableStore parses the store.  A spare block that waits is
\* copied over it first (InitFtwProtocol), or read in its place.
CommonInitialize ==
  /\ phase = "off"
  /\ phase' = "read"
  /\ IF ftw = "done" THEN Reread(flash) /\ UNCHANGED <<tail, committed>>
     ELSE Reread(spare) /\ tail' = "free" /\ committed' = spared
  /\ ftw' = "done" /\ spare' = <<>> /\ spared' = [n \in Names |-> NoVal]
  /\ Reclaimed' = FALSE
  /\ UNCHANGED <<pc, op, status, doubled, unsafe>>

\* VariableWriteServiceInitialize reclaims if the free area is not free.  The
\* callers install the write service whether or not that has worked.
WriteServiceInitialize ==
  /\ phase = "read"
  /\ LET live == LiveVariables(AsRead, 0, 0)
     IN  \/ tail # "free" /\ FtwVariableSpace(live) /\ UNCHANGED committed
         \/ tail # "free" /\ FtwVariableSpaceError(live, committed)
         \/ /\ tail = "free"
            /\ UNCHANGED <<flash, garbled, tail, cache, LastVariableOffset,
                           CommonVariableTotalSize, block, committed>>
  /\ phase' = "boot"
  /\ UNCHANGED <<Reclaimed, pc, op, status, doubled, unsafe>>

\* ReclaimForOS, called once per boot, makes room for one more variable.
ReclaimForOS ==
  /\ phase = "boot" /\ pc = "idle" /\ ~Reclaimed
  /\ Reclaimed' = TRUE
  /\ LET live == LiveVariables(AsRead, 0, 0)
         full == RuntimeSpace - CommonVariableTotalSize < VariableSize
     IN  \/ full /\ FtwVariableSpace(live) /\ UNCHANGED committed
         \/ full /\ FtwVariableSpaceError(live, committed)
         \/ /\ ~full
            /\ UNCHANGED <<flash, garbled, tail, cache, LastVariableOffset,
                           CommonVariableTotalSize, block, committed>>
  /\ UNCHANGED <<phase, pc, op, status, doubled, unsafe>>

ExitBootServices ==
  /\ phase = "boot" /\ pc = "idle" /\ Reclaimed
  /\ phase' = "runtime"
  /\ UNCHANGED <<flash, garbled, tail, memory, block, pc, op, status, committed,
                 doubled, unsafe>>

\* Memory is lost; a header that was about to be written may be torn.
PowerLoss ==
  /\ phase # "off"
  /\ phase' = "off"
  /\ flash' = AsRead /\ garbled' = {}
  /\ \/ tail' = IF tail = "torn" THEN "torn" ELSE "free"
     \/ pc = "writeHeader" /\ tail' = "torn"
  /\ cache' = <<>> /\ LastVariableOffset' = 0 /\ CommonVariableTotalSize' = 0
  /\ Reclaimed' = FALSE
  /\ pc' = "idle" /\ op' = NoOp /\ status' = "none"
  /\ doubled' = doubled \cup Doubled(AsRead)
  /\ UNCHANGED <<block, committed, unsafe>>

-----------------------------------------------------------------------------
(* SetVariable and UpdateVariable *)

\* The flash is not as an update expects it: a new variable will be programmed
\* over a torn header or behind such a one, or the next boot will put the spare
\* block in the place of all that is written now.
Endangered == tail # "free" \/ ftw # "done"

\* The variable is looked up in the cache.  To delete one that does not exist
\* is an error, and an update that changes nothing succeeds at once.
SetVariable(n, v) ==
  /\ phase \in {"boot", "runtime"} /\ pc = "idle"
  /\ LET p == FindVariableEx(cache, n)
         old == GetVariable(cache, n)
     IN  /\ op' = [name |-> n, val |-> v, old |-> old, CurrPtr |-> p.CurrPtr,
                   InDeletedTransitionPtr |-> p.InDeletedTransitionPtr]
         /\ pc' = IF v = old THEN "idle"
                  ELSE IF v # NoVal
                       THEN IF p.CurrPtr # 0 THEN "mark" ELSE "room"
                       ELSE IF p.InDeletedTransitionPtr # 0 THEN "deleteTransition"
                            ELSE "delete"
         /\ status' = IF v # old THEN "none" ELSE IF v = NoVal THEN "error" ELSE "success"
         /\ unsafe' = IF pc' # "idle" /\ Endangered THEN unsafe \cup {n} ELSE unsafe
  /\ UNCHANGED <<flash, garbled, tail, memory, block, phase, committed, doubled>>

\* UpdateVariableStore for the state byte of variable i, in flash and cache.
SetState(i, state) ==
  /\ flash' = [flash EXCEPT ![i].state = state]
  /\ cache' = [cache EXCEPT ![i].state = state]
  /\ UNCHANGED <<garbled, tail, LastVariableOffset, CommonVariableTotalSize, Reclaimed, block,
                 phase, unsafe>>

MarkInDeletedTransition ==
  /\ pc = "mark"
  /\ SetState(op.CurrPtr, "inDeleted")
  /\ Continue("room")
  /\ UNCHANGED <<op, committed>>

\* Mutant: the space is compared without the size of the new variable.
NoRoomWhenFull == CommonVariableTotalSize >= IF phase = "runtime" THEN RuntimeSpace ELSE Space

NoRoom == \/ VariableSize + CommonVariableTotalSize > Space
          \/ phase = "runtime" /\ VariableSize + CommonVariableTotalSize > RuntimeSpace

HasRoom ==
  /\ pc = "room" /\ ~NoRoom
  /\ Continue("writeHeader")
  /\ UNCHANGED <<flash, garbled, tail, memory, block, phase, op, committed, unsafe>>

\* At runtime nothing is reclaimed.
OutOfResourcesAtRuntime ==
  /\ pc = "room" /\ NoRoom /\ phase = "runtime"
  /\ UNCHANGED <<flash, garbled, tail, memory, block, phase, committed, unsafe>>
  /\ Return("error")

\* The new variable becomes part of the reclaimed store, if it fits.
ReclaimAndAdd ==
  /\ pc = "room" /\ NoRoom /\ phase = "boot"
  /\ LET live == LiveVariables(AsRead, op.CurrPtr, op.InDeletedTransitionPtr)
         new == [state |-> "added", name |-> op.name, val |-> op.val]
         contents == [committed EXCEPT ![op.name] = op.val]
     IN  \/ /\ SizeOf(live) + VariableSize <= Space
            /\ FtwVariableSpace(Append(live, new)) /\ committed' = contents
            /\ Return("success")
         \/ /\ SizeOf(live) + VariableSize <= Space
            /\ FtwVariableSpaceError(Append(live, new), contents)
            /\ Return("aborted")
         \/ /\ SizeOf(live) + VariableSize > Space
            /\ flash' = AsRead /\ garbled' = {} /\ cache' = AsRead
            /\ UNCHANGED <<tail, LastVariableOffset, CommonVariableTotalSize, block, committed>>
            /\ Return("error")
  /\ UNCHANGED <<Reclaimed, phase, unsafe>>

\* The four steps that write a new variable.  Programmed over a torn header, the
\* new one may read as written or not.
WriteHeader ==
  /\ pc = "writeHeader"
  /\ flash' = Append(flash, [state |-> "header", name |-> op.name, val |-> NoVal])
  /\ \/ garbled' = garbled
     \/ tail = "torn" /\ garbled' = garbled \cup {Len(flash) + 1}
  /\ tail' = IF tail = "torn" THEN "over" ELSE tail
  /\ Continue("writeState")
  /\ UNCHANGED <<memory, block, phase, op, committed, unsafe>>

WriteHeaderValid ==
  /\ pc = "writeState"
  /\ flash' = [flash EXCEPT ![Len(flash)].state = "headerValid"]
  /\ Continue("writeData")
  /\ UNCHANGED <<garbled, tail, memory, block, phase, op, committed, unsafe>>

WriteData ==
  /\ pc = "writeData"
  /\ flash' = [flash EXCEPT ![Len(flash)].val = op.val]
  /\ Continue("writeAdded")
  /\ UNCHANGED <<garbled, tail, memory, block, phase, op, committed, unsafe>>

\* Step 4, then the copy in memory, the offset and the total.
WriteAdded ==
  /\ pc = "writeAdded"
  /\ flash' = [flash EXCEPT ![Len(flash)].state = "added"]
  /\ cache' = Append(cache, [state |-> "added", name |-> op.name, val |-> op.val])
  /\ LastVariableOffset' = LastVariableOffset + VariableSize
  /\ CommonVariableTotalSize' = CommonVariableTotalSize + VariableSize
  /\ committed' = [committed EXCEPT ![op.name] = op.val]
  /\ IF op.CurrPtr = 0 THEN Return("success")
     ELSE /\ Continue(IF op.InDeletedTransitionPtr # 0 THEN "deleteTransition" ELSE "delete")
          /\ UNCHANGED op
  /\ UNCHANGED <<garbled, tail, Reclaimed, block, phase, unsafe>>

\* Mutant: the older copy is left as it is.
KeepInDeletedTransition ==
  /\ pc = "deleteTransition"
  /\ Continue("delete")
  /\ UNCHANGED <<flash, garbled, tail, memory, block, phase, op, committed, unsafe>>

\* The older copy, left in transition by a loss of power, is deleted first.
DeleteInDeletedTransition ==
  /\ pc = "deleteTransition"
  /\ SetState(op.InDeletedTransitionPtr, "deleted")
  /\ Continue("delete")
  /\ UNCHANGED <<op, committed>>

\* The old variable is deleted, after an update or because it is to be.
DeleteOld ==
  /\ pc = "delete"
  /\ SetState(op.CurrPtr, "deleted")
  /\ committed' = [committed EXCEPT ![op.name] = op.val]
  /\ Return("success")

-----------------------------------------------------------------------------
Next ==
  \/ CommonInitialize \/ WriteServiceInitialize \/ ReclaimForOS \/ ExitBootServices
  \/ PowerLoss
  \/ \E n \in Names, v \in Values \cup {NoVal} : SetVariable(n, v)
  \/ MarkInDeletedTransition \/ HasRoom \/ OutOfResourcesAtRuntime \/ ReclaimAndAdd
  \/ WriteHeader \/ WriteHeaderValid \/ WriteData \/ WriteAdded
  \/ DeleteInDeletedTransition \/ DeleteOld

Spec == Init /\ [][Next]_vars

-----------------------------------------------------------------------------
(* Properties *)

InCall == pc # "idle"
Contents(s) == [n \in Names |-> GetVariable(s, n)]

\* The variables have their types; neither the store nor its bookkeeping goes
\* beyond the space for common variables (the check before step 1 and the one
\* in Reclaim).
TypeOK ==
  /\ flash \in Seq(Entry) /\ cache \in Seq(Entry)
  /\ SizeOf(flash) <= Space
  /\ garbled \subseteq DOMAIN flash /\ tail \in {"free", "torn", "over"}
  /\ ftw \in {"done", "spare", "half"} /\ spare \in Seq(Entry) /\ SizeOf(spare) <= Space
  /\ Reclaimed \in BOOLEAN
  /\ LastVariableOffset \in 0..Space /\ CommonVariableTotalSize \in 0..Space
  /\ phase \in {"off", "read", "boot", "runtime"}
  /\ op \in [name : Names \cup {NoName}, val : Values \cup {NoVal}, old : Values \cup {NoVal},
             CurrPtr : 0..Space, InDeletedTransitionPtr : 0..Space]
  /\ status \in {"none", "success", "error", "aborted"}
  /\ committed \in [Names -> Values \cup {NoVal}] /\ spared \in [Names -> Values \cup {NoVal}]
  /\ doubled \subseteq Names /\ unsafe \subseteq Names

\* The names of which something can be promised: not those that two interrupted
\* updates left with two copies in transition (see StoredOrDeleted), and not those
\* updated after a failed fault tolerant write whose spare block waits, or over
\* or behind a torn header that the start-up could not reclaim.
Sound == Names \ (doubled \cup unsafe)

\* Wherever power is lost in UpdateVariable or Reclaim, and however often, and
\* wherever the fault tolerant write fails, FindVariableEx finds in flash for
\* every sound name what the last call brought about: the old value up to step 4,
\* the new one from then on, never a part of one and never an older one.  After a
\* write that failed half-way this holds of the spare block, which the next
\* boot copies; what it holds differs in one update, the one that was aborted.
Durable ==
  /\ ftw # "half" => \A n \in Sound : GetVariable(AsRead, n) = committed[n]
  /\ ftw # "done" =>
       /\ \A n \in Sound : GetVariable(spare, n) = spared[n]
       /\ \A m, n \in {x \in Sound : spared[x] # committed[x]} : m = n

\* Between calls the copy in memory is what the flash reads and the next variable
\* will be written where the last one ends ("Keep the memory and the FLASH in sync
\* as updates occur", VariableNonVolatile.c): also after an update or a reclaim
\* that failed.  Only a variable updated over a torn header may read differently.
CacheInSync ==
  phase \in {"boot", "runtime"} /\ ~InCall =>
    /\ DOMAIN cache = DOMAIN AsRead
    /\ \A i \in DOMAIN cache : cache[i] = AsRead[i] \/ cache[i].name \in unsafe
    /\ LastVariableOffset = SizeOf(AsRead) /\ CommonVariableTotalSize = SizeOf(AsRead)

\* SetVariable keeps its word: after EFI_SUCCESS the variable has the new value
\* (or is gone), after an error of its own it has the value it had before the call,
\* even though UpdateVariable marked the old variable before it knew of the error;
\* after an error of the fault tolerant write it has one of the two, unless the
\* store is left half replaced until the next boot.
StatusTruth ==
  op.name \in Sound /\ ftw # "half" =>
    /\ status = "success" => GetVariable(cache, op.name) = op.val
    /\ status = "error" => GetVariable(cache, op.name) = op.old
    /\ status = "aborted" => GetVariable(cache, op.name) \in {op.old, op.val}

\* A caller of GetNextVariableName sees every variable once, whatever an
\* interrupted update left behind, if the search enters the non-volatile
\* store at its beginning.
EnumerationComplete ==
  phase # "off" /\ ~InCall /\ Sound = Names /\ ftw # "half" =>
    LET seen == Enumerated(cache)
    IN  \A n \in Names :
          Cardinality({k \in DOMAIN seen : cache[seen[k]].name = n}) =
            IF GetVariable(cache, n) = NoVal THEN 0 ELSE 1

\* What UefiSpec.h says of SetVariable, for all names: after EFI_SUCCESS the
\* data is stored, and "a size of zero causes the variable to be deleted".
StoredOrDeleted ==
  status = "success" => GetVariable(cache, op.name) = op.val
=============================================================================
