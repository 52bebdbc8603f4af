----------------------------- MODULE Ftw_proofs -----------------------------
(***************************************************************************)
(* Proofs about the fault tolerant write driver, for clients that allocate *)
(* one write at a time (OneWrite): a write is atomic, recovery completes,  *)
(* space that was allocated is there, cells are written where the flash is *)
(* erased.                                                                 *)
(*                                                                         *)
(* The work space is described by where its last header is (LastHeader, a  *)
(* recursive walk) and what stands there: nothing but erased cells (Free), *)
(* or a header with one record (Held).  The driver's program todo is       *)
(* described by what is left of it: each function that the driver may be   *)
(* in, from each of its steps on, followed by what its caller goes on with *)
(* (Boot4, Flush2(f), Copy3(y), ...).  The invariant FtwInv says, for each *)
(* such place, what the flash and the pointers are.                        *)
(***************************************************************************)
EXTENDS Ftw, FiniteSetTheorems, SequenceTheorems, WellFoundedInduction, TLAPS

-----------------------------------------------------------------------------
(* FtwGetLastWriteHeader *)

\* A set of numbers that is not empty has a least element.
LEMMA LeastElement ==
  ASSUME NEW S, S \subseteq Nat, S # {}
  PROVE  \E x \in S : \A y \in S : x <= y
<1> DEFINE R == OpToRel(<, Nat)
<1>1. PICK x \in S : \A y \in S : <<y, x>> \notin R
  <2> HIDE DEF R
  <2>1. IsWellFoundedOn(R, Nat)
    BY NatLessThanWellFounded DEF R
  <2> QED BY <2>1, WFMin
<1>2. ASSUME NEW y \in S
      PROVE  x <= y
  <2>1. x \in Nat /\ y \in Nat
    OBVIOUS
  <2>2. ~(y < x)
    BY <1>1, <2>1 DEF OpToRel
  <2> QED BY <2>1, <2>2
<1> QED BY <1>2

\* What the walk over the headers does at position i, if f says where it ends
\* when it is begun at a later position.
Walk(cells, f, i) ==
  IF i = W THEN W
  ELSE IF WRITES_COMPLETED \notin cells[i].state THEN i
  ELSE IF i + 1 + cells[i].num >= W THEN W
  ELSE f[i + 1 + cells[i].num]

\* There is a function that says where the walk ends, wherever it is begun.
LEMMA WalkExists ==
  ASSUME NEW cells \in [Index -> Cell]
  PROVE  \E f : f = [i \in 0..W |-> Walk(cells, f, i)]
<1> DEFINE P(n) == \E f : f = [i \in (W - n)..W |-> Walk(cells, f, i)]
           Bad == {n \in 0..W : ~P(n)}
<1>0. W \in Nat /\ W >= 2 /\ \A i \in Index : cells[i].num \in 1..(W + 1)
  BY FtwAssumption DEF Cell, Huge, Index
<1>1. P(0)
  <2> DEFINE f == [i \in W..W |-> W]
  <2>1. \A i \in W..W : Walk(cells, f, i) = W
    BY <1>0 DEF Walk
  <2>2. f = [i \in (W - 0)..W |-> Walk(cells, f, i)]
    BY <1>0, <2>1
  <2> QED BY <2>2
<1>2. ASSUME NEW n \in 0..W, n # 0, P(n - 1)
      PROVE  P(n)
  <2> DEFINE k == W - n
  <2>0. k \in 0..(W - 1) /\ W - (n - 1) = k + 1 /\ n - 1 \in 0..W /\ k \in Index
    BY <1>0, <1>2 DEF Index
  <2>1. PICK f : f = [i \in (k + 1)..W |-> Walk(cells, f, i)]
    BY <1>2, <2>0
  <2> DEFINE g == [i \in k..W |-> IF i = k THEN Walk(cells, f, k) ELSE f[i]]
  <2>2. ASSUME NEW i \in k..W
        PROVE  g[i] = Walk(cells, g, i)
    <3>1. CASE i = W
      <4>1. i # k
        BY <3>1, <2>0, <1>0
      <4>2. g[i] = f[i] /\ i \in (k + 1)..W
        BY <4>1, <2>0, <1>0
      <4>3. f[i] = Walk(cells, f, i)
        BY <2>1, <4>2
      <4> QED BY <4>2, <4>3, <3>1 DEF Walk
    <3>2. CASE i # W
      <4>1. i \in Index /\ cells[i].num \in 1..(W + 1)
        BY <3>2, <2>0, <1>0 DEF Index
      <4>2. i + 1 + cells[i].num < W =>
              i + 1 + cells[i].num \in k..W /\ i + 1 + cells[i].num # k
        BY <4>1, <2>0, <1>0
      <4>3. i + 1 + cells[i].num < W => g[i + 1 + cells[i].num] = f[i + 1 + cells[i].num]
        BY <4>2
      <4>4. i + 1 + cells[i].num >= W \/ i + 1 + cells[i].num < W
        BY <4>1, <2>0, <1>0
      <4>5. Walk(cells, g, i) = Walk(cells, f, i)
        <5> HIDE DEF g
        <5> QED BY <4>3, <4>4, <3>2 DEF Walk
      <4>6. g[i] = Walk(cells, f, i)
        <5>1. CASE i = k
          BY <5>1
        <5>2. CASE i # k
          <6>1. i \in (k + 1)..W
            BY <5>2, <2>0, <1>0
          <6>2. f[i] = Walk(cells, f, i)
            BY <2>1, <6>1
          <6> QED BY <5>2, <6>2
        <5> QED BY <5>1, <5>2
      <4> QED BY <4>5, <4>6
    <3> QED BY <3>1, <3>2
  <2>3. g = [i \in k..W |-> Walk(cells, g, i)]
    BY <2>2
  <2> QED BY <2>3
<1>3. Bad = {}
  <2> SUFFICES ASSUME Bad # {} PROVE FALSE
    OBVIOUS
  <2>1. Bad \subseteq Nat
    BY <1>0
  <2>2. PICK n \in Bad : \A m \in Bad : n <= m
    <3> HIDE DEF Bad
    <3> QED BY <2>1, LeastElement
  <2>3. n \in 0..W /\ ~P(n)
    OBVIOUS
  <2>4. n # 0
    BY <1>1, <2>3
  <2>5. n - 1 \in 0..W /\ ~(n <= n - 1)
    BY <2>3, <2>4, <1>0
  <2>6. P(n - 1)
    BY <2>2, <2>5
  <2> QED BY <1>2, <2>3, <2>4, <2>6
<1>4. P(W)
  BY <1>3, <1>0
<1>5. W - W = 0
  BY <1>0
<1> QED BY <1>4, <1>5

\* LastHeader is where the walk from the first header ends.
LEMMA LastIsWalk ==
  ASSUME NEW cells \in [Index -> Cell]
  PROVE  \E f : f = [i \in 0..W |-> Walk(cells, f, i)] /\ LastHeader(cells) = f[0]
<1> DEFINE skip == CHOOSE f : f = [i \in 0..W |-> Walk(cells, f, i)]
<1>1. skip = [i \in 0..W |-> Walk(cells, skip, i)]
  BY WalkExists
<1>2. LastHeader(cells) = skip[0]
  BY DEF LastHeader, Walk
<1> QED BY <1>1, <1>2

\* The walk does not go back.
LEMMA WalkForward ==
  ASSUME NEW cells \in [Index -> Cell], NEW f, f = [i \in 0..W |-> Walk(cells, f, i)]
  PROVE  \A i \in 0..W : f[i] \in i..W /\ (f[i] < W => WRITES_COMPLETED \notin cells[f[i]].state)
<1> DEFINE Good(i) == f[i] \in i..W /\ (f[i] < W => WRITES_COMPLETED \notin cells[f[i]].state)
           Bad == {n \in 0..W : ~Good(W - n)}
<1>0. W \in Nat /\ W >= 2 /\ \A i \in Index : cells[i].num \in 1..(W + 1)
  BY FtwAssumption DEF Cell, Huge, Index
<1>1. ASSUME NEW i \in 0..W, \A j \in 0..W : j > i => Good(j)
      PROVE  Good(i)
  <2>1. f[i] = Walk(cells, f, i)
    <3> HIDE DEF Good
    <3> QED BY <1>1
  <2>2. CASE i = W
    BY <1>0, <2>1, <2>2 DEF Walk
  <2>3. CASE i # W
    <3>1. i \in Index /\ cells[i].num \in 1..(W + 1)
      BY <2>3, <1>0 DEF Index
    <3> DEFINE j == i + 1 + cells[i].num
    <3>2. j \in Nat /\ j > i
      BY <3>1, <1>0
    <3>3. CASE WRITES_COMPLETED \notin cells[i].state
      <4>1. f[i] = i
        BY <3>3, <2>1, <2>3 DEF Walk
      <4> QED BY <4>1, <3>3, <1>0
    <3>4. CASE WRITES_COMPLETED \in cells[i].state /\ j >= W
      <4>1. f[i] = W
        BY <3>4, <2>1, <2>3 DEF Walk
      <4> QED BY <4>1, <1>0
    <3>5. CASE WRITES_COMPLETED \in cells[i].state /\ ~(j >= W)
      <4>1. f[i] = f[j]
        BY <3>5, <2>1, <2>3 DEF Walk
      <4>2. j \in 0..W
        BY <3>2, <3>5, <1>0
      <4>3. Good(j)
        BY <1>1, <3>2, <4>2
      <4> HIDE DEF j
      <4> QED BY <4>1, <4>3, <3>2, <1>0
    <3> QED BY <3>3, <3>4, <3>5
  <2> QED BY <2>2, <2>3
<1>2. Bad = {}
  <2> SUFFICES ASSUME Bad # {} PROVE FALSE
    OBVIOUS
  <2>1. Bad \subseteq Nat
    BY <1>0
  <2>2. PICK n \in Bad : \A m \in Bad : n <= m
    <3> HIDE DEF Bad
    <3> QED BY <2>1, LeastElement
  <2> HIDE DEF Good
  <2>3. n \in 0..W /\ ~Good(W - n) /\ W - n \in 0..W
    BY <1>0
  <2>4. ASSUME NEW j \in 0..W, j > W - n
        PROVE  Good(j)
    <3>1. W - j \in 0..W /\ W - (W - j) = j /\ ~(n <= W - j)
      BY <2>3, <2>4, <1>0
    <3> QED BY <2>2, <3>1
  <2> QED BY <1>1, <2>3, <2>4
<1>3. ASSUME NEW i \in 0..W
      PROVE  Good(i)
  <2> HIDE DEF Good
  <2>1. W - i \in 0..W /\ W - (W - i) = i
    BY <1>0
  <2> QED BY <1>2, <2>1
<1> QED BY <1>3

\* LastHeader is a cell that is not a completed header, or the end of the space.
LEMMA LastFacts ==
  ASSUME NEW cells \in [Index -> Cell]
  PROVE  /\ LastHeader(cells) \in 0..W
         /\ LastHeader(cells) < W => WRITES_COMPLETED \notin cells[LastHeader(cells)].state
<1>1. PICK f : f = [i \in 0..W |-> Walk(cells, f, i)] /\ LastHeader(cells) = f[0]
  BY LastIsWalk
<1>2. 0 \in 0..W
  BY FtwAssumption
<1>3. f[0] \in 0..W /\ (f[0] < W => WRITES_COMPLETED \notin cells[f[0]].state)
  BY <1>1, <1>2, WalkForward
<1> QED BY <1>1, <1>3

\* It depends on the cells before it and on the walk from there on.
LEMMA LastFollows ==
  ASSUME NEW cells \in [Index -> Cell], NEW cells2 \in [Index -> Cell],
         LastHeader(cells) < W,
         \A i \in Index : i < LastHeader(cells) => cells2[i] = cells[i],
         NEW f2, f2 = [i \in 0..W |-> Walk(cells2, f2, i)]
  PROVE  f2[0] = f2[LastHeader(cells)]
<1> DEFINE h == LastHeader(cells)
<1>0. W \in Nat /\ W >= 2 /\ \A i \in Index : cells[i].num \in 1..(W + 1)
  BY FtwAssumption DEF Cell, Huge, Index
<1>1. PICK f : f = [i \in 0..W |-> Walk(cells, f, i)] /\ h = f[0]
  BY LastIsWalk
<1>2. \A i \in 0..W : f[i] \in i..W
  BY <1>1, WalkForward
<1>3. h \in 0..W /\ h < W
  BY LastFacts
<1> DEFINE Good(i) == f[i] = h => f2[i] = f2[h]
           Bad == {n \in 0..h : ~Good(h - n)}
<1> HIDE DEF h
<1>4. ASSUME NEW i \in 0..h, \A j \in 0..h : j > i => Good(j), f[i] = h
      PROVE  f2[i] = f2[h]
  <2>1. CASE i = h
    BY <2>1
  <2>2. CASE i # h
    <3>1. i \in Index /\ i \in 0..W /\ i < h /\ i # W /\ cells[i].num \in 1..(W + 1)
      BY <2>2, <1>3, <1>0 DEF Index
    <3>2. cells2[i] = cells[i]
      BY <3>1 DEF h
    <3>3. f[i] = Walk(cells, f, i) /\ f2[i] = Walk(cells2, f2, i)
      <4> HIDE DEF Good
      <4> QED BY <1>1, <3>1
    <3> DEFINE j == i + 1 + cells[i].num
    <3>4. j \in Nat /\ j > i
      BY <3>1, <1>0
    <3>5. WRITES_COMPLETED \in cells[i].state /\ ~(j >= W) /\ f[j] = h
      BY <3>1, <3>3, <1>4, <1>3 DEF Walk
    <3>6. f2[i] = f2[j]
      BY <3>1, <3>2, <3>3, <3>5 DEF Walk
    <3>7. j \in 0..W
      BY <3>4, <3>5, <1>0
    <3> HIDE DEF j
    <3>8. j \in 0..h
      BY <3>5, <3>7, <1>2, <1>3, <1>0
    <3> QED BY <1>4, <3>4, <3>5, <3>6, <3>8
  <2> QED BY <2>1, <2>2
<1>5. Bad = {}
  <2> SUFFICES ASSUME Bad # {} PROVE FALSE
    OBVIOUS
  <2>1. Bad \subseteq Nat
    BY <1>3
  <2>2. PICK n \in Bad : \A m \in Bad : n <= m
    <3> HIDE DEF Bad
    <3> QED BY <2>1, LeastElement
  <2>3. n \in 0..h /\ ~Good(h - n) /\ h - n \in 0..h
    BY <1>3
  <2>4. ASSUME NEW j \in 0..h, j > h - n
        PROVE  Good(j)
    <3> HIDE DEF Good
    <3>1. h - j \in 0..h /\ h - (h - j) = j /\ ~(n <= h - j)
      BY <2>3, <2>4, <1>3
    <3> QED BY <2>2, <3>1
  <2> QED BY <1>4, <2>3, <2>4
<1>6. Good(0)
  <2> HIDE DEF Good
  <2>1. h \in 0..h /\ h - h = 0
    BY <1>3
  <2> QED BY <1>5, <2>1
<1> QED BY <1>6, <1>1 DEF h

\* Changes from the last header on do not move it, as long as it is not completed.
LEMMA LastKept ==
  ASSUME NEW cells \in [Index -> Cell], NEW cells2 \in [Index -> Cell],
         LastHeader(cells) < W,
         \A i \in Index : i < LastHeader(cells) => cells2[i] = cells[i],
         WRITES_COMPLETED \notin cells2[LastHeader(cells)].state
  PROVE  LastHeader(cells2) = LastHeader(cells)
<1>1. PICK f : f = [i \in 0..W |-> Walk(cells2, f, i)] /\ LastHeader(cells2) = f[0]
  BY LastIsWalk
<1>2. f[0] = f[LastHeader(cells)]
  BY <1>1, LastFollows
<1>3. LastHeader(cells) \in 0..W /\ LastHeader(cells) # W
  BY LastFacts, FtwAssumption
<1>4. f[LastHeader(cells)] = Walk(cells2, f, LastHeader(cells))
  BY <1>1, <1>3
<1> QED BY <1>1, <1>2, <1>3, <1>4 DEF Walk

\* Once it is completed, with one record, the next one follows that record.
LEMMA LastNext ==
  ASSUME NEW cells \in [Index -> Cell], NEW cells2 \in [Index -> Cell],
         LastHeader(cells) < W,
         \A i \in Index : i < LastHeader(cells) => cells2[i] = cells[i],
         WRITES_COMPLETED \in cells2[LastHeader(cells)].state,
         cells2[LastHeader(cells)].num = 1,
         LastHeader(cells) + 2 < W =>
           WRITES_COMPLETED \notin cells2[LastHeader(cells) + 2].state
  PROVE  LastHeader(cells2) = IF LastHeader(cells) + 2 < W THEN LastHeader(cells) + 2 ELSE W
<1> DEFINE h == LastHeader(cells)
<1>1. PICK f : f = [i \in 0..W |-> Walk(cells2, f, i)] /\ LastHeader(cells2) = f[0]
  BY LastIsWalk
<1>2. f[0] = f[h]
  BY <1>1, LastFollows
<1>3. h \in 0..W /\ h # W /\ W \in Nat
  BY LastFacts, FtwAssumption
<1> HIDE DEF h
<1>4. f[h] = Walk(cells2, f, h)
  BY <1>1, <1>3
<1>5. h + 1 + 1 = h + 2 /\ (h + 2 >= W <=> ~(h + 2 < W)) /\ (h + 2 < W => h + 2 \in 0..W /\ h + 2 # W)
  BY <1>3
<1>6. f[h] = IF h + 2 >= W THEN W ELSE f[h + 2]
  BY <1>3, <1>4, <1>5 DEF Walk, h
<1>7. h + 2 < W => f[h + 2] = Walk(cells2, f, h + 2)
  BY <1>1, <1>5
<1>8. h + 2 < W => f[h + 2] = h + 2
  BY <1>5, <1>7 DEF Walk, h
<1> QED BY <1>1, <1>2, <1>5, <1>6, <1>8 DEF h

\* In an empty space it is the first cell.
LEMMA NoCellsFacts ==
  /\ NoCells \in [Index -> Cell] /\ \A i \in Index : NoCells[i] = Erased
  /\ LastHeader(NoCells) = 0
<1>1. Erased \in Cell /\ W \in Nat /\ W >= 2
  BY FtwAssumption DEF Erased, Cell, Huge
<1>2. NoCells \in [Index -> Cell] /\ \A i \in Index : NoCells[i] = Erased
  BY <1>1 DEF NoCells
<1>3. PICK f : f = [i \in 0..W |-> Walk(NoCells, f, i)] /\ LastHeader(NoCells) = f[0]
  BY <1>2, LastIsWalk
<1>4. 0 \in 0..W /\ 0 \in Index /\ 0 # W
  BY <1>1 DEF Index
<1>5. f[0] = Walk(NoCells, f, 0)
  BY <1>3, <1>4
<1>6. WRITES_COMPLETED \notin NoCells[0].state
  BY <1>2, <1>4 DEF Erased
<1> QED BY <1>2, <1>3, <1>4, <1>5, <1>6 DEF Walk

-----------------------------------------------------------------------------
(* The cells, when every header has one record *)

HeaderCells == {[state |-> s, num |-> 1, blk |-> NoBlock] : s \in {{1}, {1, 2}}}
RecordIn(b, s) == [state |-> s, num |-> Huge, blk |-> b]
RecordCells(s) ==
  {RecordIn(b, s) : b \in Blocks} \cup (IF s = {} THEN {Erased} ELSE {})
RecordStates == {{}, {2}, {2, 4}}

\* Nothing but erased cells from the last header on.
Free(cells) == \A i \in Index : i >= LastHeader(cells) => cells[i] = Erased

\* The last header is open, its record has the state bits s, and nothing but
\* erased cells follows.
Held(cells, s) ==
  LET h == LastHeader(cells)
  IN  /\ h + 1 < W
      /\ cells[h] \in HeaderCells
      /\ cells[h + 1] \in RecordCells(s)
      /\ \A i \in Index : i > h + 1 => cells[i] = Erased

LayoutOK(cells) ==
  cells \in [Index -> Cell] /\ (Free(cells) \/ \E s \in RecordStates : Held(cells, s))

\* A header that FtwAllocate has completed, with no record yet.
Allocated(cells) ==
  LET h == LastHeader(cells)
  IN  Held(cells, {}) /\ cells[h].state = {1, 2} /\ cells[h + 1] = Erased

-----------------------------------------------------------------------------
(* What the operations do to the cells *)

\* An empty work space.
LEMMA EmptySpace == LayoutOK(NoCells) /\ Free(NoCells)
BY NoCellsFacts DEF LayoutOK, Free

\* The types of the cells the driver writes.
LEMMA CellTypes ==
  /\ Erased \in Cell /\ HeaderCells \subseteq Cell /\ Header(1) \in HeaderCells
  /\ \A s \in RecordStates : RecordCells(s) \subseteq Cell
  /\ \A b \in Blocks : Record(b) = RecordIn(b, {})
<1>1. W \in Nat /\ W >= 2 /\ 1 \in 1..(W + 1) /\ W + 1 \in 1..(W + 1)
  BY FtwAssumption
<1>2. \A s \in RecordStates : s \in SUBSET {1, 2, 4}
  BY DEF RecordStates
<1>3. Erased \in Cell
  BY <1>1 DEF Erased, Cell, Huge
<1>4. HeaderCells \subseteq Cell
  BY <1>1 DEF HeaderCells, Cell, Huge
<1>5. Header(1) \in HeaderCells
  BY DEF Header, HeaderCells, HEADER_ALLOCATED
<1>6. ASSUME NEW s \in RecordStates, NEW b \in Blocks
      PROVE  RecordIn(b, s) \in Cell
  BY <1>1, <1>2 DEF RecordIn, Cell, Huge
<1>7. \A s \in RecordStates : RecordCells(s) \subseteq Cell
  <2> SUFFICES ASSUME NEW s \in RecordStates, NEW c \in RecordCells(s)
               PROVE  c \in Cell
    OBVIOUS
  <2>1. c = Erased \/ \E b \in Blocks : c = RecordIn(b, s)
    BY DEF RecordCells
  <2> QED BY <1>3, <1>6, <2>1
<1>8. \A b \in Blocks : Record(b) = RecordIn(b, {})
  BY DEF Record, RecordIn
<1> QED BY <1>3, <1>4, <1>5, <1>7, <1>8

\* An open header is not the end of the space, and says what it holds.
LEMMA HeldFacts ==
  ASSUME NEW cells \in [Index -> Cell], NEW s \in RecordStates, Held(cells, s)
  PROVE  LET h == LastHeader(cells)
         IN  /\ h \in Index /\ h + 1 \in Index /\ h + 1 < W /\ h \in Nat
             /\ cells[h] # Erased /\ ~Free(cells)
             /\ cells[h].num = 1 /\ cells[h].state \in {{1}, {1, 2}} /\ cells[h].blk = NoBlock
             /\ cells[h + 1].state = s
             /\ s # {} => cells[h + 1].blk \in Blocks
<1> DEFINE h == LastHeader(cells)
<1>1. h \in 0..W /\ h + 1 < W /\ W \in Nat
  BY LastFacts, FtwAssumption DEF Held
<1>2. h \in Index /\ h + 1 \in Index /\ h \in Nat
  BY <1>1 DEF Index
<1>3. cells[h] \in HeaderCells /\ cells[h + 1] \in RecordCells(s)
  BY DEF Held
<1> HIDE DEF h
<1>4. cells[h].num = 1 /\ cells[h].state \in {{1}, {1, 2}} /\ cells[h].blk = NoBlock
  BY <1>3 DEF HeaderCells
<1>5. cells[h] # Erased
  BY <1>4 DEF Erased
<1>6. ~Free(cells)
  <2>1. h >= LastHeader(cells)
    BY <1>2 DEF h
  <2> QED BY <1>2, <1>5, <2>1 DEF Free
<1>7. cells[h + 1].state = s /\ (s # {} => cells[h + 1].blk \in Blocks)
  <2>1. (s = {} /\ cells[h + 1] = Erased) \/ \E b \in Blocks : cells[h + 1] = RecordIn(b, s)
    BY <1>3, Zenon DEF RecordCells
  <2>2. CASE s = {} /\ cells[h + 1] = Erased
    BY <2>2 DEF Erased
  <2>3. ASSUME NEW b \in Blocks, cells[h + 1] = RecordIn(b, s)
        PROVE  cells[h + 1].state = s /\ cells[h + 1].blk \in Blocks
    BY <2>3 DEF RecordIn
  <2> QED BY <2>1, <2>2, <2>3
<1> QED BY <1>1, <1>2, <1>4, <1>5, <1>6, <1>7 DEF h

\* It holds one thing.
LEMMA HeldOnce ==
  ASSUME NEW cells \in [Index -> Cell], NEW s \in RecordStates, Held(cells, s),
         NEW t \in RecordStates, Held(cells, t)
  PROVE  s = t
BY HeldFacts

\* A free space has erased cells at the last header and behind it.
LEMMA FreeFacts ==
  ASSUME NEW cells \in [Index -> Cell], Free(cells)
  PROVE  /\ LastHeader(cells) < W =>
              LastHeader(cells) \in Index /\ cells[LastHeader(cells)] = Erased
         /\ LastHeader(cells) + 1 < W =>
              LastHeader(cells) + 1 \in Index /\ cells[LastHeader(cells) + 1] = Erased
         /\ \A s \in RecordStates : ~Held(cells, s)
<1> DEFINE h == LastHeader(cells)
<1>1. h \in 0..W /\ W \in Nat /\ \A i \in Index : i >= h => cells[i] = Erased
  BY LastFacts, FtwAssumption DEF Free
<1> HIDE DEF h
<1>2. h < W => h \in Index /\ cells[h] = Erased
  BY <1>1 DEF Index
<1>3. h + 1 < W => h + 1 \in Index /\ cells[h + 1] = Erased
  BY <1>1 DEF Index
<1>4. \A s \in RecordStates : ~Held(cells, s)
  BY HeldFacts
<1> QED BY <1>2, <1>3, <1>4 DEF h

\* FtwGetLastWriteRecord returns the record behind the header.
LEMMA LastRecordFacts ==
  ASSUME NEW cells, LayoutOK(cells), LastHeader(cells) + 1 < W
  PROVE  LastRecord(cells, LastHeader(cells)) = LastHeader(cells) + 1
<1> DEFINE h == LastHeader(cells)
           open == {i \in Index : /\ h < i /\ i <= h + cells[h].num
                                  /\ DEST_COMPLETED \notin cells[i].state}
<1>1. cells \in [Index -> Cell] /\ h \in 0..W /\ W \in Nat /\ W >= 2
  BY LastFacts, FtwAssumption DEF LayoutOK
<1>2. h \in Index /\ h + 1 \in Index /\ h \in Nat
  BY <1>1 DEF Index
<1>3. LastRecord(cells, h) = IF open # {} THEN CHOOSE i \in open : \A j \in open : i <= j
                             ELSE h + cells[h].num
  BY DEF LastRecord
<1>4. \A i \in open : i \in Nat /\ h + 1 <= i
  BY <1>2 DEF Index
<1>5. ASSUME h + 1 \in open
      PROVE  LastRecord(cells, h) = h + 1
  <2>1. \A j \in open : h + 1 <= j
    BY <1>4
  <2>2. \A i \in open : (\A j \in open : i <= j) => i = h + 1
    BY <1>4, <1>5, <1>2
  <2> HIDE DEF open, h
  <2> QED BY <1>3, <1>5, <2>1, <2>2
<1>6. CASE Free(cells)
  <2>1. cells[h] = Erased /\ cells[h + 1] = Erased
    BY <1>1, <1>2, <1>6, FreeFacts
  <2>2. h + 1 \in open
    BY <1>1, <1>2, <2>1 DEF Erased, Huge
  <2> QED BY <2>2, <1>5
<1>7. ASSUME NEW s \in RecordStates, Held(cells, s)
      PROVE  LastRecord(cells, h) = h + 1
  <2>1. cells[h].num = 1
    BY <1>1, <1>7, HeldFacts
  <2>2. CASE DEST_COMPLETED \notin cells[h + 1].state
    <3>1. h + 1 \in open
      BY <1>2, <2>1, <2>2
    <3> QED BY <3>1, <1>5
  <2>3. CASE DEST_COMPLETED \in cells[h + 1].state
    <3>1. \A i \in Index : h < i /\ i <= h + 1 => i = h + 1
      BY <1>2 DEF Index
    <3>2. open = {}
      BY <2>1, <2>3, <3>1
    <3> HIDE DEF open
    <3> QED BY <1>3, <3>2, <2>1
  <2> QED BY <2>2, <2>3
<1> QED BY <1>6, <1>7 DEF LayoutOK

\* FtwAllocate writes a header to erased cells.
LEMMA OpenHeader ==
  ASSUME NEW cells, LayoutOK(cells), Free(cells), LastHeader(cells) + 1 < W,
         NEW cells2, cells2 = [cells EXCEPT ![LastHeader(cells)] = Header(1)]
  PROVE  /\ LayoutOK(cells2) /\ LastHeader(cells2) = LastHeader(cells)
         /\ Held(cells2, {}) /\ cells2[LastHeader(cells) + 1] = Erased
<1> DEFINE h == LastHeader(cells)
<1>1. cells \in [Index -> Cell] /\ h \in 0..W /\ W \in Nat
  BY LastFacts, FtwAssumption DEF LayoutOK
<1>2. h \in Index /\ h + 1 \in Index /\ h < W /\ cells[h + 1] = Erased /\ h # h + 1
  BY <1>1, FreeFacts
<1>3. \A i \in Index : i > h + 1 => cells[i] = Erased /\ i # h
  BY <1>1 DEF Free, Index
<1>4. Header(1) \in Cell /\ Header(1) \in HeaderCells /\ Erased \in RecordCells({}) /\ {} \in RecordStates
  BY CellTypes DEF RecordCells, RecordStates
<1> HIDE DEF h
<1>5. cells2 \in [Index -> Cell] /\ cells2[h] = Header(1) /\ \A i \in Index : i # h => cells2[i] = cells[i]
  BY <1>1, <1>2, <1>4 DEF h
<1>6. LastHeader(cells2) = h
  <2>1. WRITES_COMPLETED \notin cells2[h].state
    BY <1>5 DEF Header, HEADER_ALLOCATED, WRITES_COMPLETED
  <2>2. \A i \in Index : i < h => cells2[i] = cells[i]
    BY <1>5, <1>1
  <2> QED BY <1>1, <1>2, <1>5, <2>1, <2>2, LastKept DEF h
<1>7. cells2[h + 1] = Erased /\ \A i \in Index : i > h + 1 => cells2[i] = Erased
  BY <1>2, <1>3, <1>5
<1>8. Held(cells2, {})
  BY <1>2, <1>4, <1>5, <1>6, <1>7 DEF Held, h
<1> QED BY <1>4, <1>5, <1>6, <1>7, <1>8 DEF LayoutOK, h

\* ... and sets WritesAllocated.
LEMMA AllocateBit ==
  ASSUME NEW cells, LayoutOK(cells), Held(cells, {}), cells[LastHeader(cells) + 1] = Erased,
         NEW cells2,
         cells2 = [cells EXCEPT ![LastHeader(cells)].state = @ \cup {WRITES_ALLOCATED}]
  PROVE  LayoutOK(cells2) /\ LastHeader(cells2) = LastHeader(cells) /\ Allocated(cells2)
<1> DEFINE h == LastHeader(cells)
<1>0. {} \in RecordStates
  BY DEF RecordStates
<1>1. cells \in [Index -> Cell] /\ h \in Nat /\ h \in Index /\ h + 1 \in Index /\ h + 1 < W /\ W \in Nat
  BY <1>0, HeldFacts, FtwAssumption DEF LayoutOK
<1>2. cells[h].num = 1 /\ cells[h].state \in {{1}, {1, 2}} /\ cells[h].blk = NoBlock /\ cells[h] \in HeaderCells
  BY <1>0, <1>1, HeldFacts DEF Held
<1>3. cells[h + 1] \in RecordCells({}) /\ \A i \in Index : i > h + 1 => cells[i] = Erased
  BY DEF Held
<1> HIDE DEF h
<1>4. cells2[h] = [state |-> {1, 2}, num |-> 1, blk |-> NoBlock]
  <2>1. cells2[h] = [cells[h] EXCEPT !.state = @ \cup {2}]
    BY <1>1 DEF h, WRITES_ALLOCATED
  <2>2. PICK s \in {{1}, {1, 2}} : cells[h] = [state |-> s, num |-> 1, blk |-> NoBlock]
    BY <1>2 DEF HeaderCells
  <2>3. s \cup {2} = {1, 2}
    OBVIOUS
  <2> QED BY <2>1, <2>2, <2>3
<1>5. cells2[h] \in HeaderCells /\ cells2[h] \in Cell
  BY <1>4, CellTypes DEF HeaderCells
<1>6. cells2 \in [Index -> Cell] /\ \A i \in Index : i # h => cells2[i] = cells[i]
  BY <1>1, <1>5 DEF h
<1>7. LastHeader(cells2) = h
  <2>1. WRITES_COMPLETED \notin cells2[h].state /\ h < W
    BY <1>1, <1>4 DEF WRITES_COMPLETED
  <2>2. \A i \in Index : i < h => cells2[i] = cells[i]
    BY <1>6, <1>1
  <2> QED BY <1>1, <1>6, <2>1, <2>2, LastKept DEF h
<1>8. cells2[h + 1] = Erased /\ \A i \in Index : i > h + 1 => cells2[i] = Erased
  <2>1. \A i \in Index : i > h + 1 => i # h
    BY <1>1 DEF Index
  <2>2. h + 1 # h
    BY <1>1
  <2> QED BY <1>1, <1>3, <1>6, <2>1, <2>2 DEF h
<1>9. Held(cells2, {})
  BY <1>1, <1>3, <1>5, <1>7, <1>8 DEF Held, RecordCells
<1>10. cells2[h].state = {1, 2}
  BY <1>4
<1>11. Allocated(cells2)
  BY <1>7, <1>8, <1>9, <1>10 DEF Allocated
<1>12. LayoutOK(cells2)
  BY <1>0, <1>6, <1>9 DEF LayoutOK
<1> QED BY <1>7, <1>11, <1>12 DEF h

\* The record of an open header is replaced.
Replaced(cells, c) == [cells EXCEPT ![LastHeader(cells) + 1] = c]

\* FtwWrite writes the record, or one of its state bits: the header stays the last one.
LEMMA ReplaceRecord ==
  ASSUME NEW cells, LayoutOK(cells), ~Free(cells), NEW t \in RecordStates, NEW c \in RecordCells(t)
  PROVE  /\ LayoutOK(Replaced(cells, c)) /\ LastHeader(Replaced(cells, c)) = LastHeader(cells)
         /\ Held(Replaced(cells, c), t) /\ Replaced(cells, c)[LastHeader(cells) + 1] = c
<1> DEFINE cells2 == Replaced(cells, c)
<1>s. PICK s \in RecordStates : Held(cells, s)
  BY DEF LayoutOK
<1> DEFINE h == LastHeader(cells)
<1>1. cells \in [Index -> Cell] /\ h \in Nat /\ h \in Index /\ h + 1 \in Index /\ h + 1 < W /\ W \in Nat
  BY <1>s, HeldFacts, FtwAssumption DEF LayoutOK
<1>2. cells[h].state \in {{1}, {1, 2}} /\ cells[h] \in HeaderCells
  BY <1>s, <1>1, HeldFacts DEF Held
<1>3. \A i \in Index : i > h + 1 => cells[i] = Erased
  BY <1>s DEF Held
<1>4. c \in Cell
  BY CellTypes
<1> HIDE DEF h
<1>5. cells2 \in [Index -> Cell] /\ cells2[h + 1] = c /\ \A i \in Index : i # h + 1 => cells2[i] = cells[i]
  BY <1>1, <1>4 DEF h, Replaced
<1> HIDE DEF cells2
<1>6. cells2[h] = cells[h]
  BY <1>1, <1>5
<1>7. LastHeader(cells2) = h
  <2>1. WRITES_COMPLETED \notin cells2[h].state /\ h < W
    BY <1>1, <1>2, <1>6 DEF WRITES_COMPLETED
  <2>2. \A i \in Index : i < h => cells2[i] = cells[i]
    BY <1>5, <1>1
  <2> QED BY <1>1, <1>5, <2>1, <2>2, LastKept DEF h
<1>8. \A i \in Index : i > h + 1 => cells2[i] = Erased
  <2>1. \A i \in Index : i > h + 1 => i # h + 1
    BY <1>1 DEF Index
  <2> QED BY <1>3, <1>5, <2>1
<1>9. Held(cells2, t)
  BY <1>1, <1>2, <1>5, <1>6, <1>7, <1>8 DEF Held
<1>10. LayoutOK(cells2)
  BY <1>5, <1>9 DEF LayoutOK
<1> QED BY <1>5, <1>7, <1>9, <1>10 DEF h, cells2

\* The header is completed.
LEMMA CompleteHeader ==
  ASSUME NEW cells, LayoutOK(cells), NEW s \in RecordStates, Held(cells, s),
         NEW cells2,
         cells2 = [cells EXCEPT ![LastHeader(cells)].state = @ \cup {WRITES_COMPLETED}]
  PROVE  /\ LayoutOK(cells2) /\ Free(cells2)
         /\ WRITES_COMPLETED \in cells2[LastHeader(cells)].state
         /\ cells2[LastHeader(cells)].num = 1
         /\ \A i \in Index : i > LastHeader(cells) + 1 => cells2[i] = Erased
<1> DEFINE h == LastHeader(cells)
<1>1. cells \in [Index -> Cell] /\ h \in Nat /\ h \in Index /\ h + 1 \in Index /\ h + 1 < W /\ W \in Nat
  BY HeldFacts, FtwAssumption DEF LayoutOK
<1>2. cells[h].num = 1 /\ cells[h].state \in {{1}, {1, 2}} /\ cells[h] \in Cell
  BY <1>1, HeldFacts
<1>3. \A i \in Index : i > h + 1 => cells[i] = Erased
  BY DEF Held
<1> HIDE DEF h
<1> DEFINE c == [cells[h] EXCEPT !.state = @ \cup {4}]
<1>4. c \in Cell /\ c.num = 1 /\ 4 \in c.state
  BY <1>2 DEF Cell
<1>5. cells2 \in [Index -> Cell] /\ cells2[h] = c /\ \A i \in Index : i # h => cells2[i] = cells[i]
  <2> HIDE DEF c
  <2>1. cells2 = [cells EXCEPT ![h] = c]
    BY DEF h, c, WRITES_COMPLETED
  <2> QED BY <1>1, <1>4, <2>1
<1> HIDE DEF c
<1>6. \A i \in Index : i > h + 1 => cells2[i] = Erased
  <2>1. \A i \in Index : i > h + 1 => i # h
    BY <1>1 DEF Index
  <2> QED BY <1>3, <1>5, <2>1
<1>7. LastHeader(cells2) = IF h + 2 < W THEN h + 2 ELSE W
  <2>1. WRITES_COMPLETED \in cells2[h].state /\ h < W /\ cells2[h].num = 1
    <3>1. h < W
      BY <1>1
    <3> QED BY <3>1, <1>4, <1>5 DEF WRITES_COMPLETED
  <2>2. \A i \in Index : i < h => cells2[i] = cells[i]
    BY <1>5, <1>1
  <2>3. h + 2 < W => h + 2 \in Index /\ h + 2 > h + 1
    BY <1>1 DEF Index
  <2>4. h + 2 < W => WRITES_COMPLETED \notin cells2[h + 2].state
    BY <1>6, <2>3 DEF Erased
  <2> QED BY <1>1, <1>5, <2>1, <2>2, <2>4, LastNext DEF h
<1>8. Free(cells2)
  <2>1. ASSUME NEW i \in Index, i >= LastHeader(cells2)
        PROVE  i > h + 1
    BY <1>1, <1>7, <2>1 DEF Index
  <2> QED BY <1>6, <2>1 DEF Free
<1> QED BY <1>4, <1>5, <1>6, <1>8 DEF LayoutOK, h, WRITES_COMPLETED

-----------------------------------------------------------------------------
(* The programs of the driver, from each of their steps on *)

\* x, then the steps of s.
Cons(x, s) == <<x>> \o s

RefreshThen(x) == Cons(Refresh, x)
PointThen(x) == Cons(Point, x)
AbortThen(x) == Cons(Step("Abort"), x)
RestartThen(x) == Cons(Step("Restart"), x)
AllocateThen(x) == Cons([do |-> "Allocate", num |-> 1], x)
WriteBeginWith(p) == Cons([do |-> "WriteBegin", private |-> p], << >>)
CheckOnly == Cons(Step("WriteCheck"), << >>)
DoneOnly == Cons(Step("WriteDone"), << >>)
LookOnly == Cons(Step("GetLastWrite"), << >>)

\* What is left of InitFtwProtocol after one step, after two, ...
Boot7 == Cons(Step("Hook"), << >>)
Boot6 == Cons(Step("RestartPending"), Boot7)
Boot5 == Cons(Step("CheckEmpty"), Boot6)
Boot4 == Cons(Step("AbortLast"), Boot5)
Boot3 == Cons(Step("AbortFirst"), Boot4)
Boot2 == Cons(Step("Validate"), Boot3)

\* FlushSpareBlockToWorkingBlock and FtwReclaimWorkSpace, then f.
Flush5(f) == Cons(WorkBit(WORKING_BLOCK_VALID), f)
Flush4(f) == Cons(WriteWork(NoCells), Flush5(f))
Flush3(f) == Cons(EraseWork, Flush4(f))
Flush2(f) == Cons(WorkBit(WORKING_BLOCK_INVALID), Flush3(f))
Flush1(f) == Cons(SpareBit(WORKING_BLOCK_VALID), Flush2(f))
Reclaim4(f) == Cons(WorkBit(WORKING_BLOCK_INVALID), Flush1(f))
Reclaim3(f) == Cons(SpareBit(WORKING_BLOCK_VALID), Reclaim4(f))
Reclaim2(g, f) ==
  Cons(WriteSpare(Copy([sig |-> g, state |-> {}, cells |-> NoCells])), Reclaim3(f))
Reclaim1(g, f) == Cons(EraseSpare, Reclaim2(g, f))
Restore2(s, e) == Cons(WriteSpare(s), e)
Restore1(s, e) == Cons(EraseSpare, Restore2(s, e))

\* FtwWriteRecord, then y.
Copy4(y) == Cons(CellBit(FtwLastWriteHeader, WRITES_COMPLETED), y)
Copy3(y) == Cons(CellBit(FtwLastWriteRecord, DEST_COMPLETED), Copy4(y))
Copy2(b, v, y) == Cons(WriteTarget(b, v), Copy3(y))
Copy1(b, v, y) == Cons(EraseTarget(b), Copy2(b, v, y))

\* FtwAllocate, then x; FtwWrite.
Alloc3(x) == Cons([do |-> "AllocateDone", num |-> 1], x)
Alloc2(x) == Cons(CellBit(FtwLastWriteHeader, WRITES_ALLOCATED), Alloc3(x))
Alloc1(x) == Cons(WriteCell(FtwLastWriteHeader, Header(1)), Alloc2(x))
Write4(b, v, y) == Cons(CellBit(FtwLastWriteRecord, SPARE_COMPLETED), Copy1(b, v, y))
Write3(b, v, y) == Cons(WriteSpare(Data(v)), Write4(b, v, y))
Write2(b, v, y) == Cons(EraseSpare, Write3(b, v, y))
Write1(b, v, y) == Cons(WriteCell(FtwLastWriteRecord, Record(b)), Write2(b, v, y))

\* What follows FtwAbort and FtwRestart, in InitFtwProtocol and in a service.
BootAborts == {Boot4, Boot5, Boot7, RefreshThen(Boot3)}
AbortLastOf(x) == RefreshThen(AbortThen(x))
EraseThen(x) == Cons(EraseSpare, x)

\* What follows WorkSpaceRefresh, in InitFtwProtocol, in a service other than
\* FtwWrite, and in FtwWrite.
BootConts == {Boot2, Boot3, RestartThen(AbortLastOf(Boot7))} \cup {AbortThen(x) : x \in BootAborts}
PlainConts == {AllocateThen(<< >>), RestartThen(<< >>), AbortThen(<< >>), LookOnly}
BeginConts == {WriteBeginWith(p) : p \in BOOLEAN}
Conts == BootConts \cup PlainConts \cup BeginConts \cup {AllocateThen(CheckOnly)}

-----------------------------------------------------------------------------
(* The invariant *)

\* No flash operation fails and every FVB is found.
Sound == ~FvbErrors /\ ~LookupFails

Requests == [blk : Blocks, val : Values]
Valid == IsValidWorkSpace(work)
Last == LastHeader(Cells)

\* Spare blocks: a copy of the working block has no cells in use.
SpareOK == [val : Values \cup {Garbage},
            work : [sig : BOOLEAN, state : SUBSET {1, 2}, cells : {NoCells}]]

\* The pointers are those of the last header and its record ...
Pointed ==
  /\ FtwLastWriteHeader = Last /\ FtwLastWriteRecord = Last + 1
  /\ Last + 1 < W
\* ... or were, before that header was completed.
Passed ==
  /\ FtwLastWriteRecord = FtwLastWriteHeader + 1 /\ FtwLastWriteRecord < W
  /\ WRITES_COMPLETED \in LastHdr.state /\ LastHdr.num = 1
  /\ \A i \in Index : i > FtwLastWriteRecord => Cells[i] = Erased
  /\ Free(Cells)
Settled == Passed \/ (Pointed /\ Free(Cells))

\* What clients find between two services, and in which they leave it.
Quiet == Sound => Free(Cells) \/ Allocated(Cells)

\* The working block is valid, where that can be relied on.
Vouched == Valid \/ (power = "on" /\ ~Sound)

\* Who runs: InitFtwProtocol, a service other than FtwWrite, or FtwWrite.
InBoot == power = "boot" /\ request = NoRequest
InPlain == power = "on" /\ request = NoRequest
InWrite == power = "on" /\ request \in Requests

\* The steps c may follow a WorkSpaceRefresh, whether that reclaims or not.
Fits(c) ==
  \/ /\ InBoot /\ c \in BootConts
     /\ Sound /\ c \in {AbortThen(x) : x \in BootAborts} => ~Held(Cells, {2})
  \/ InPlain /\ c \in PlainConts /\ Quiet
  \/ InWrite /\ c \in BeginConts /\ Quiet
  \/ InWrite /\ c = AllocateThen(CheckOnly) /\ Free(Cells)

\* What may follow WorkSpaceRefresh, the flash operations of FtwReclaimWorkSpace,
\* and FlushSpareBlockToWorkingBlock.
Fitting == {c \in Conts : Fits(c)}
PointConts == {PointThen(c) : c \in Fitting} \cup {PointThen(PointThen(c)) : c \in Fitting}
RestoreConts == {Restore1(s, e) : s \in SpareOK, e \in PointConts}
FlushConts ==
  RestoreConts \cup {f \in {AbortLastOf(RefreshThen(Boot3))} : InBoot}

\* What follows FtwWriteRecord.
WriteEnds == {Restore1(s, DoneOnly) : s \in SpareOK}
CopyConts == {EraseThen(AbortLastOf(Boot7)), EraseThen(<< >>)} \cup WriteEnds
Copies(b, v, y) ==
  \/ InBoot /\ y = EraseThen(AbortLastOf(Boot7))
  \/ InPlain /\ y = EraseThen(<< >>)
  \/ InWrite /\ request = [blk |-> b, val |-> v] /\ y \in WriteEnds

\* The record that FtwWrite or FtwRestart works on.
AtRecord(b, s) == Pointed /\ Held(Cells, s) /\ LastRec = RecordIn(b, s)

\* No driver is running, or it is between two services.
Outside ==
  /\ todo = << >> /\ request = NoRequest
  /\ \/ power = "off"
     \/ power = "on" /\ Quiet /\ Vouched

\* WorkSpaceRefresh.
Refreshing ==
  \/ \E c \in Fitting : todo = RefreshThen(c) /\ (c = Boot2 \/ Vouched)
  \/ \E c \in Fitting : /\ todo \in {PointThen(c), PointThen(PointThen(c))}
                        /\ (c = Boot2 \/ Vouched) /\ Last + 1 < W

\* FtwReclaimWorkSpace.
Reclaiming ==
  \/ \E f \in RestoreConts :
       /\ Sound => Free(Cells)
       /\ \/ \E g \in BOOLEAN : todo \in {Reclaim1(g, f), Reclaim2(g, f)}
          \/ todo \in {Reclaim3(f), Reclaim4(f)}
  \/ \E e \in PointConts, s \in SpareOK :
       /\ Valid /\ Cells = NoCells
       /\ todo \in {Restore1(s, e), Restore2(s, e)}

\* FlushSpareBlockToWorkingBlock.
Flushing ==
  \E f \in FlushConts :
    \/ todo \in {Flush1(f), Flush2(f), Flush3(f)} /\ (Sound => Free(Cells))
    \/ todo = Flush4(f) /\ work = BlankWork
    \/ todo = Flush5(f) /\ work = [sig |-> TRUE, state |-> {}, cells |-> NoCells]

\* The decisions of InitFtwProtocol.
Booting ==
  /\ InBoot
  /\ \/ todo = Boot2 /\ Pointed
     \/ todo = Boot3 /\ Pointed /\ Valid
     \/ /\ todo = Boot4 /\ Valid
        /\ Settled \/ (Pointed /\ \E s \in {{2}, {2, 4}} : Held(Cells, s))
     \/ /\ todo \in {Boot5, Boot6} /\ Valid
        /\ Settled \/ (Pointed /\ Held(Cells, {2}))
     \/ todo = Boot7 /\ Valid /\ Free(Cells)

\* FtwAbort, followed by x.
Aborting ==
  \E x \in BootAborts \cup {<< >>} :
    /\ IF x = << >> THEN InPlain /\ Quiet ELSE InBoot
    /\ Sound => ~Held(Cells, {2})
    /\ Vouched /\ Pointed
    /\ \/ todo = AbortThen(x)
       \/ todo = Copy4(x) /\ ~Free(Cells)

\* FtwRestart, followed by x.
Restarting ==
  \E x \in {AbortLastOf(Boot7), << >>} :
    /\ IF x = << >> THEN InPlain /\ Quiet ELSE InBoot
    /\ Vouched /\ Pointed /\ todo = RestartThen(x)

\* FtwWriteRecord, for the block b and the contents v, and what follows.
Copying ==
  \E b \in Blocks, v \in Values \cup {Garbage}, y \in CopyConts :
    /\ Copies(b, v, y) /\ Vouched
    /\ \/ todo \in {Copy1(b, v, y), Copy2(b, v, y)} /\ AtRecord(b, {2}) /\ spare.val = v
       \/ todo = Copy3(y) /\ AtRecord(b, {2}) /\ spare.val = v /\ target[b] = v
       \/ todo = Copy4(y) /\ AtRecord(b, {2, 4}) /\ target[b] = v
       \/ todo = y /\ Free(Cells) /\ target[b] = v

\* FtwAllocate, followed by x.
Allocating ==
  \E x \in {<< >>, CheckOnly} :
    /\ IF x = << >> THEN InPlain ELSE InWrite
    /\ Vouched /\ Pointed
    /\ \/ todo = AllocateThen(x) /\ Quiet /\ (x = CheckOnly => Free(Cells))
       \/ todo = Alloc1(x) /\ Free(Cells)
       \/ todo = Alloc2(x) /\ Held(Cells, {}) /\ LastRec = Erased
       \/ todo = Alloc3(x) /\ Allocated(Cells)

\* FtwWrite, up to SpareComplete and after FtwWriteRecord.
Writing ==
  /\ InWrite /\ Vouched
  /\ \/ todo \in BeginConts /\ Quiet /\ Pointed
     \/ todo = CheckOnly /\ Quiet /\ Pointed /\ ~Free(Cells)
     \/ \E y \in WriteEnds :
          LET b == request.blk
              v == request.val
          IN  \/ /\ todo = Write1(b, v, y) /\ Pointed /\ Held(Cells, {})
                 /\ Sound => LastRec = Erased
              \/ todo \in {Write2(b, v, y), Write3(b, v, y)} /\ AtRecord(b, {})
              \/ todo = Write4(b, v, y) /\ AtRecord(b, {}) /\ spare.val = v
     \/ \E s \in SpareOK :
          /\ todo \in {Restore2(s, DoneOnly), DoneOnly}
          /\ Free(Cells) /\ target[request.blk] = request.val

\* FtwGetLastWrite.
Looking == InPlain /\ todo = LookOnly /\ Vouched /\ Quiet /\ Pointed

Place ==
  \/ Outside \/ Refreshing \/ Reclaiming \/ Flushing \/ Booting \/ Aborting
  \/ Restarting \/ Copying \/ Allocating \/ Writing \/ Looking

\* The contents of b are in the spare block, and the work space says so.
Unfinished(b) == Valid /\ Held(Cells, {2}) /\ Cells[Last + 1].blk = b

\* Every block has its contents, in its place or in the spare block.
ContentOK ==
  Sound => /\ Valid \/ Free(Cells)
           /\ Held(Cells, {2}) => spare.val \in Values
           /\ \A b \in Blocks : target[b] \in Values \/ Unfinished(b)

FlashOK == LayoutOK(Cells) /\ spare \in SpareOK /\ ContentOK
FtwInv == TypeOK /\ FlashOK /\ Place

-----------------------------------------------------------------------------
(* Sequences of steps *)

IsSeq(s) == \E S : s \in Seq(S)

\* The steps of s, then those of t; then the step x.
Then(s, t) == s \o t
ThenOne(s, x) == Append(s, x)

\* No steps at all.
LEMMA NoSteps == IsSeq(<< >>)
<1>1. << >> \in Seq(BOOLEAN)
  OBVIOUS
<1> QED BY <1>1 DEF IsSeq

\* The first step and what follows it.
LEMMA ConsFacts ==
  ASSUME NEW x, NEW s, IsSeq(s)
  PROVE  /\ IsSeq(Cons(x, s)) /\ Cons(x, s) # << >>
         /\ Head(Cons(x, s)) = x /\ Tail(Cons(x, s)) = s
<1>1. PICK S : s \in Seq(S)
  BY DEF IsSeq
<1> DEFINE T == S \cup {x}
           c == <<x>> \o s
<1>2. s \in Seq(T) /\ <<x>> \in Seq(T) /\ Len(<<x>>) = 1 /\ <<x>>[1] = x
  BY <1>1
<1> HIDE DEF T
<1>3. c \in Seq(T) /\ Len(c) = 1 + Len(s) /\ Len(s) \in Nat
  BY <1>2
<1>4. \A i \in 1..Len(c) : c[i] = IF i = 1 THEN x ELSE s[i - 1]
  BY <1>2, <1>3
<1>5. c # << >> /\ Head(c) = x
  BY <1>3, <1>4
<1>6. Tail(c) = s
  <2>1. Tail(c) \in Seq(T) /\ Len(Tail(c)) = Len(s)
    BY <1>3, <1>5
  <2>2. \A i \in 1..Len(s) : Tail(c)[i] = s[i]
    BY <1>3, <1>4, <1>5
  <2> QED BY <1>2, <2>1, <2>2, SeqEqual
<1> QED BY <1>3, <1>5, <1>6 DEF IsSeq, Cons

\* Programs put one behind the other.
LEMMA ConsAssoc ==
  ASSUME NEW x, NEW s, IsSeq(s), NEW t, IsSeq(t)
  PROVE  Then(Cons(x, s), t) = Cons(x, Then(s, t))
<1>1. PICK S : s \in Seq(S)
  BY DEF IsSeq
<1>2. PICK U : t \in Seq(U)
  BY DEF IsSeq
<1> DEFINE T == S \cup U \cup {x}
<1>3. s \in Seq(T) /\ t \in Seq(T) /\ <<x>> \in Seq(T)
  BY <1>1, <1>2
<1> HIDE DEF T
<1>4. s \o t \in Seq(T) /\ (<<x>> \o s) \o t = <<x>> \o (s \o t)
  BY <1>3, ConcatAssociative
<1> QED BY <1>4 DEF Then, Cons

\* No steps before or after s.
LEMMA EmptyConcat ==
  ASSUME NEW s, IsSeq(s)
  PROVE  Then(<< >>, s) = s /\ Then(s, << >>) = s
<1>1. PICK S : s \in Seq(S)
  BY DEF IsSeq
<1> QED BY <1>1, ConcatEmptySeq DEF Then

\* A program stays one with a step in front.
LEMMA ConsIsSeq ==
  ASSUME NEW x, NEW s, IsSeq(s)
  PROVE  IsSeq(Cons(x, s))
BY ConsFacts

\* Tuples are built from their first element and the rest.
LEMMA Tuple1 ==
  ASSUME NEW a
  PROVE  <<a>> = Cons(a, << >>)
BY DEF Cons

\* The same for one more step.
LEMMA Tuple2 ==
  ASSUME NEW a, NEW b
  PROVE  <<a, b>> = Cons(a, <<b>>)
<1>1. <<a>> \in Seq({a, b}) /\ <<b>> \in Seq({a, b}) /\ <<a, b>> \in Seq({a, b})
  OBVIOUS
<1>2. <<a>> \o <<b>> \in Seq({a, b}) /\ Len(<<a>> \o <<b>>) = 2
  BY <1>1
<1>3. (<<a>> \o <<b>>)[1] = a /\ (<<a>> \o <<b>>)[2] = b
  BY <1>1
<1>4. \A i \in 1..2 : i = 1 \/ i = 2
  OBVIOUS
<1>5. \A i \in 1..Len(<<a>> \o <<b>>) : (<<a>> \o <<b>>)[i] = <<a, b>>[i]
  BY <1>2, <1>3, <1>4
<1>6. Len(<<a, b>>) = 2
  OBVIOUS
<1>7. \A t \in Seq({a, b}) :
        Len(t) = 2 /\ (\A i \in 1..Len(t) : t[i] = <<a, b>>[i]) => t = <<a, b>>
  BY <1>1, <1>6, SeqEqual
<1> QED BY <1>2, <1>5, <1>7 DEF Cons

\* The same for one more step.
LEMMA Tuple3 ==
  ASSUME NEW a, NEW b, NEW c
  PROVE  <<a, b, c>> = Cons(a, <<b, c>>)
BY DEF Cons

\* The same for one more step.
LEMMA Tuple4 ==
  ASSUME NEW a, NEW b, NEW c, NEW d
  PROVE  <<a, b, c, d>> = Cons(a, <<b, c, d>>)
BY DEF Cons

\* The same for one more step.
LEMMA Tuple5 ==
  ASSUME NEW a, NEW b, NEW c, NEW d, NEW e
  PROVE  <<a, b, c, d, e>> = Cons(a, <<b, c, d, e>>)
BY DEF Cons

\* The same for one more step.
LEMMA Tuple6 ==
  ASSUME NEW a, NEW b, NEW c, NEW d, NEW e, NEW f
  PROVE  <<a, b, c, d, e, f>> = Cons(a, <<b, c, d, e, f>>)
BY DEF Cons

\* The same for one more step.
LEMMA Tuple7 ==
  ASSUME NEW a, NEW b, NEW c, NEW d, NEW e, NEW f, NEW g
  PROVE  <<a, b, c, d, e, f, g>> = Cons(a, <<b, c, d, e, f, g>>)
BY DEF Cons

\* FtwAllocate and FtwAbort, with a step behind them.
LEMMA AppendTwo ==
  ASSUME NEW a, NEW b, NEW c
  PROVE  Append(<<a, b>>, c) = <<a, b, c>>
<1>1. <<a, b>> \in Seq({a, b, c}) /\ <<a, b, c>> \in Seq({a, b, c}) /\ c \in {a, b, c}
  OBVIOUS
<1>2. Append(<<a, b>>, c) \in Seq({a, b, c}) /\ Len(Append(<<a, b>>, c)) = 3
  BY <1>1
<1>3. Append(<<a, b>>, c)[1] = a /\ Append(<<a, b>>, c)[2] = b /\ Append(<<a, b>>, c)[3] = c
  BY <1>1
<1>4. \A i \in 1..3 : i = 1 \/ i = 2 \/ i = 3
  OBVIOUS
<1>5. \A i \in 1..Len(Append(<<a, b>>, c)) : Append(<<a, b>>, c)[i] = <<a, b, c>>[i]
  BY <1>2, <1>3, <1>4
<1>6. Len(<<a, b, c>>) = 3
  OBVIOUS
<1>7. \A t \in Seq({a, b, c}) :
        Len(t) = 3 /\ (\A i \in 1..Len(t) : t[i] = <<a, b, c>>[i]) => t = <<a, b, c>>
  BY <1>1, <1>6, SeqEqual
<1> QED BY <1>2, <1>5, <1>7

\* One more step in front of the steps r, with k behind them.
LEMMA Longer ==
  ASSUME NEW a, NEW r, IsSeq(r), NEW k, IsSeq(k), NEW m, Then(r, k) = m, NEW l, l = Cons(a, r)
  PROVE  IsSeq(l) /\ Then(l, k) = Cons(a, m)
<1>1. IsSeq(Cons(a, r))
  BY ConsIsSeq
<1>2. Then(Cons(a, r), k) = Cons(a, Then(r, k))
  BY ConsAssoc
<1> QED BY <1>1, <1>2

\* What a tuple of steps puts in front of the steps k.
LEMMA Run1 ==
  ASSUME NEW a, NEW k, IsSeq(k)
  PROVE  IsSeq(<<a>>) /\ Then(<<a>>, k) = Cons(a, k)
<1>1. IsSeq(<<a>>)
  BY Tuple1, NoSteps, ConsFacts
<1> QED BY <1>1 DEF Cons, Then

\* The same for one more step.
LEMMA Run2 ==
  ASSUME NEW a, NEW b, NEW k, IsSeq(k)
  PROVE  IsSeq(<<a, b>>) /\ Then(<<a, b>>, k) = Cons(a, Cons(b, k))
<1>1. IsSeq(<<b>>)
  BY Run1, Zenon
<1>2. Then(<<b>>, k) = Cons(b, k)
  BY Run1, Zenon
<1>3. <<a, b>> = Cons(a, <<b>>)
  BY Tuple2, Zenon
<1> QED BY <1>1, <1>2, <1>3, Longer

\* The same for one more step.
LEMMA Run3 ==
  ASSUME NEW a, NEW b, NEW c, NEW k, IsSeq(k)
  PROVE  IsSeq(<<a, b, c>>) /\ Then(<<a, b, c>>, k) = Cons(a, Cons(b, Cons(c, k)))
<1>1. IsSeq(<<b, c>>)
  BY Run2
<1>2. Then(<<b, c>>, k) = Cons(b, Cons(c, k))
  BY Run2
<1>3. <<a, b, c>> = Cons(a, <<b, c>>)
  BY Tuple3, Zenon
<1> QED BY <1>1, <1>2, <1>3, Longer

\* The same for one more step.
LEMMA Run4 ==
  ASSUME NEW a, NEW b, NEW c, NEW d, NEW k, IsSeq(k)
  PROVE  IsSeq(<<a, b, c, d>>) /\ Then(<<a, b, c, d>>, k) = Cons(a, Cons(b, Cons(c, Cons(d, k))))
<1>1. IsSeq(<<b, c, d>>)
  BY Run3
<1>2. Then(<<b, c, d>>, k) = Cons(b, Cons(c, Cons(d, k)))
  BY Run3
<1>3. <<a, b, c, d>> = Cons(a, <<b, c, d>>)
  BY Tuple4, Zenon
<1> QED BY <1>1, <1>2, <1>3, Longer

\* The same for one more step.
LEMMA Run5 ==
  ASSUME NEW a, NEW b, NEW c, NEW d, NEW e, NEW k, IsSeq(k)
  PROVE  /\ IsSeq(<<a, b, c, d, e>>)
         /\ Then(<<a, b, c, d, e>>, k) = Cons(a, Cons(b, Cons(c, Cons(d, Cons(e, k)))))
<1>1. IsSeq(<<b, c, d, e>>)
  BY Run4
<1>2. Then(<<b, c, d, e>>, k) = Cons(b, Cons(c, Cons(d, Cons(e, k))))
  BY Run4
<1>3. <<a, b, c, d, e>> = Cons(a, <<b, c, d, e>>)
  BY Tuple5, Zenon
<1> QED BY <1>1, <1>2, <1>3, Longer

\* A callee of a callee: the order in which programs are joined does not matter.
LEMMA ConcatAssoc ==
  ASSUME NEW s, IsSeq(s), NEW t, IsSeq(t), NEW k, IsSeq(k)
  PROVE  Then(Then(s, t), k) = Then(s, Then(t, k))
<1>1. PICK S : s \in Seq(S)
  BY DEF IsSeq
<1>2. PICK U : t \in Seq(U)
  BY DEF IsSeq
<1>3. PICK V : k \in Seq(V)
  BY DEF IsSeq
<1> DEFINE T == S \cup U \cup V
<1>4. s \in Seq(T) /\ t \in Seq(T) /\ k \in Seq(T)
  BY <1>1, <1>2, <1>3
<1> HIDE DEF T
<1>5. (s \o t) \o k = s \o (t \o k)
  BY <1>4, ConcatAssociative, SMTT(60)
<1> QED BY <1>5, Zenon DEF Then

\* Two programs joined are one.
LEMMA ConcatIsSeq ==
  ASSUME NEW s, IsSeq(s), NEW t, IsSeq(t)
  PROVE  IsSeq(Then(s, t))
<1>1. PICK S : s \in Seq(S)
  BY DEF IsSeq
<1>2. PICK U : t \in Seq(U)
  BY DEF IsSeq
<1> DEFINE T == S \cup U
<1>3. s \in Seq(T) /\ t \in Seq(T)
  BY <1>1, <1>2
<1> HIDE DEF T
<1>4. s \o t \in Seq(T)
  BY <1>3
<1> QED BY <1>4 DEF IsSeq, Then

\* A step at the end is a program of one step at the end.
LEMMA ThenOneFacts ==
  ASSUME NEW x, NEW s, IsSeq(s)
  PROVE  ThenOne(s, x) = Then(s, <<x>>)
<1>1. PICK S : s \in Seq(S)
  BY DEF IsSeq
<1> DEFINE T == S \cup {x}
<1>4. s \in Seq(T) /\ x \in T /\ <<x>> \in Seq(T)
  BY <1>1
<1> HIDE DEF T
<1>5. Append(s, x) \in Seq(T) /\ s \o <<x>> \in Seq(T)
  BY <1>4
<1>6. Len(Append(s, x)) = Len(s) + 1 /\ Len(s \o <<x>>) = Len(s) + 1
  BY <1>4
<1>7. \A i \in 1..(Len(s) + 1) : Append(s, x)[i] = (s \o <<x>>)[i]
  BY <1>4
<1> QED BY <1>5, <1>6, <1>7, SeqEqual DEF Then, ThenOne

-----------------------------------------------------------------------------
(* The programs *)

\* FtwAbort, called before k.
LEMMA AbortProgram ==
  ASSUME NEW k, IsSeq(k)
  PROVE  Then(FtwAbort, k) = AbortLastOf(k) /\ IsSeq(FtwAbort)
BY Run2 DEF FtwAbort, AbortLastOf, RefreshThen, AbortThen

\* FtwRestart and FtwAbort, as InitFtwProtocol calls them before k.
LEMMA RestartProgram ==
  ASSUME NEW k, IsSeq(k)
  PROVE  Then(FtwRestart \o FtwAbort, k) = RefreshThen(RestartThen(AbortLastOf(k)))
<1>1. IsSeq(FtwRestart)
  BY Run2, NoSteps DEF FtwRestart
<1>2. IsSeq(FtwAbort)
  BY AbortProgram
<1>3. IsSeq(AbortLastOf(k))
  BY ConsIsSeq DEF AbortLastOf, RefreshThen, AbortThen
<1>4. Then(Then(FtwRestart, FtwAbort), k) = Then(FtwRestart, Then(FtwAbort, k))
  BY <1>1, <1>2, ConcatAssoc
<1>5. Then(FtwAbort, k) = AbortLastOf(k)
  BY AbortProgram
<1>6. Then(FtwRestart, AbortLastOf(k)) = RefreshThen(RestartThen(AbortLastOf(k)))
  BY <1>3, Run2 DEF FtwRestart, RefreshThen, RestartThen
<1>7. Then(FtwRestart, FtwAbort) = FtwRestart \o FtwAbort
  BY DEF Then
<1> QED BY <1>4, <1>5, <1>6, <1>7

\* FlushSpareBlockToWorkingBlock, called before k.
LEMMA FlushProgram ==
  ASSUME NEW k, IsSeq(k)
  PROVE  Then(FlushSpareBlockToWorkingBlock(NoCells), k) = Flush1(k)
         /\ IsSeq(FlushSpareBlockToWorkingBlock(NoCells))
BY Run5 DEF FlushSpareBlockToWorkingBlock, Flush1, Flush2, Flush3, Flush4, Flush5

\* InitFtwProtocol makes the working block from its copy in the spare block, and goes on with k.
LEMMA ValidateProgram ==
  ASSUME NEW k, IsSeq(k)
  PROVE  Then(FlushSpareBlockToWorkingBlock(NoCells) \o Append(FtwAbort, Refresh), k)
           = Flush1(AbortLastOf(RefreshThen(k)))
<1> DEFINE p == Append(FtwAbort, Refresh)
           q == FlushSpareBlockToWorkingBlock(NoCells)
<1>1. p = <<Refresh, Step("Abort"), Refresh>>
  BY AppendTwo DEF FtwAbort
<1>2. IsSeq(p)
  BY <1>1, Run3
<1>3. Then(p, k) = AbortLastOf(RefreshThen(k))
  BY <1>1, Run3 DEF AbortLastOf, RefreshThen, AbortThen
<1>4. IsSeq(AbortLastOf(RefreshThen(k)))
  <2>1. IsSeq(RefreshThen(k))
    BY ConsIsSeq DEF RefreshThen
  <2> QED BY <2>1, ConsIsSeq DEF AbortLastOf, AbortThen, RefreshThen
<1>5. IsSeq(q)
  BY FlushProgram, NoSteps
<1>6. Then(q, AbortLastOf(RefreshThen(k))) = Flush1(AbortLastOf(RefreshThen(k)))
  BY <1>4, FlushProgram
<1>7. Then(q, p) = q \o p
  BY DEF Then
<1> HIDE DEF p, q
<1>8. Then(Then(q, p), k) = Then(q, Then(p, k))
  BY <1>2, <1>5, ConcatAssoc
<1>9. Then(q \o p, k) = Flush1(AbortLastOf(RefreshThen(k)))
  BY <1>3, <1>6, <1>7, <1>8
<1> QED BY <1>9 DEF p, q

\* FtwReclaimWorkSpace, called before k, and from WorkSpaceRefresh.
LEMMA ReclaimProgram ==
  ASSUME NEW k, IsSeq(k), NEW g
  PROVE  LET p == FtwReclaimWorkSpace(NoCells, g)
         IN  /\ Then(p, k) = Reclaim1(g, Restore1(spare, PointThen(k)))
             /\ Then(Append(p, Point), k) = Reclaim1(g, Restore1(spare, PointThen(PointThen(k))))
<1> DEFINE a == <<EraseSpare, WriteSpare(Copy([sig |-> g, state |-> {}, cells |-> NoCells])),
                  SpareBit(WORKING_BLOCK_VALID), WorkBit(WORKING_BLOCK_INVALID)>>
           b == FlushSpareBlockToWorkingBlock(NoCells)
           c == <<EraseSpare, WriteSpare(spare), Point>>
           p == Then(Then(a, b), c)
<1>0. FtwReclaimWorkSpace(NoCells, g) = p
  BY DEF FtwReclaimWorkSpace, Then
<1>1. IsSeq(a) /\ IsSeq(b) /\ IsSeq(c)
  BY Run3, Run4, FlushProgram, NoSteps
<1>2. ASSUME NEW j, IsSeq(j)
      PROVE  Then(a, Flush1(j)) = Reclaim1(g, j) /\ IsSeq(Flush1(j))
  <2>1. IsSeq(Flush1(j))
    BY <1>2, ConsIsSeq DEF Flush1, Flush2, Flush3, Flush4, Flush5
  <2> QED BY <2>1, Run4 DEF Reclaim1, Reclaim2, Reclaim3, Reclaim4
<1>3. ASSUME NEW j, IsSeq(j)
      PROVE  Then(c, j) = Restore1(spare, PointThen(j)) /\ IsSeq(Restore1(spare, PointThen(j)))
  <2>1. Then(c, j) = Restore1(spare, PointThen(j))
    BY <1>3, Run3 DEF Restore1, Restore2, PointThen
  <2> QED BY <1>3, <2>1, ConsIsSeq DEF Restore1, Restore2, PointThen
<1>b. ASSUME NEW j, IsSeq(j)
      PROVE  Then(b, j) = Flush1(j)
  BY <1>b, FlushProgram
<1> HIDE DEF a, b, c
<1>4. IsSeq(p) /\ IsSeq(Then(a, b))
  BY <1>1, ConcatIsSeq
<1>5. ASSUME NEW j, IsSeq(j)
      PROVE  Then(p, j) = Reclaim1(g, Restore1(spare, PointThen(j)))
  <2>1. Then(p, j) = Then(Then(a, b), Then(c, j))
    BY <1>1, <1>4, <1>5, ConcatAssoc
  <2>2. Then(Then(a, b), Then(c, j)) = Then(a, Then(b, Then(c, j)))
    BY <1>1, <1>3, <1>5, ConcatAssoc
  <2>3. Then(b, Then(c, j)) = Flush1(Restore1(spare, PointThen(j)))
    BY <1>3, <1>5, <1>b
  <2> QED BY <1>2, <1>3, <1>5, <2>1, <2>2, <2>3
<1>6. Then(p, k) = Reclaim1(g, Restore1(spare, PointThen(k)))
  BY <1>5
<1> HIDE DEF p
<1>7. Then(Append(p, Point), k) = Then(p, PointThen(k)) /\ IsSeq(PointThen(k))
  <2>1. IsSeq(<<Point>>) /\ Then(<<Point>>, k) = PointThen(k)
    BY Run1 DEF PointThen
  <2>2. IsSeq(PointThen(k))
    BY ConsIsSeq DEF PointThen
  <2>3. ThenOne(p, Point) = Then(p, <<Point>>)
    BY <1>4, ThenOneFacts
  <2>5. ThenOne(p, Point) = Append(p, Point)
    BY DEF ThenOne
  <2>4. Then(Then(p, <<Point>>), k) = Then(p, Then(<<Point>>, k))
    BY <1>4, <2>1, ConcatAssoc
  <2> QED BY <2>1, <2>2, <2>3, <2>4, <2>5
<1>8. Then(p, PointThen(k)) = Reclaim1(g, Restore1(spare, PointThen(PointThen(k))))
  BY <1>5, <1>7
<1> QED BY <1>0, <1>6, <1>7, <1>8

\* FtwAllocate writes a header, called before k.
LEMMA AllocateProgram ==
  ASSUME NEW k, IsSeq(k)
  PROVE  Then(<< >> \o <<WriteCell(FtwLastWriteHeader, Header(1)),
                         CellBit(FtwLastWriteHeader, WRITES_ALLOCATED),
                         [do |-> "AllocateDone", num |-> 1]>>, k) = Alloc1(k)
<1> DEFINE p == <<WriteCell(FtwLastWriteHeader, Header(1)),
                  CellBit(FtwLastWriteHeader, WRITES_ALLOCATED),
                  [do |-> "AllocateDone", num |-> 1]>>
<1>1. IsSeq(p) /\ Then(p, k) = Alloc1(k)
  BY Run3 DEF Alloc1, Alloc2, Alloc3
<1>2. Then(<< >>, p) = << >> \o p
  BY DEF Then
<1> HIDE DEF p
<1>3. Then(<< >>, p) = p
  BY <1>1, EmptyConcat
<1>4. Then(<< >> \o p, k) = Alloc1(k)
  BY <1>1, <1>2, <1>3
<1> QED BY <1>4 DEF p

\* FtwWriteRecord, called before k by FtwWrite and by FtwRestart.
LEMMA CopyProgram ==
  ASSUME NEW k, IsSeq(k), NEW b, NEW v, IsLastRecordOfWrites
  PROVE  /\ Then(FtwWriteRecord(b, v), k) = Copy1(b, v, k) /\ IsSeq(FtwWriteRecord(b, v))
         /\ Then(Append(FtwWriteRecord(b, v), EraseSpare), k) = Copy1(b, v, EraseThen(k))
<1> DEFINE p == <<EraseTarget(b), WriteTarget(b, v), CellBit(FtwLastWriteRecord, DEST_COMPLETED)>>
           q == <<CellBit(FtwLastWriteHeader, WRITES_COMPLETED)>>
           r == FtwWriteRecord(b, v)
<1>1. r = Then(p, q)
  BY DEF FtwWriteRecord, Then
<1>2. IsSeq(p) /\ IsSeq(q) /\ IsSeq(<<EraseSpare>>)
  BY Run1, Run3, NoSteps
<1>3. ASSUME NEW j, IsSeq(j)
      PROVE  Then(p, Then(q, j)) = Copy1(b, v, j)
  <2>1. Then(q, j) = Copy4(j)
    BY <1>3, Run1 DEF Copy4
  <2>2. IsSeq(Copy4(j))
    BY <1>3, ConsIsSeq DEF Copy4
  <2>3. Then(p, Copy4(j)) = Copy1(b, v, j)
    BY <2>2, Run3 DEF Copy1, Copy2, Copy3
  <2> QED BY <2>1, <2>3
<1> HIDE DEF p, q, r
<1>4. IsSeq(r)
  BY <1>1, <1>2, ConcatIsSeq
<1>5. ASSUME NEW j, IsSeq(j)
      PROVE  Then(r, j) = Copy1(b, v, j)
  <2>1. Then(Then(p, q), j) = Then(p, Then(q, j))
    BY <1>2, <1>5, ConcatAssoc
  <2> QED BY <1>1, <1>3, <1>5, <2>1
<1>6. Then(<<EraseSpare>>, k) = EraseThen(k) /\ IsSeq(EraseThen(k))
  <2>1. Then(<<EraseSpare>>, k) = EraseThen(k)
    BY Run1 DEF EraseThen
  <2> QED BY <2>1, ConsIsSeq DEF EraseThen
<1>7. Then(Append(r, EraseSpare), k) = Then(r, EraseThen(k))
  <2>1. ThenOne(r, EraseSpare) = Then(r, <<EraseSpare>>)
    BY <1>4, ThenOneFacts
  <2>3. ThenOne(r, EraseSpare) = Append(r, EraseSpare)
    BY DEF ThenOne
  <2>2. Then(Then(r, <<EraseSpare>>), k) = Then(r, Then(<<EraseSpare>>, k))
    BY <1>2, <1>4, ConcatAssoc
  <2> QED BY <1>6, <2>1, <2>2, <2>3
<1>8. Then(r, k) = Copy1(b, v, k) /\ Then(Append(r, EraseSpare), k) = Copy1(b, v, EraseThen(k))
  BY <1>5, <1>6, <1>7
<1> QED BY <1>4, <1>8 DEF r

\* FtwWrite from its check on.
LEMMA WriteProgram ==
  ASSUME NEW b, NEW v, IsLastRecordOfWrites
  PROVE  Then(<<WriteCell(FtwLastWriteRecord, Record(b)), EraseSpare, WriteSpare(Data(v)),
                CellBit(FtwLastWriteRecord, SPARE_COMPLETED)>>
              \o FtwWriteRecord(b, v)
              \o <<EraseSpare, WriteSpare(spare), Step("WriteDone")>>, << >>)
         = Write1(b, v, Restore1(spare, DoneOnly))
<1> DEFINE p == <<WriteCell(FtwLastWriteRecord, Record(b)), EraseSpare, WriteSpare(Data(v)),
                  CellBit(FtwLastWriteRecord, SPARE_COMPLETED)>>
           r == FtwWriteRecord(b, v)
           q == <<EraseSpare, WriteSpare(spare), Step("WriteDone")>>
           y == Restore1(spare, DoneOnly)
<1>1. IsSeq(p) /\ IsSeq(q) /\ IsSeq(r)
  BY Run3, Run4, NoSteps, CopyProgram
<1>2. Then(q, << >>) = y
  BY Run3, NoSteps DEF Restore1, Restore2, DoneOnly
<1>3. IsSeq(y)
  BY NoSteps, ConsIsSeq DEF Restore1, Restore2, DoneOnly
<1>4. Then(r, y) = Copy1(b, v, y)
  BY <1>3, CopyProgram
<1>5. IsSeq(Copy1(b, v, y))
  <2> HIDE DEF y
  <2> QED BY <1>3, ConsIsSeq DEF Copy1, Copy2, Copy3, Copy4
<1>6. Then(p, Copy1(b, v, y)) = Write1(b, v, y)
  <2> HIDE DEF y
  <2> QED BY <1>5, Run4 DEF Write1, Write2, Write3, Write4
<1>7. (p \o r) \o q = Then(Then(p, r), q)
  BY DEF Then
<1> HIDE DEF p, q, r, y
<1>8. IsSeq(Then(p, r))
  BY <1>1, ConcatIsSeq
<1>9. Then(Then(Then(p, r), q), << >>) = Then(Then(p, r), Then(q, << >>))
  BY <1>1, <1>8, NoSteps, ConcatAssoc
<1>10. Then(Then(p, r), y) = Then(p, Then(r, y))
  BY <1>1, <1>3, ConcatAssoc
<1>11. Then((p \o r) \o q, << >>) = Write1(b, v, y)
  BY <1>2, <1>4, <1>6, <1>7, <1>9, <1>10
<1> QED BY <1>11 DEF p, q, r, y

\* The services and InitFtwProtocol begin with a WorkSpaceRefresh.
LEMMA ServicePrograms ==
  /\ InitFtwProtocol = RefreshThen(Boot2)
  /\ FtwAllocate(1) = RefreshThen(AllocateThen(<< >>))
  /\ FtwRestart = RefreshThen(RestartThen(<< >>))
  /\ FtwAbort = RefreshThen(AbortThen(<< >>))
  /\ <<Refresh, Step("GetLastWrite")>> = RefreshThen(LookOnly)
  /\ \A p : <<Refresh, [do |-> "WriteBegin", private |-> p]>> = RefreshThen(WriteBeginWith(p))
  /\ Then(Append(FtwAllocate(1), Step("WriteCheck")), << >>) = RefreshThen(AllocateThen(CheckOnly))
  /\ Then(<<Step("WriteCheck")>>, << >>) = CheckOnly
<1>1. \A a, b : <<a, b>> = Cons(a, Cons(b, << >>))
  BY Tuple1, Tuple2, Tuple3, Tuple4, Tuple5, Tuple6, Tuple7, AppendTwo
<1>2. InitFtwProtocol = RefreshThen(Boot2)
  BY Tuple1, Tuple2, Tuple3, Tuple4, Tuple5, Tuple6, Tuple7, AppendTwo
     DEF InitFtwProtocol, RefreshThen, Boot2, Boot3, Boot4, Boot5, Boot6, Boot7
<1>3. Then(Append(FtwAllocate(1), Step("WriteCheck")), << >>) = RefreshThen(AllocateThen(CheckOnly))
  <2>1. Append(FtwAllocate(1), Step("WriteCheck"))
          = <<Refresh, [do |-> "Allocate", num |-> 1], Step("WriteCheck")>>
    BY AppendTwo DEF FtwAllocate
  <2>2. Then(<<Refresh, [do |-> "Allocate", num |-> 1], Step("WriteCheck")>>, << >>)
          = RefreshThen(AllocateThen(CheckOnly))
    BY Run3, NoSteps DEF RefreshThen, AllocateThen, CheckOnly
  <2> QED BY <2>1, <2>2
<1>4. Then(<<Step("WriteCheck")>>, << >>) = CheckOnly
  BY Run1, NoSteps DEF CheckOnly
<1>5. FtwAllocate(1) = RefreshThen(AllocateThen(<< >>))
  BY <1>1 DEF FtwAllocate, RefreshThen, AllocateThen
<1>6. FtwRestart = RefreshThen(RestartThen(<< >>)) /\ FtwAbort = RefreshThen(AbortThen(<< >>))
  BY <1>1 DEF FtwRestart, FtwAbort, RefreshThen, RestartThen, AbortThen
<1>7. <<Refresh, Step("GetLastWrite")>> = RefreshThen(LookOnly)
  BY <1>1 DEF RefreshThen, LookOnly
<1>8. \A p : <<Refresh, [do |-> "WriteBegin", private |-> p]>> = RefreshThen(WriteBeginWith(p))
  BY <1>1 DEF RefreshThen, WriteBeginWith
<1> QED BY <1>2, <1>3, <1>4, <1>5, <1>6, <1>7, <1>8

-----------------------------------------------------------------------------
(* One step of the driver *)

\* The next step, and the steps behind it.
LEMMA Taking ==
  ASSUME NEW x, NEW s, IsSeq(s), todo = Cons(x, s)
  PROVE  todo # << >> /\ Op = x /\ Tail(todo) = s /\ \A z : At(z) <=> x.do = z
<1>1. todo # << >> /\ Head(todo) = x /\ Tail(todo) = s
  BY ConsFacts
<1> QED BY <1>1 DEF At, Op

\* Every action is for one kind of step.
LEMMA Kinds ==
  /\ DoEraseSpare => At("EraseSpare")
  /\ DoWriteSpare => At("WriteSpare")
  /\ DoSpareBit => At("SpareBit")
  /\ DoWorkBit => At("WorkBit")
  /\ DoEraseWork => At("EraseWork")
  /\ DoWriteWork => At("WriteWork")
  /\ DoWriteCell => At("WriteCell")
  /\ DoCellBit => At("CellBit")
  /\ DoEraseTarget => At("EraseTarget")
  /\ DoWriteTarget => At("WriteTarget")
  /\ PointStep => At("Point")
  /\ WorkSpaceRefresh => At("Refresh")
  /\ Allocate => At("Allocate")
  /\ AllocateDone => At("AllocateDone")
  /\ WriteBegin => At("WriteBegin")
  /\ WriteCheck => At("WriteCheck")
  /\ WriteDone => At("WriteDone")
  /\ Restart => At("Restart")
  /\ Abort => At("Abort")
  /\ GetLastWrite => At("GetLastWrite")
  /\ Validate => At("Validate")
  /\ AbortFirst => At("AbortFirst")
  /\ AbortLast => At("AbortLast")
  /\ CheckEmpty => At("CheckEmpty")
  /\ RestartPending => At("RestartPending")
  /\ Hook => At("Hook")
BY DEF DoEraseSpare, DoWriteSpare, DoSpareBit, DoWorkBit, DoEraseWork, DoWriteWork, DoWriteCell,
       DoCellBit, DoEraseTarget, DoWriteTarget, PointStep, WorkSpaceRefresh, Allocate, AllocateDone,
       WriteBegin, WriteCheck, WriteDone, Restart, Abort, GetLastWrite, Validate, AbortFirst,
       AbortLast, CheckEmpty, RestartPending, Hook, Decide

\* The driver takes the step that is next.
LEMMA Dispatch ==
  ASSUME Driver, NEW x, NEW s, IsSeq(s), todo = Cons(x, s)
  PROVE  /\ x.do = "EraseSpare" => DoEraseSpare
         /\ x.do = "WriteSpare" => DoWriteSpare
         /\ x.do = "SpareBit" => DoSpareBit
         /\ x.do = "WorkBit" => DoWorkBit
         /\ x.do = "EraseWork" => DoEraseWork
         /\ x.do = "WriteWork" => DoWriteWork
         /\ x.do = "WriteCell" => DoWriteCell
         /\ x.do = "CellBit" => DoCellBit
         /\ x.do = "EraseTarget" => DoEraseTarget
         /\ x.do = "WriteTarget" => DoWriteTarget
         /\ x.do = "Point" => PointStep
         /\ x.do = "Refresh" => WorkSpaceRefresh
         /\ x.do = "Allocate" => Allocate
         /\ x.do = "AllocateDone" => AllocateDone
         /\ x.do = "WriteBegin" => WriteBegin
         /\ x.do = "WriteCheck" => WriteCheck
         /\ x.do = "WriteDone" => WriteDone
         /\ x.do = "Restart" => Restart
         /\ x.do = "Abort" => Abort
         /\ x.do = "GetLastWrite" => GetLastWrite
         /\ x.do = "Validate" => Validate
         /\ x.do = "AbortFirst" => AbortFirst
         /\ x.do = "AbortLast" => AbortLast
         /\ x.do = "CheckEmpty" => CheckEmpty
         /\ x.do = "RestartPending" => RestartPending
         /\ x.do = "Hook" => Hook
<1>1. \A z : At(z) <=> x.do = z
  BY Taking
<1>2. FlashStep \/ DriverStep
  BY DEF Driver
<1> QED BY <1>1, <1>2, Kinds DEF FlashStep, DriverStep

\* Nothing is put in front of the steps that are left.
LEMMA NothingThen ==
  ASSUME NEW s, IsSeq(s)
  PROVE  Then(<< >>, s) = s
BY EmptyConcat

\* Everything that may follow a step is a program.
LEMMA BootSeqs ==
  IsSeq(Boot2) /\ IsSeq(Boot3) /\ IsSeq(Boot4) /\ IsSeq(Boot5) /\ IsSeq(Boot6) /\ IsSeq(Boot7)
<1>1. IsSeq(Boot7)
  BY NoSteps, ConsIsSeq DEF Boot7
<1>2. IsSeq(Boot6)
  BY <1>1, ConsIsSeq DEF Boot6
<1>3. IsSeq(Boot5)
  BY <1>2, ConsIsSeq DEF Boot5
<1>4. IsSeq(Boot4)
  BY <1>3, ConsIsSeq DEF Boot4
<1>5. IsSeq(Boot3)
  BY <1>4, ConsIsSeq DEF Boot3
<1>6. IsSeq(Boot2)
  BY <1>5, ConsIsSeq DEF Boot2
<1> QED BY <1>1, <1>2, <1>3, <1>4, <1>5, <1>6

\* A step in front of a program makes a program.
LEMMA PlainSeqs ==
  ASSUME NEW x, IsSeq(x)
  PROVE  IsSeq(RefreshThen(x)) /\ IsSeq(PointThen(x)) /\ IsSeq(AbortThen(x)) /\ IsSeq(RestartThen(x))
         /\ IsSeq(AllocateThen(x)) /\ IsSeq(AbortLastOf(x)) /\ IsSeq(EraseThen(x))
<1>1. IsSeq(RefreshThen(x)) /\ IsSeq(PointThen(x)) /\ IsSeq(AbortThen(x)) /\ IsSeq(RestartThen(x))
      /\ IsSeq(AllocateThen(x)) /\ IsSeq(EraseThen(x))
  BY ConsIsSeq DEF RefreshThen, PointThen, AbortThen, RestartThen, AllocateThen, EraseThen
<1>2. IsSeq(AbortLastOf(x))
  BY <1>1, ConsIsSeq DEF AbortLastOf, RefreshThen
<1> QED BY <1>1, <1>2

\* The last steps of the services are programs.
LEMMA EndSeqs ==
  IsSeq(CheckOnly) /\ IsSeq(DoneOnly) /\ IsSeq(LookOnly) /\ \A p : IsSeq(WriteBeginWith(p))
BY NoSteps, ConsIsSeq DEF CheckOnly, DoneOnly, LookOnly, WriteBeginWith

\* What follows FtwAbort in InitFtwProtocol is a program, and not empty.
LEMMA AbortSeqs == \A x \in BootAborts : IsSeq(x) /\ x # << >>
<1>1. IsSeq(RefreshThen(Boot3))
  BY BootSeqs, PlainSeqs
<1>2. \A x \in BootAborts : IsSeq(x)
  BY <1>1, BootSeqs, Zenon DEF BootAborts
<1>3. Boot4 # << >> /\ Boot5 # << >> /\ Boot7 # << >> /\ RefreshThen(Boot3) # << >>
  BY BootSeqs, NoSteps, ConsFacts DEF Boot4, Boot5, Boot7, RefreshThen
<1> QED BY <1>2, <1>3, Zenon DEF BootAborts

\* What follows WorkSpaceRefresh is a program.
LEMMA ContSeqs == \A c \in Conts : IsSeq(c)
<1>1. IsSeq(RestartThen(AbortLastOf(Boot7)))
  BY BootSeqs, PlainSeqs
<1>2. \A x \in BootAborts : IsSeq(AbortThen(x))
  BY AbortSeqs, PlainSeqs
<1>3. \A c \in BootConts : IsSeq(c)
  BY <1>1, <1>2, BootSeqs, Zenon DEF BootConts
<1>4. IsSeq(AllocateThen(<< >>)) /\ IsSeq(RestartThen(<< >>)) /\ IsSeq(AbortThen(<< >>))
  BY NoSteps, PlainSeqs
<1>5. \A c \in PlainConts : IsSeq(c)
  BY <1>4, EndSeqs, Zenon DEF PlainConts
<1>6. \A c \in BeginConts : IsSeq(c)
  BY EndSeqs, Zenon DEF BeginConts
<1>7. IsSeq(AllocateThen(CheckOnly))
  BY EndSeqs, PlainSeqs
<1> QED BY <1>3, <1>5, <1>6, <1>7, Zenon DEF Conts

\* So is what fits the state.
LEMMA FittingSeqs ==
  ASSUME NEW c \in Fitting
  PROVE  c \in Conts /\ Fits(c) /\ IsSeq(c) /\ IsSeq(PointThen(c)) /\ IsSeq(PointThen(PointThen(c)))
<1>1. c \in Conts /\ Fits(c)
  BY DEF Fitting
<1>2. IsSeq(c)
  BY <1>1, ContSeqs
<1>3. IsSeq(PointThen(c))
  BY <1>2, PlainSeqs
<1>4. IsSeq(PointThen(PointThen(c)))
  BY <1>3, PlainSeqs
<1> QED BY <1>1, <1>2, <1>3, <1>4

\* The spare block is restored, and e follows.
LEMMA RestoreSeqs ==
  ASSUME NEW s, NEW e, IsSeq(e)
  PROVE  IsSeq(Restore2(s, e)) /\ IsSeq(Restore1(s, e))
<1>1. IsSeq(Restore2(s, e))
  BY ConsIsSeq DEF Restore2
<1> QED BY <1>1, ConsIsSeq DEF Restore1

\* What follows FtwReclaimWorkSpace is a program.
LEMMA PointSeqs == \A e \in PointConts : IsSeq(e)
<1> SUFFICES ASSUME NEW e \in PointConts
             PROVE  IsSeq(e)
  OBVIOUS
<1>1. PICK c \in Fitting : e = PointThen(c) \/ e = PointThen(PointThen(c))
  BY Zenon DEF PointConts
<1> QED BY <1>1, FittingSeqs

\* What follows FlushSpareBlockToWorkingBlock is a program.
LEMMA FlushContSeqs ==
  /\ \A f \in RestoreConts : IsSeq(f)
  /\ \A f \in FlushConts : IsSeq(f)
<1>1. ASSUME NEW f \in RestoreConts
      PROVE  IsSeq(f)
  <2>1. PICK s \in SpareOK, e \in PointConts : f = Restore1(s, e)
    BY SMT DEF RestoreConts
  <2> QED BY <2>1, PointSeqs, RestoreSeqs
<1>2. IsSeq(AbortLastOf(RefreshThen(Boot3)))
  BY BootSeqs, PlainSeqs
<1>3. \A f \in FlushConts : f \in RestoreConts \/ f = AbortLastOf(RefreshThen(Boot3))
  BY Zenon DEF FlushConts
<1> QED BY <1>1, <1>2, <1>3

\* What follows FtwWriteRecord is a program.
LEMMA CopySeqs ==
  /\ \A y \in WriteEnds : IsSeq(y)
  /\ \A y \in CopyConts : IsSeq(y)
<1>1. ASSUME NEW y \in WriteEnds
      PROVE  IsSeq(y)
  <2>1. PICK s \in SpareOK : y = Restore1(s, DoneOnly)
    BY Zenon DEF WriteEnds
  <2> QED BY <2>1, EndSeqs, RestoreSeqs
<1>2. IsSeq(EraseThen(AbortLastOf(Boot7)))
  BY BootSeqs, PlainSeqs
<1>3. IsSeq(EraseThen(<< >>))
  BY NoSteps, PlainSeqs
<1>4. \A y \in CopyConts : y \in WriteEnds \/ y = EraseThen(AbortLastOf(Boot7)) \/ y = EraseThen(<< >>)
  BY Zenon DEF CopyConts
<1> QED BY <1>1, <1>2, <1>3, <1>4

\* The steps of FtwReclaimWorkSpace are programs.
LEMMA FlushSeqs ==
  ASSUME NEW f, IsSeq(f)
  PROVE  /\ IsSeq(Flush5(f)) /\ IsSeq(Flush4(f)) /\ IsSeq(Flush3(f)) /\ IsSeq(Flush2(f))
         /\ IsSeq(Flush1(f)) /\ IsSeq(Reclaim4(f)) /\ IsSeq(Reclaim3(f))
         /\ \A g : IsSeq(Reclaim2(g, f))
<1>1. IsSeq(Flush5(f))
  BY ConsIsSeq DEF Flush5
<1>2. IsSeq(Flush4(f))
  BY <1>1, ConsIsSeq DEF Flush4
<1>3. IsSeq(Flush3(f))
  BY <1>2, ConsIsSeq DEF Flush3
<1>4. IsSeq(Flush2(f))
  BY <1>3, ConsIsSeq DEF Flush2
<1>5. IsSeq(Flush1(f))
  BY <1>4, ConsIsSeq DEF Flush1
<1>6. IsSeq(Reclaim4(f))
  BY <1>5, ConsIsSeq DEF Reclaim4
<1>7. IsSeq(Reclaim3(f))
  BY <1>6, ConsIsSeq DEF Reclaim3
<1>8. \A g : IsSeq(Reclaim2(g, f))
  BY <1>7, ConsIsSeq DEF Reclaim2
<1> QED BY <1>1, <1>2, <1>3, <1>4, <1>5, <1>6, <1>7, <1>8

\* The steps of FtwWriteRecord, FtwWrite and FtwAllocate are programs.
LEMMA WriteSeqs ==
  ASSUME NEW y, IsSeq(y), NEW b, NEW v
  PROVE  /\ IsSeq(Copy4(y)) /\ IsSeq(Copy3(y)) /\ IsSeq(Copy2(b, v, y)) /\ IsSeq(Copy1(b, v, y))
         /\ IsSeq(Write4(b, v, y)) /\ IsSeq(Write3(b, v, y)) /\ IsSeq(Write2(b, v, y))
         /\ IsSeq(Alloc3(y)) /\ IsSeq(Alloc2(y))
<1>1. IsSeq(Copy4(y)) /\ IsSeq(Alloc3(y))
  BY ConsIsSeq DEF Copy4, Alloc3
<1>2. IsSeq(Copy3(y)) /\ IsSeq(Alloc2(y))
  BY <1>1, ConsIsSeq DEF Copy3, Alloc2
<1>3. IsSeq(Copy2(b, v, y))
  BY <1>2, ConsIsSeq DEF Copy2
<1>4. IsSeq(Copy1(b, v, y))
  BY <1>3, ConsIsSeq DEF Copy1
<1>5. IsSeq(Write4(b, v, y))
  BY <1>4, ConsIsSeq DEF Write4
<1>6. IsSeq(Write3(b, v, y))
  BY <1>5, ConsIsSeq DEF Write3
<1>7. IsSeq(Write2(b, v, y))
  BY <1>6, ConsIsSeq DEF Write2
<1> QED BY <1>1, <1>2, <1>3, <1>4, <1>5, <1>6, <1>7

\* What may follow still may, when the work space is the same or empty.
LEMMA FitsKept ==
  ASSUME UNCHANGED <<power, request>>, Cells' = Cells \/ Cells' = NoCells
  PROVE  \A c : Fits(c) => Fits(c)'
<1>1. CASE Cells' = Cells
  BY <1>1 DEF Fits, InBoot, InPlain, InWrite, Quiet
<1>2. CASE Cells' = NoCells
  <2>1. Free(Cells') /\ ~Held(Cells', {2})
    BY <1>2, EmptySpace, NoCellsFacts, FreeFacts DEF RecordStates
  <2> QED BY <2>1 DEF Fits, InBoot, InPlain, InWrite, Quiet
<1> QED BY <1>1, <1>2

\* A step that keeps the cells, or leaves none, keeps what may follow.
LEMMA ContsKept ==
  ASSUME UNCHANGED <<power, request>>, Cells' = Cells \/ Cells' = NoCells
  PROVE  /\ \A c \in Fitting : c \in Fitting'
         /\ \A e \in PointConts : e \in PointConts'
         /\ \A f \in RestoreConts : f \in RestoreConts'
         /\ \A f \in FlushConts : f \in FlushConts'
<1>1. \A c \in Fitting : c \in Fitting'
  BY FitsKept DEF Fitting
<1>2. \A e \in PointConts : e \in PointConts'
  BY <1>1, Zenon DEF PointConts
<1>3. \A f \in RestoreConts : f \in RestoreConts'
  BY <1>2, SMT DEF RestoreConts
<1>4. InBoot => InBoot'
  BY DEF InBoot
<1>5. \A f \in FlushConts : f \in FlushConts'
  BY <1>3, <1>4, Zenon DEF FlushConts
<1> QED BY <1>1, <1>2, <1>3, <1>5

-----------------------------------------------------------------------------
(* The flash *)

\* The contents of the spare block.
LEMMA SpareFacts ==
  /\ Wiped \in SpareOK /\ Wiped.val = Garbage
  /\ \A v \in Values : Data(v) \in SpareOK /\ Data(v).val = v
  /\ \A g \in BOOLEAN : Copy([sig |-> g, state |-> {}, cells |-> NoCells]) \in SpareOK
  /\ \A s \in SpareOK : /\ s \in SpareBlock /\ s.work.cells = NoCells /\ s.work \in WorkingBlock
                        /\ s.val \in Values \cup {Garbage}
                        /\ Copy([s.work EXCEPT !.cells = NoCells]) \in SpareOK
BY NoCellsFacts DEF SpareOK, SpareBlock, WorkingBlock, Wiped, Data, Copy, BlankWork

\* A state bit is set in the spare block.
LEMMA SpareBitFacts ==
  ASSUME NEW s \in SpareOK, NEW t, t = [s EXCEPT !.work.state = @ \cup {WORKING_BLOCK_VALID}]
  PROVE  t \in SpareOK /\ t.val = s.val
<1>1. s.work.state \cup {1} \in SUBSET {1, 2}
  BY DEF SpareOK
<1> QED BY <1>1 DEF SpareOK, WORKING_BLOCK_VALID

\* The contents of the working block.
LEMMA WorkFacts ==
  /\ BlankWork \in WorkingBlock
  /\ [sig |-> TRUE, state |-> {}, cells |-> NoCells] \in WorkingBlock
  /\ \A w \in WorkingBlock :
       /\ w.cells \in [Index -> Cell] /\ w.state \in SUBSET {1, 2} /\ w.sig \in BOOLEAN
       /\ [w EXCEPT !.sig = FALSE] \in WorkingBlock /\ [w EXCEPT !.sig = FALSE].cells = w.cells
BY NoCellsFacts DEF WorkingBlock, BlankWork

\* A state bit is set in the working block.
LEMMA WorkBitFacts ==
  ASSUME NEW w \in WorkingBlock, NEW bit \in {1, 2}, NEW t, t = [w EXCEPT !.state = @ \cup {bit}]
  PROVE  t \in WorkingBlock /\ t.cells = w.cells /\ t.sig = w.sig /\ t.state = w.state \cup {bit}
<1>1. w.state \cup {bit} \in SUBSET {1, 2}
  BY DEF WorkingBlock
<1> QED BY <1>1 DEF WorkingBlock

\* The cells are written behind a header that stays.
LEMMA WorkCellFacts ==
  ASSUME NEW w \in WorkingBlock, NEW cells \in [Index -> Cell], NEW t, t = [w EXCEPT !.cells = cells]
  PROVE  t \in WorkingBlock /\ t.cells = cells /\ IsValidWorkSpace(t) = IsValidWorkSpace(w)
BY DEF WorkingBlock, IsValidWorkSpace

\* What the invariant says of the flash.
LEMMA Facts ==
  ASSUME FtwInv
  PROVE  /\ TypeOK /\ FlashOK /\ Place /\ work \in WorkingBlock /\ LayoutOK(Cells) /\ spare \in SpareOK
         /\ Cells \in [Index -> Cell] /\ Last \in 0..W /\ W \in Nat /\ W >= 2
         /\ target \in [Blocks -> Values \cup {Garbage}] /\ ContentOK
         /\ Garbage \notin Values /\ NoBlock \notin Blocks /\ NoRequest \notin Requests
<1>1. TypeOK /\ FlashOK /\ Place
  BY DEF FtwInv
<1>2. LayoutOK(Cells) /\ spare \in SpareOK /\ ContentOK
  BY <1>1 DEF FlashOK
<1>3. work \in WorkingBlock /\ target \in [Blocks -> Values \cup {Garbage}]
  BY <1>1 DEF TypeOK
<1>4. Cells \in [Index -> Cell]
  BY <1>3, WorkFacts DEF Cells
<1>5. Last \in 0..W
  BY <1>4, LastFacts DEF Last
<1>6. Garbage \notin Values /\ NoBlock \notin Blocks /\ NoRequest \notin Requests /\ W \in Nat /\ W >= 2
  BY FtwAssumption DEF Requests
<1> QED BY <1>1, <1>2, <1>3, <1>4, <1>5, <1>6

\* A record that is backed up is not free, and not of another block.
LEMMA UnfinishedFacts ==
  ASSUME FtwInv
  PROVE  /\ Free(Cells) => ~Held(Cells, {2})
         /\ Sound /\ ~Held(Cells, {2}) => \A b \in Blocks : target[b] \in Values
<1>1. Free(Cells) => ~Held(Cells, {2})
  BY Facts, FreeFacts DEF RecordStates
<1>2. Sound /\ ~Held(Cells, {2}) => \A b \in Blocks : target[b] \in Values
  BY Facts DEF ContentOK, Unfinished
<1> QED BY <1>1, <1>2

\* Nothing but todo changes.
LEMMA Stays ==
  ASSUME FtwInv, UNCHANGED <<flash, power, ptrs, client>>
  PROVE  TypeOK' /\ FlashOK'
<1>1. TypeOK'
  BY Facts DEF TypeOK, flash, ptrs, client
<1>2. FlashOK'
  BY Facts DEF FlashOK, flash, ContentOK, Unfinished, Valid, Last, Cells
<1> QED BY <1>1, <1>2

\* The spare block is erased or written.
LEMMA SpareChanges ==
  ASSUME FtwInv, UNCHANGED <<work, target, power, ptrs, client>>,
         spare' \in SpareOK, (Sound => ~Held(Cells, {2})) \/ spare'.val = spare.val
  PROVE  TypeOK' /\ FlashOK'
<1>1. TypeOK'
  BY Facts, SpareFacts DEF TypeOK, ptrs, client
<1>2. FlashOK'
  BY Facts DEF FlashOK, ContentOK, Unfinished, Valid, Last, Cells
<1> QED BY <1>1, <1>2

\* The working block is erased, or written anew.
LEMMA WorkChanges ==
  ASSUME FtwInv, UNCHANGED <<spare, target, power, ptrs, client>>, work' \in WorkingBlock,
         Sound => Free(Cells), LayoutOK(Cells'), Sound => Free(Cells')
  PROVE  TypeOK' /\ FlashOK'
<1>1. TypeOK'
  BY Facts DEF TypeOK, ptrs, client
<1>2. Sound => \A b \in Blocks : target'[b] \in Values
  BY UnfinishedFacts
<1>3. Sound => ~Held(Cells', {2})
  BY <1>1, FreeFacts, WorkFacts DEF RecordStates, Cells
<1>4. FlashOK'
  BY <1>2, <1>3, Facts DEF FlashOK, ContentOK, Cells
<1> QED BY <1>1, <1>4

\* A target block is erased or written, while its contents are in the spare block.
LEMMA TargetChanges ==
  ASSUME FtwInv, UNCHANGED <<work, spare, power, ptrs, client>>, NEW b \in Blocks,
         NEW v \in Values \cup {Garbage}, target' = [target EXCEPT ![b] = v], Sound => Unfinished(b)
  PROVE  TypeOK' /\ FlashOK'
<1>1. target' \in [Blocks -> Values \cup {Garbage}] /\ \A d \in Blocks : d # b => target'[d] = target[d]
  BY Facts
<1>2. TypeOK'
  BY <1>1, Facts DEF TypeOK, ptrs, client
<1>3. \A d \in Blocks : Unfinished(d)' <=> Unfinished(d)
  BY DEF Unfinished, Valid, Last, Cells
<1>4. ContentOK'
  BY <1>1, <1>3, Facts DEF ContentOK, Valid, Cells
<1>5. FlashOK'
  BY <1>4, Facts DEF FlashOK, Cells
<1> QED BY <1>2, <1>5

\* The cells change.
LEMMA CellChanges ==
  ASSUME FtwInv, UNCHANGED <<spare, target, power, ptrs, client>>,
         NEW cells \in [Index -> Cell], work' = [work EXCEPT !.cells = cells], LayoutOK(cells),
         Sound => Valid,
         Sound /\ Held(cells, {2}) => spare.val \in Values,
         Sound => \A b \in Blocks : \/ target[b] \in Values
                                    \/ Held(cells, {2}) /\ cells[LastHeader(cells) + 1].blk = b
  PROVE  TypeOK' /\ FlashOK' /\ Cells' = cells /\ (Valid' <=> Valid) /\ (Vouched' <=> Vouched)
<1>1. work' \in WorkingBlock /\ Cells' = cells /\ (Valid' <=> Valid)
  BY Facts, WorkCellFacts DEF Cells, Valid
<1>2. TypeOK'
  BY <1>1, Facts DEF TypeOK, ptrs, client
<1>3. ContentOK'
  BY <1>1, Facts DEF ContentOK, Unfinished, Last
<1>4. FlashOK'
  BY <1>1, <1>3, Facts DEF FlashOK
<1>5. Vouched' <=> Vouched
  BY <1>1 DEF Vouched
<1> QED BY <1>1, <1>2, <1>4, <1>5

-----------------------------------------------------------------------------
(* Where the driver goes *)

\* FtwAbort is not what InitFtwProtocol begins with, nor FtwRestart.
LEMMA NotAbort ==
  /\ ~ \E x \in BootAborts : Boot2 = AbortThen(x)
  /\ ~ \E x \in BootAborts : Boot3 = AbortThen(x)
  /\ ~ \E x \in BootAborts : RestartThen(AbortLastOf(Boot7)) = AbortThen(x)
<1>1. \A x \in BootAborts : Head(AbortThen(x)) = Step("Abort")
  BY AbortSeqs, ConsFacts DEF AbortThen
<1>2. Head(Boot2) = Step("Validate") /\ Head(Boot3) = Step("AbortFirst")
  BY BootSeqs, ConsFacts DEF Boot2, Boot3
<1>3. IsSeq(AbortLastOf(Boot7))
  BY BootSeqs, PlainSeqs
<1>4. Head(RestartThen(AbortLastOf(Boot7))) = Step("Restart")
  BY <1>3, ConsFacts DEF RestartThen
<1>5. Step("Abort") # Step("Validate") /\ Step("Abort") # Step("AbortFirst") /\ Step("Abort") # Step("Restart")
  BY DEF Step
<1> QED BY <1>1, <1>2, <1>4, <1>5

\* To a WorkSpaceRefresh.
LEMMA ToRefresh ==
  ASSUME NEW c \in Conts, Fits(c)', c = Boot2 \/ Vouched', todo' = RefreshThen(c)
  PROVE  Place'
<1>1. c \in Fitting'
  BY DEF Fitting
<1>2. Refreshing'
  BY <1>1 DEF Refreshing
<1> QED BY <1>2 DEF Place

\* To FtwAbort, and to the refresh that follows it.
LEMMA ToAbort ==
  ASSUME NEW x \in BootAborts, InBoot', Vouched', Sound => ~Held(Cells', {2}), todo' = AbortLastOf(x)
  PROVE  Place'
<1>1. AbortThen(x) \in BootConts /\ AbortThen(x) \in Conts
  BY DEF BootConts, Conts
<1>2. Fits(AbortThen(x))'
  BY <1>1 DEF Fits
<1> QED BY <1>1, <1>2, ToRefresh DEF AbortLastOf

\* Out of a service.
LEMMA Leaves ==
  ASSUME todo' = << >>, InPlain', Quiet', Vouched'
  PROVE  Place'
BY DEF Place, Outside, InPlain

\* FtwAbort is done, or had nothing to do.
LEMMA AfterAbort ==
  ASSUME NEW x \in BootAborts \cup {<< >>}, IF x = << >> THEN InPlain' ELSE InBoot',
         Vouched', Settled', Free(Cells'), todo' = x
  PROVE  Place'
<1>1. CASE x = << >>
  <2>1. Quiet' /\ InPlain'
    BY <1>1 DEF Quiet
  <2> QED BY <1>1, <2>1, Leaves
<1>2. CASE x \in BootAborts
  <2>1. InBoot' /\ Valid'
    BY <1>2, AbortSeqs DEF InBoot, Vouched
  <2>2. CASE x = RefreshThen(Boot3)
    <3>1. Boot3 \in Conts /\ Boot3 \in BootConts
      BY DEF Conts, BootConts
    <3>2. Fits(Boot3)'
      BY <2>1, <3>1, NotAbort DEF Fits
    <3> QED BY <2>2, <3>1, <3>2, ToRefresh
  <2>3. CASE x \in {Boot4, Boot5, Boot7}
    BY <2>1, <2>3 DEF Place, Booting
  <2> QED BY <1>2, <2>2, <2>3 DEF BootAborts
<1> QED BY <1>1, <1>2

\* The pointers are set and WorkSpaceRefresh returns.
LEMMA Arrives ==
  ASSUME LayoutOK(Cells'), NEW c \in Conts, Fits(c)', c = Boot2 \/ Vouched', Pointed', todo' = c
  PROVE  Place'
<1>0. Cells' \in [Index -> Cell]
  BY DEF LayoutOK
<1>1. CASE InBoot' /\ c \in BootConts
  <2>0. Vouched' => Valid'
    BY <1>1 DEF InBoot, Vouched
  <2>1. CASE c = Boot2
    BY <1>1, <2>1 DEF Place, Booting
  <2>2. CASE c = Boot3
    <3>1. Boot2 # Boot3
      <4>1. Head(Boot2) = Step("Validate") /\ Head(Boot3) = Step("AbortFirst")
        BY BootSeqs, ConsFacts DEF Boot2, Boot3
      <4>2. Step("Validate") # Step("AbortFirst")
        BY DEF Step
      <4> QED BY <4>1, <4>2
    <3> QED BY <1>1, <2>0, <2>2, <3>1 DEF Place, Booting
  <2>3. CASE c = RestartThen(AbortLastOf(Boot7))
    <3>1. AbortLastOf(Boot7) # << >> /\ RestartThen(AbortLastOf(Boot7)) # Boot2
      <4>1. IsSeq(AbortThen(Boot7)) /\ IsSeq(AbortLastOf(Boot7))
        BY BootSeqs, PlainSeqs
      <4>2. AbortLastOf(Boot7) # << >>
        BY <4>1, ConsFacts DEF AbortLastOf, RefreshThen
      <4>3. Head(RestartThen(AbortLastOf(Boot7))) = Step("Restart") /\ Head(Boot2) = Step("Validate")
        BY <4>1, BootSeqs, ConsFacts DEF RestartThen, Boot2
      <4>4. Step("Restart") # Step("Validate")
        BY DEF Step
      <4> QED BY <4>2, <4>3, <4>4
    <3>2. Restarting'
      BY <1>1, <2>3, <3>1 DEF Restarting
    <3> QED BY <3>2 DEF Place
  <2>4. ASSUME NEW x \in BootAborts, c = AbortThen(x)
        PROVE  Place'
    <3>1. x # << >> /\ c # Boot2
      BY <2>4, AbortSeqs, NotAbort
    <3>2. Sound => ~Held(Cells', {2})
      <4>1. c \in {AbortThen(w) : w \in BootAborts}
        BY <2>4
      <4>2. ~InPlain' /\ ~InWrite'
        BY <1>1 DEF InBoot, InPlain, InWrite
      <4> QED BY <1>1, <4>1, <4>2 DEF Fits
    <3>3. Aborting'
      BY <1>1, <2>4, <3>1, <3>2 DEF Aborting
    <3> QED BY <3>3 DEF Place
  <2> QED BY <1>1, <2>1, <2>2, <2>3, <2>4, Zenon DEF BootConts
<1>2. CASE InPlain' /\ c \in PlainConts /\ Quiet'
  <2>1. c # Boot2
    <3>1. Head(Boot2) = Step("Validate")
      BY BootSeqs, ConsFacts DEF Boot2
    <3>2. Head(AllocateThen(<< >>)) = [do |-> "Allocate", num |-> 1] /\ Head(RestartThen(<< >>)) = Step("Restart")
          /\ Head(AbortThen(<< >>)) = Step("Abort") /\ Head(LookOnly) = Step("GetLastWrite")
      BY NoSteps, ConsFacts DEF AllocateThen, RestartThen, AbortThen, LookOnly
    <3>3. Step("Validate").do = "Validate" /\ Head(c).do # "Validate"
      BY <1>2, <3>2 DEF Step, PlainConts
    <3> QED BY <3>1, <3>3
  <2>2. Vouched'
    BY <2>1
  <2>3. Sound => ~Held(Cells', {2})
    BY <1>0, <1>2, FreeFacts, HeldOnce DEF Quiet, Allocated, RecordStates
  <2>4. CASE c = AllocateThen(<< >>)
    <3>1. << >> # CheckOnly
      BY NoSteps, ConsFacts DEF CheckOnly
    <3>2. Allocating'
      BY <1>2, <2>2, <2>4, <3>1 DEF Allocating
    <3> QED BY <3>2 DEF Place
  <2>5. CASE c = RestartThen(<< >>)
    BY <1>2, <2>2, <2>5 DEF Place, Restarting
  <2>6. CASE c = AbortThen(<< >>)
    BY <1>2, <2>2, <2>3, <2>6 DEF Place, Aborting
  <2>7. CASE c = LookOnly
    BY <1>2, <2>2, <2>7 DEF Place, Looking
  <2> QED BY <1>2, <2>4, <2>5, <2>6, <2>7 DEF PlainConts
<1>3. CASE InWrite' /\ c \in BeginConts /\ Quiet'
  <2>1. c # Boot2
    <3>1. Head(Boot2) = Step("Validate")
      BY BootSeqs, ConsFacts DEF Boot2
    <3>2. \A p : Head(WriteBeginWith(p)) = [do |-> "WriteBegin", private |-> p]
      BY NoSteps, ConsFacts DEF WriteBeginWith
    <3>3. Step("Validate").do = "Validate" /\ Head(c).do # "Validate"
      BY <1>3, <3>2 DEF Step, BeginConts
    <3> QED BY <3>1, <3>3
  <2>2. Writing'
    BY <1>3, <2>1 DEF Writing
  <2> QED BY <2>2 DEF Place
<1>4. CASE InWrite' /\ c = AllocateThen(CheckOnly) /\ Free(Cells')
  <2>1. c # Boot2
    <3>1. Head(Boot2) = Step("Validate")
      BY BootSeqs, ConsFacts DEF Boot2
    <3>2. Head(AllocateThen(CheckOnly)) = [do |-> "Allocate", num |-> 1]
      BY EndSeqs, ConsFacts DEF AllocateThen
    <3>3. Step("Validate").do = "Validate" /\ Head(c).do # "Validate"
      BY <1>4, <3>2 DEF Step
    <3> QED BY <3>1, <3>3
  <2>2. CheckOnly # << >>
    BY NoSteps, ConsFacts DEF CheckOnly
  <2>3. Quiet'
    BY <1>4 DEF Quiet
  <2>4. Allocating'
    BY <1>4, <2>1, <2>2, <2>3 DEF Allocating
  <2> QED BY <2>4 DEF Place
<1> QED BY <1>1, <1>2, <1>3, <1>4 DEF Fits

-----------------------------------------------------------------------------
(* WorkSpaceRefresh and FtwReclaimWorkSpace *)

\* A work space without room has nothing that must be kept.
LEMMA ReclaimEmpty ==
  ASSUME NEW cells, LayoutOK(cells), W - LastHeader(cells) < 2
  PROVE  ReclaimedCells(cells) = NoCells /\ Free(cells)
<1>1. cells \in [Index -> Cell] /\ LastHeader(cells) \in 0..W /\ W \in Nat
  BY LastFacts, FtwAssumption DEF LayoutOK
<1>2. Free(cells)
  BY <1>1 DEF LayoutOK, Held
<1>3. LastHeader(cells) < W => cells[LastHeader(cells)].state = {}
  BY <1>1, <1>2, FreeFacts DEF Erased
<1> QED BY <1>2, <1>3 DEF ReclaimedCells

\* WorkSpaceRefresh decides whether to reclaim.
LEMMA StepRefresh ==
  ASSUME FtwInv, Driver, NEW c \in Fitting, todo = RefreshThen(c), c = Boot2 \/ Vouched
  PROVE  FtwInv'
<1>1. c \in Conts /\ Fits(c) /\ IsSeq(c) /\ IsSeq(PointThen(c))
  BY FittingSeqs
<1>2. todo = Cons(Refresh, c) /\ Refresh.do = "Refresh"
  BY DEF RefreshThen, Refresh, Step
<1>3. WorkSpaceRefresh /\ Tail(todo) = c
  BY <1>1, <1>2, Dispatch, Taking
<1>4. UNCHANGED <<flash, power, ptrs, client>>
  BY <1>3 DEF WorkSpaceRefresh, Decide
<1>5. TypeOK' /\ FlashOK'
  BY <1>4, Stays
<1>6. UNCHANGED <<power, request, work, spare>> /\ Cells' = Cells /\ Last' = Last /\ (Vouched' <=> Vouched)
  BY <1>4 DEF flash, client, Cells, Last, Vouched, Valid
<1>7. c \in Fitting' /\ Fits(c)'
  BY <1>1, <1>6, ContsKept, FitsKept
<1>8. CASE ~(W - Last < 2)
  <2>1. todo' = Then(<<Point>>, c)
    BY <1>3, <1>8 DEF WorkSpaceRefresh, Decide, Go, Then, Last
  <2>2. todo' = PointThen(c)
    BY <1>1, <2>1, Run1 DEF PointThen
  <2>3. Last' + 1 < W
    BY <1>6, <1>8, Facts
  <2>4. Refreshing'
    BY <1>6, <1>7, <2>2, <2>3 DEF Refreshing
  <2> QED BY <1>5, <2>4 DEF FtwInv, Place
<1>9. CASE W - Last < 2
  <2>1. ReclaimedCells(Cells) = NoCells /\ Free(Cells)
    BY <1>9, Facts, ReclaimEmpty DEF Last
  <2>2. ReclaimPreserving = FtwReclaimWorkSpace(NoCells, work.sig)
    BY <2>1 DEF ReclaimPreserving
  <2>3. todo' = Then(Append(FtwReclaimWorkSpace(NoCells, work.sig), Point), c)
    BY <1>3, <1>9, <2>2 DEF WorkSpaceRefresh, Decide, Go, Then, Last
  <2> DEFINE e == PointThen(PointThen(c))
             f == Restore1(spare, e)
  <2>4. todo' = Reclaim1(work.sig, f)
    BY <1>1, <2>3, ReclaimProgram
  <2>5. e \in PointConts'
    BY <1>7 DEF PointConts
  <2>6. f \in RestoreConts'
    BY <2>5, Facts DEF RestoreConts
  <2>7. work.sig \in BOOLEAN
    BY Facts, WorkFacts
  <2> HIDE DEF f
  <2>8. Reclaiming'
    BY <1>6, <2>1, <2>4, <2>6, <2>7 DEF Reclaiming
  <2> QED BY <1>5, <2>8 DEF FtwInv, Place
<1> QED BY <1>8, <1>9

\* FtwGetLastWriteHeader and FtwGetLastWriteRecord set the pointers.
LEMMA StepPoint ==
  ASSUME FtwInv, Driver, NEW c \in Fitting, NEW d \in {c, PointThen(c)}, todo = PointThen(d),
         c = Boot2 \/ Vouched, Last + 1 < W
  PROVE  FtwInv'
<1>1. c \in Conts /\ Fits(c) /\ IsSeq(d)
  BY FittingSeqs
<1>2. todo = Cons(Point, d) /\ Point.do = "Point"
  BY DEF PointThen, Point, Step
<1>3. PointStep /\ Tail(todo) = d
  BY <1>1, <1>2, Dispatch, Taking
<1>4. UNCHANGED <<flash, power, client>>
  BY <1>3 DEF PointStep
<1>5. LastRecord(Cells, Last) = Last + 1 /\ Last < W /\ Last \in Nat
  BY Facts, LastRecordFacts DEF Last
<1>6. FtwLastWriteHeader' = Last /\ FtwLastWriteRecord' = Last + 1 /\ todo' = Then(<< >>, d)
  BY <1>3, <1>5 DEF PointStep, Go, Then, Last
<1>7. todo' = d
  BY <1>1, <1>6, NothingThen
<1>8. Cells' = Cells /\ Last' = Last /\ (Vouched' <=> Vouched) /\ UNCHANGED <<power, request>>
  BY <1>4 DEF flash, client, Cells, Last, Vouched, Valid
<1>9. Pointed'
  BY <1>6, <1>8 DEF Pointed
<1>10. TypeOK'
  BY <1>4, <1>5, <1>6, Facts DEF TypeOK, flash, client, Index
<1>11. FlashOK'
  BY <1>4, Facts DEF FlashOK, flash, ContentOK, Unfinished, Valid, Last, Cells
<1>12. Fits(c)' /\ c \in Fitting'
  BY <1>1, <1>8, FitsKept, ContsKept
<1>13. CASE d = c
  <2>1. LayoutOK(Cells')
    BY <1>8, Facts
  <2>2. Place'
    BY <1>1, <1>7, <1>8, <1>9, <1>12, <1>13, <2>1, Arrives
  <2> QED BY <1>10, <1>11, <2>2 DEF FtwInv
<1>14. CASE d = PointThen(c)
  <2>1. Refreshing'
    BY <1>7, <1>8, <1>12, <1>14 DEF Refreshing
  <2> QED BY <1>10, <1>11, <2>1 DEF FtwInv, Place
<1> QED BY <1>13, <1>14

\* The first four steps of FtwReclaimWorkSpace.
LEMMA StepReclaim ==
  ASSUME FtwInv, Driver, NEW f \in RestoreConts, Sound => Free(Cells), NEW g \in BOOLEAN,
         todo \in {Reclaim1(g, f), Reclaim2(g, f), Reclaim3(f), Reclaim4(f)}
  PROVE  FtwInv'
<1>1. IsSeq(f)
  BY FlushContSeqs
<1>2. IsSeq(Reclaim2(g, f)) /\ IsSeq(Reclaim3(f)) /\ IsSeq(Reclaim4(f)) /\ IsSeq(Flush1(f))
  BY <1>1, FlushSeqs
<1>3. Sound => ~Held(Cells, {2})
  BY UnfinishedFacts
<1>4. ASSUME UNCHANGED <<work, target, power, ptrs, client>>, spare' \in SpareOK,
             todo' \in {Reclaim2(g, f), Reclaim3(f), Reclaim4(f)}
      PROVE  FtwInv'
  <2>1. TypeOK' /\ FlashOK'
    BY <1>3, <1>4, SpareChanges
  <2>2. UNCHANGED <<power, request>> /\ Cells' = Cells
    BY <1>4 DEF client, Cells
  <2>3. f \in RestoreConts'
    BY <2>2, ContsKept
  <2>4. Reclaiming'
    BY <1>4, <2>2, <2>3 DEF Reclaiming
  <2> QED BY <2>1, <2>4 DEF FtwInv, Place
<1>5. CASE todo = Reclaim1(g, f)
  <2>1. todo = Cons(EraseSpare, Reclaim2(g, f)) /\ EraseSpare.do = "EraseSpare"
    BY <1>5 DEF Reclaim1, EraseSpare, Step
  <2>2. DoEraseSpare /\ Tail(todo) = Reclaim2(g, f)
    BY <1>2, <2>1, Dispatch, Taking
  <2> QED BY <1>4, <2>2, SpareFacts DEF DoEraseSpare, Flash
<1>6. CASE todo = Reclaim2(g, f)
  <2> DEFINE d == Copy([sig |-> g, state |-> {}, cells |-> NoCells])
  <2>1. todo = Cons(WriteSpare(d), Reclaim3(f)) /\ WriteSpare(d).do = "WriteSpare" /\ WriteSpare(d).data = d
    BY <1>6 DEF Reclaim2, WriteSpare
  <2>2. DoWriteSpare /\ Tail(todo) = Reclaim3(f) /\ Op = WriteSpare(d)
    BY <1>2, <2>1, Dispatch, Taking
  <2>3. spare' = d /\ d \in SpareOK
    BY <2>1, <2>2, SpareFacts DEF DoWriteSpare
  <2> QED BY <1>4, <2>2, <2>3 DEF DoWriteSpare, Flash
<1>7. CASE todo = Reclaim3(f)
  <2> DEFINE x == SpareBit(WORKING_BLOCK_VALID)
  <2>1. todo = Cons(x, Reclaim4(f)) /\ x.do = "SpareBit" /\ x.bit = WORKING_BLOCK_VALID
    BY <1>7 DEF Reclaim3, SpareBit
  <2>2. DoSpareBit /\ Tail(todo) = Reclaim4(f) /\ Op = x
    BY <1>2, <2>1, Dispatch, Taking
  <2>3. spare' \in SpareOK
    BY <2>1, <2>2, Facts, SpareBitFacts DEF DoSpareBit
  <2> QED BY <1>4, <2>2, <2>3 DEF DoSpareBit, Flash
<1>8. CASE todo = Reclaim4(f)
  <2> DEFINE x == WorkBit(WORKING_BLOCK_INVALID)
  <2>1. todo = Cons(x, Flush1(f)) /\ x.do = "WorkBit" /\ x.bit = 2
    BY <1>8 DEF Reclaim4, WorkBit, WORKING_BLOCK_INVALID
  <2>2. DoWorkBit /\ Tail(todo) = Flush1(f) /\ Op = x
    BY <1>2, <2>1, Dispatch, Taking
  <2>3. work' \in WorkingBlock /\ work'.cells = work.cells
    BY <2>1, <2>2, Facts, WorkBitFacts DEF DoWorkBit
  <2>4. UNCHANGED <<spare, target, power, ptrs, client>> /\ todo' = Flush1(f)
    BY <2>2 DEF DoWorkBit, Flash
  <2>5. Cells' = Cells /\ UNCHANGED <<power, request>>
    BY <2>3, <2>4 DEF Cells, client
  <2>6. TypeOK' /\ FlashOK'
    BY <2>3, <2>4, <2>5, Facts, WorkChanges
  <2>7. f \in FlushConts'
    BY <2>5, ContsKept DEF FlushConts
  <2>8. Flushing'
    BY <2>4, <2>5, <2>7 DEF Flushing
  <2> QED BY <2>6, <2>8 DEF FtwInv, Place
<1> QED BY <1>5, <1>6, <1>7, <1>8

\* The last steps: the old contents of the spare block are put back.
LEMMA StepRestore ==
  ASSUME FtwInv, Driver, NEW e \in PointConts, NEW s \in SpareOK, Valid, Cells = NoCells,
         todo \in {Restore1(s, e), Restore2(s, e)}
  PROVE  FtwInv'
<1>1. IsSeq(e) /\ IsSeq(Restore2(s, e))
  BY PointSeqs, RestoreSeqs
<1>2. ~Held(Cells, {2})
  BY EmptySpace, UnfinishedFacts
<1>3. ASSUME UNCHANGED <<work, target, power, ptrs, client>>, spare' \in SpareOK
      PROVE  TypeOK' /\ FlashOK' /\ UNCHANGED <<power, request>> /\ Valid' /\ Cells' = Cells /\ e \in PointConts'
  <2>1. TypeOK' /\ FlashOK'
    BY <1>2, <1>3, SpareChanges
  <2>2. UNCHANGED <<power, request>> /\ Valid' /\ Cells' = Cells
    BY <1>3 DEF client, Cells, Valid
  <2> QED BY <2>1, <2>2, ContsKept
<1>4. CASE todo = Restore1(s, e)
  <2>1. todo = Cons(EraseSpare, Restore2(s, e)) /\ EraseSpare.do = "EraseSpare"
    BY <1>4 DEF Restore1, EraseSpare, Step
  <2>2. DoEraseSpare /\ Tail(todo) = Restore2(s, e)
    BY <1>1, <2>1, Dispatch, Taking
  <2>3. UNCHANGED <<work, target, power, ptrs, client>> /\ spare' \in SpareOK /\ todo' = Restore2(s, e)
    BY <2>2, SpareFacts DEF DoEraseSpare, Flash
  <2>4. Reclaiming'
    BY <1>3, <2>3 DEF Reclaiming
  <2> QED BY <1>3, <2>3, <2>4 DEF FtwInv, Place
<1>5. CASE todo = Restore2(s, e)
  <2>1. todo = Cons(WriteSpare(s), e) /\ WriteSpare(s).do = "WriteSpare" /\ WriteSpare(s).data = s
    BY <1>5 DEF Restore2, WriteSpare
  <2>2. DoWriteSpare /\ Tail(todo) = e /\ Op = WriteSpare(s)
    BY <1>1, <2>1, Dispatch, Taking
  <2>3. UNCHANGED <<work, target, power, ptrs, client>> /\ spare' \in SpareOK /\ todo' = e
    BY <2>1, <2>2 DEF DoWriteSpare, Flash
  <2>4. PICK c \in Fitting' : e = PointThen(c) \/ e = PointThen(PointThen(c))
    BY <1>3, <2>3, Zenon DEF PointConts
  <2>5. Last' + 1 < W /\ Vouched'
    BY <1>3, <2>3, NoCellsFacts, Facts DEF Last, Vouched
  <2>6. Refreshing'
    BY <2>3, <2>4, <2>5 DEF Refreshing
  <2> QED BY <1>3, <2>3, <2>6 DEF FtwInv, Place
<1> QED BY <1>4, <1>5

\* FlushSpareBlockToWorkingBlock.
LEMMA StepFlushFirst ==
  ASSUME FtwInv, Driver, NEW f \in FlushConts, Sound => Free(Cells), todo = Flush1(f)
  PROVE  FtwInv'
<1>1. IsSeq(f)
  BY FlushContSeqs
<1>2. IsSeq(Flush2(f))
  BY <1>1, FlushSeqs
<1> DEFINE x == SpareBit(WORKING_BLOCK_VALID)
<1>3. todo = Cons(x, Flush2(f)) /\ x.do = "SpareBit" /\ x.bit = WORKING_BLOCK_VALID
  BY DEF Flush1, SpareBit
<1>4. DoSpareBit /\ Tail(todo) = Flush2(f) /\ Op = x
  BY <1>2, <1>3, Dispatch, Taking
<1>5. spare' \in SpareOK
  BY <1>3, <1>4, Facts, SpareBitFacts DEF DoSpareBit
<1>6. UNCHANGED <<work, target, power, ptrs, client>> /\ todo' = Flush2(f)
  BY <1>4 DEF DoSpareBit, Flash
<1>7. UNCHANGED <<power, request>> /\ Cells' = Cells
  BY <1>6 DEF client, Cells
<1>8. TypeOK' /\ FlashOK'
  BY <1>5, <1>6, UnfinishedFacts, SpareChanges
<1>9. f \in FlushConts'
  BY <1>7, ContsKept
<1>10. Flushing'
  BY <1>6, <1>7, <1>9 DEF Flushing
<1> QED BY <1>8, <1>10 DEF FtwInv, Place

\* A step on the working block inside FlushSpareBlockToWorkingBlock.
LEMMA StepFlushWork ==
  ASSUME FtwInv, Driver, NEW f \in FlushConts, Sound => Free(Cells),
         work' \in WorkingBlock, Cells' = Cells \/ Cells' = NoCells,
         UNCHANGED <<spare, target, power, ptrs, client>>
  PROVE  TypeOK' /\ FlashOK' /\ f \in FlushConts' /\ (Sound => Free(Cells'))
<1>1. LayoutOK(Cells') /\ (Sound => Free(Cells'))
  BY EmptySpace, Facts
<1>2. TypeOK' /\ FlashOK'
  BY <1>1, WorkChanges
<1>3. UNCHANGED <<power, request>>
  BY DEF client
<1> QED BY <1>1, <1>2, <1>3, ContsKept

\* The working block is marked invalid, and erased.
LEMMA StepFlushNext ==
  ASSUME FtwInv, Driver, NEW f \in FlushConts, Sound => Free(Cells), todo \in {Flush2(f), Flush3(f)}
  PROVE  FtwInv'
<1>1. IsSeq(f)
  BY FlushContSeqs
<1>2. IsSeq(Flush3(f)) /\ IsSeq(Flush4(f))
  BY <1>1, FlushSeqs
<1>3. CASE todo = Flush2(f)
  <2> DEFINE x == WorkBit(WORKING_BLOCK_INVALID)
  <2>1. todo = Cons(x, Flush3(f)) /\ x.do = "WorkBit" /\ x.bit = 2
    BY <1>3 DEF Flush2, WorkBit, WORKING_BLOCK_INVALID
  <2>2. DoWorkBit /\ Tail(todo) = Flush3(f) /\ Op = x
    BY <1>2, <2>1, Dispatch, Taking
  <2>3. work' \in WorkingBlock /\ work'.cells = work.cells
    BY <2>1, <2>2, Facts, WorkBitFacts DEF DoWorkBit
  <2>4. UNCHANGED <<spare, target, power, ptrs, client>> /\ todo' = Flush3(f)
    BY <2>2 DEF DoWorkBit, Flash
  <2>5. Cells' = Cells
    BY <2>3 DEF Cells
  <2>6. TypeOK' /\ FlashOK' /\ f \in FlushConts' /\ (Sound => Free(Cells'))
    BY <2>3, <2>4, <2>5, StepFlushWork
  <2>7. Flushing'
    BY <2>4, <2>6 DEF Flushing
  <2> QED BY <2>6, <2>7 DEF FtwInv, Place
<1>4. CASE todo = Flush3(f)
  <2>1. todo = Cons(EraseWork, Flush4(f)) /\ EraseWork.do = "EraseWork"
    BY <1>4 DEF Flush3, EraseWork, Step
  <2>2. DoEraseWork /\ Tail(todo) = Flush4(f)
    BY <1>2, <2>1, Dispatch, Taking
  <2>3. work' = BlankWork /\ UNCHANGED <<spare, target, power, ptrs, client>> /\ todo' = Flush4(f)
    BY <2>2 DEF DoEraseWork, Flash
  <2>4. work' \in WorkingBlock /\ Cells' = NoCells
    BY <2>3, WorkFacts DEF Cells, BlankWork
  <2>5. TypeOK' /\ FlashOK' /\ f \in FlushConts'
    BY <2>3, <2>4, StepFlushWork
  <2>6. Flushing'
    BY <2>3, <2>5 DEF Flushing
  <2> QED BY <2>5, <2>6 DEF FtwInv, Place
<1> QED BY <1>3, <1>4

\* The working block is written from the spare block.
LEMMA StepFlushWrite ==
  ASSUME FtwInv, Driver, NEW f \in FlushConts, todo = Flush4(f), work = BlankWork
  PROVE  FtwInv'
<1>1. IsSeq(f)
  BY FlushContSeqs
<1>2. IsSeq(Flush5(f))
  BY <1>1, FlushSeqs
<1> DEFINE x == WriteWork(NoCells)
<1>3. todo = Cons(x, Flush5(f)) /\ x.do = "WriteWork" /\ x.cells = NoCells
  BY DEF Flush4, WriteWork
<1>4. DoWriteWork /\ Tail(todo) = Flush5(f) /\ Op = x
  BY <1>2, <1>3, Dispatch, Taking
<1>5. /\ work' = [sig |-> TRUE, state |-> {}, cells |-> NoCells]
      /\ UNCHANGED <<spare, target, power, ptrs, client>> /\ todo' = Flush5(f)
  BY <1>3, <1>4 DEF DoWriteWork, Flash
<1>6. work' \in WorkingBlock /\ Cells' = NoCells
  BY <1>5, WorkFacts DEF Cells
<1>7. Free(Cells)
  BY EmptySpace DEF Cells, BlankWork
<1>8. TypeOK' /\ FlashOK' /\ f \in FlushConts'
  BY <1>5, <1>6, <1>7, StepFlushWork
<1>9. Flushing'
  BY <1>5, <1>8 DEF Flushing
<1> QED BY <1>8, <1>9 DEF FtwInv, Place

\* The working block is marked valid.
LEMMA StepFlushLast ==
  ASSUME FtwInv, Driver, NEW f \in FlushConts, todo = Flush5(f),
         work = [sig |-> TRUE, state |-> {}, cells |-> NoCells]
  PROVE  FtwInv'
<1>1. IsSeq(f)
  BY FlushContSeqs
<1> DEFINE x == WorkBit(WORKING_BLOCK_VALID)
<1>2. todo = Cons(x, f) /\ x.do = "WorkBit" /\ x.bit = 1
  BY DEF Flush5, WorkBit, WORKING_BLOCK_VALID
<1>3. DoWorkBit /\ Tail(todo) = f /\ Op = x
  BY <1>1, <1>2, Dispatch, Taking
<1>4. /\ work' \in WorkingBlock /\ work'.cells = work.cells /\ work'.sig = work.sig
      /\ work'.state = work.state \cup {1}
  BY <1>2, <1>3, Facts, WorkBitFacts DEF DoWorkBit
<1>5. UNCHANGED <<spare, target, power, ptrs, client>> /\ todo' = f
  BY <1>3 DEF DoWorkBit, Flash
<1>6. Cells = NoCells /\ Cells' = NoCells
  BY <1>4 DEF Cells
<1>7. work'.sig = TRUE /\ work'.state = {1}
  BY <1>4
<1>8. Valid'
  BY <1>7 DEF Valid, IsValidWorkSpace, WORKING_BLOCK_VALID
<1>9. TypeOK' /\ FlashOK' /\ f \in FlushConts' /\ Free(Cells')
  BY <1>4, <1>5, <1>6, EmptySpace, StepFlushWork
<1>10. CASE f \in RestoreConts'
  <2>1. PICK s \in SpareOK, e \in PointConts' : f = Restore1(s, e)
    BY <1>10, SMT DEF RestoreConts
  <2>2. Reclaiming'
    BY <1>5, <1>6, <1>8, <2>1 DEF Reclaiming
  <2> QED BY <1>9, <2>2 DEF FtwInv, Place
<1>11. CASE f = AbortLastOf(RefreshThen(Boot3)) /\ InBoot'
  <2>1. RefreshThen(Boot3) \in BootAborts
    BY DEF BootAborts
  <2>2. ~Held(Cells', {2})
    BY <1>6, EmptySpace, NoCellsFacts, FreeFacts DEF RecordStates
  <2>3. Vouched'
    BY <1>8 DEF Vouched
  <2>4. Place'
    BY <1>5, <1>11, <2>1, <2>2, <2>3, ToAbort
  <2> QED BY <1>9, <2>4 DEF FtwInv
<1> QED BY <1>9, <1>10, <1>11, Zenon DEF FlushConts

-----------------------------------------------------------------------------
(* InitFtwProtocol, FtwAbort and FtwRestart *)

\* What the pointers lead to.
LEMMA PointedFacts ==
  ASSUME FtwInv, Pointed
  PROVE  /\ FtwLastWriteHeader = Last /\ FtwLastWriteRecord = Last + 1 /\ Last + 1 < W
         /\ Last \in Nat /\ Last \in Index /\ Last + 1 \in Index
         /\ LastHdr = Cells[Last] /\ LastRec = Cells[Last + 1] /\ WRITES_COMPLETED \notin LastHdr.state
         /\ IsFirstRecordOfWrites
<1>1. FtwLastWriteHeader = Last /\ FtwLastWriteRecord = Last + 1 /\ Last + 1 < W /\ Last \in Nat
  BY Facts DEF Pointed
<1>2. Last \in Index /\ Last + 1 \in Index
  BY <1>1, Facts DEF Index
<1>3. LastHdr = Cells[Last] /\ LastRec = Cells[Last + 1]
  BY <1>1 DEF LastHdr, LastRec
<1>4. WRITES_COMPLETED \notin LastHdr.state
  BY <1>1, <1>3, Facts, LastFacts DEF Last
<1> QED BY <1>1, <1>2, <1>3, <1>4 DEF IsFirstRecordOfWrites

\* ... to erased cells, if the work space is free ...
LEMMA PointedFree ==
  ASSUME FtwInv, Pointed, Free(Cells)
  PROVE  LastHdr = Erased /\ LastRec = Erased /\ LastHdr.state = {} /\ LastRec.state = {}
<1>1. LastHdr = Erased /\ LastRec = Erased
  BY PointedFacts, Facts, FreeFacts DEF Last
<1> QED BY <1>1 DEF Erased

\* ... and to the header and its record, if one is open.
LEMMA PointedHeld ==
  ASSUME FtwInv, Pointed, NEW s \in RecordStates, Held(Cells, s)
  PROVE  /\ LastHdr # Erased /\ LastHdr.num = 1 /\ LastHdr.state \in {{1}, {1, 2}}
         /\ LastRec.state = s /\ IsLastRecordOfWrites /\ (s # {} => LastRec.blk \in Blocks)
         /\ \A i \in Index : i >= FtwLastWriteHeader + 2 => Cells[i] = Erased
<1>1. /\ LastHdr # Erased /\ LastHdr.num = 1 /\ LastHdr.state \in {{1}, {1, 2}}
      /\ LastRec.state = s /\ (s # {} => LastRec.blk \in Blocks)
  BY PointedFacts, Facts, HeldFacts DEF Last
<1>2. IsLastRecordOfWrites
  BY <1>1, PointedFacts DEF IsLastRecordOfWrites
<1>3. \A i \in Index : i > Last + 1 => Cells[i] = Erased
  BY DEF Held, Last
<1>4. \A i \in Index : i >= FtwLastWriteHeader + 2 => i > Last + 1
  BY PointedFacts, Facts DEF Index
<1> QED BY <1>1, <1>2, <1>3, <1>4

\* What is unchanged when nothing but todo changes.
LEMMA Looks ==
  ASSUME FtwInv, UNCHANGED <<flash, power, ptrs, client>>
  PROVE  /\ TypeOK' /\ FlashOK' /\ Cells' = Cells /\ Last' = Last /\ UNCHANGED <<power, request, spare>>
         /\ (Valid' <=> Valid) /\ (Vouched' <=> Vouched) /\ (Quiet' <=> Quiet)
         /\ (Pointed' <=> Pointed) /\ (Settled' <=> Settled)
         /\ (InBoot' <=> InBoot) /\ (InPlain' <=> InPlain) /\ (InWrite' <=> InWrite)
         /\ LastRec' = LastRec
<1>1. UNCHANGED <<work, spare, target, power, FtwLastWriteHeader, FtwLastWriteRecord, request, result>>
  BY DEF flash, ptrs, client
<1>2. Cells' = Cells
  BY <1>1 DEF Cells
<1>3. Last' = Last /\ LastHdr' = LastHdr /\ LastRec' = LastRec
  BY <1>1, <1>2 DEF Last, LastHdr, LastRec
<1>4. (Valid' <=> Valid) /\ (Vouched' <=> Vouched) /\ (Quiet' <=> Quiet)
  BY <1>1, <1>2 DEF Valid, Vouched, Quiet
<1>5. (Pointed' <=> Pointed) /\ (Settled' <=> Settled)
  BY <1>1, <1>2, <1>3 DEF Pointed, Settled, Passed
<1>6. (InBoot' <=> InBoot) /\ (InPlain' <=> InPlain) /\ (InWrite' <=> InWrite)
  BY <1>1 DEF InBoot, InPlain, InWrite
<1> QED BY <1>1, <1>2, <1>3, <1>4, <1>5, <1>6, Stays

\* InitFtwProtocol chooses the working block, its copy or a new one.
LEMMA StepValidate ==
  ASSUME FtwInv, Driver, InBoot, todo = Boot2, Pointed
  PROVE  FtwInv'
<1>1. todo = Cons(Step("Validate"), Boot3) /\ Step("Validate").do = "Validate" /\ IsSeq(Boot3)
  BY BootSeqs DEF Boot2, Step
<1>2. Validate /\ Tail(todo) = Boot3
  BY <1>1, Dispatch, Taking
<1>3. UNCHANGED <<flash, power, ptrs, client>>
  BY <1>2 DEF Validate, Decide
<1>4. /\ TypeOK' /\ FlashOK' /\ Cells' = Cells /\ UNCHANGED <<power, request, spare>>
      /\ (Valid' <=> Valid) /\ Pointed' /\ InBoot'
  BY <1>3, Looks
<1>5. CASE Valid
  <2>1. todo' = Then(<< >>, Boot3)
    BY <1>2, <1>5 DEF Validate, Decide, Go, Then, Valid
  <2>2. todo' = Boot3
    BY <1>1, <2>1, NothingThen
  <2>3. Booting'
    BY <1>4, <1>5, <2>2 DEF Booting
  <2> QED BY <1>4, <2>3 DEF FtwInv, Place
<1>6. CASE ~Valid /\ IsValidWorkSpace(spare.work)
  <2>1. spare.work.cells = NoCells
    BY Facts, SpareFacts
  <2>2. todo' = Then(FlushSpareBlockToWorkingBlock(NoCells) \o Append(FtwAbort, Refresh), Boot3)
    BY <1>2, <1>6, <2>1 DEF Validate, Decide, Go, Then, Valid
  <2>3. todo' = Flush1(AbortLastOf(RefreshThen(Boot3)))
    BY <1>1, <2>2, ValidateProgram
  <2>4. Sound => Free(Cells')
    BY <1>4, <1>6, Facts DEF ContentOK
  <2>5. AbortLastOf(RefreshThen(Boot3)) \in FlushConts'
    BY <1>4 DEF FlushConts
  <2>6. Flushing'
    BY <2>3, <2>4, <2>5 DEF Flushing
  <2> QED BY <1>4, <2>6 DEF FtwInv, Place
<1>7. CASE ~Valid /\ ~IsValidWorkSpace(spare.work)
  <2>1. todo' = Then(FtwReclaimWorkSpace(NoCells, TRUE), Boot3)
    BY <1>2, <1>7 DEF Validate, Decide, Go, Then, Valid
  <2> DEFINE e == PointThen(Boot3)
             f == Restore1(spare, e)
  <2>2. todo' = Reclaim1(TRUE, f)
    BY <1>1, <2>1, ReclaimProgram
  <2>3. Boot3 \in BootConts /\ Boot3 \in Conts
    BY DEF BootConts, Conts
  <2>4. Fits(Boot3)'
    BY <1>4, <2>3, NotAbort DEF Fits
  <2>5. e \in PointConts'
    BY <2>3, <2>4 DEF PointConts, Fitting
  <2>6. f \in RestoreConts'
    BY <2>5, Facts DEF RestoreConts
  <2>7. Sound => Free(Cells')
    BY <1>4, <1>7, Facts DEF ContentOK
  <2> HIDE DEF f
  <2>8. Reclaiming'
    BY <2>2, <2>6, <2>7 DEF Reclaiming
  <2> QED BY <1>4, <2>8 DEF FtwInv, Place
<1> QED BY <1>5, <1>6, <1>7

\* InitFtwProtocol aborts a header whose first record is not backed up.
LEMMA StepAbortFirst ==
  ASSUME FtwInv, Driver, InBoot, todo = Boot3, Pointed, Valid
  PROVE  FtwInv'
<1>1. todo = Cons(Step("AbortFirst"), Boot4) /\ Step("AbortFirst").do = "AbortFirst" /\ IsSeq(Boot4)
  BY BootSeqs DEF Boot3, Step
<1>2. AbortFirst /\ Tail(todo) = Boot4
  BY <1>1, Dispatch, Taking
<1>3. UNCHANGED <<flash, power, ptrs, client>>
  BY <1>2 DEF AbortFirst, Decide
<1>4. TypeOK' /\ FlashOK' /\ Cells' = Cells /\ Valid' /\ Pointed' /\ InBoot' /\ Vouched'
  BY <1>3, Looks DEF Vouched
<1> DEFINE P == HEADER_ALLOCATED \in LastHdr.state /\ SPARE_COMPLETED \notin LastRec.state /\ IsFirstRecordOfWrites
<1>5. CASE P
  <2>1. todo' = Then(FtwAbort, Boot4)
    BY <1>2, <1>5 DEF AbortFirst, Decide, Go, Then
  <2>2. todo' = AbortLastOf(Boot4)
    BY <1>1, <2>1, AbortProgram
  <2>3. ~Held(Cells', {2})
    BY <1>4, <1>5, PointedHeld DEF RecordStates, SPARE_COMPLETED
  <2>4. Boot4 \in BootAborts
    BY DEF BootAborts
  <2>5. Place'
    BY <1>4, <2>2, <2>3, <2>4, ToAbort
  <2> QED BY <1>4, <2>5 DEF FtwInv
<1>6. CASE ~P
  <2>1. todo' = Then(<< >>, Boot4)
    BY <1>2, <1>6 DEF AbortFirst, Decide, Go, Then
  <2>2. todo' = Boot4
    BY <1>1, <2>1, NothingThen
  <2>3. Settled' \/ \E s \in {{2}, {2, 4}} : Held(Cells', s)
    <3>1. CASE Free(Cells)
      BY <1>4, <3>1 DEF Settled
    <3>2. ASSUME NEW s \in RecordStates, Held(Cells, s)
          PROVE  \E t \in {{2}, {2, 4}} : Held(Cells', t)
      <4>1. s # {}
        BY <1>6, <3>2, PointedHeld, PointedFacts DEF HEADER_ALLOCATED
      <4> QED BY <1>4, <3>2, <4>1 DEF RecordStates
    <3> QED BY <3>1, <3>2, Facts DEF LayoutOK
  <2>4. Booting'
    BY <1>4, <2>2, <2>3 DEF Booting
  <2> QED BY <1>4, <2>4 DEF FtwInv, Place
<1> QED BY <1>5, <1>6

\* What AbortLast, CheckEmpty and RestartPending see if nothing is open.
LEMMA SettledFacts ==
  ASSUME FtwInv, Settled
  PROVE  /\ Free(Cells) /\ ~LastCompletedHeaderNot
         /\ ~(WRITES_COMPLETED \notin LastHdr.state /\ SPARE_COMPLETED \in LastRec.state)
<1>1. CASE Passed
  BY <1>1 DEF Passed, LastCompletedHeaderNot
<1>2. CASE Pointed /\ Free(Cells)
  BY <1>2, PointedFree DEF LastCompletedHeaderNot
<1> QED BY <1>1, <1>2 DEF Settled

\* InitFtwProtocol aborts a header whose records are complete.
LEMMA StepAbortLast ==
  ASSUME FtwInv, Driver, InBoot, todo = Boot4, Valid,
         Settled \/ (Pointed /\ \E s \in {{2}, {2, 4}} : Held(Cells, s))
  PROVE  FtwInv'
<1>1. todo = Cons(Step("AbortLast"), Boot5) /\ Step("AbortLast").do = "AbortLast" /\ IsSeq(Boot5)
  BY BootSeqs DEF Boot4, Step
<1>2. AbortLast /\ Tail(todo) = Boot5
  BY <1>1, Dispatch, Taking
<1>3. UNCHANGED <<flash, power, ptrs, client>>
  BY <1>2 DEF AbortLast, Decide
<1>4. /\ TypeOK' /\ FlashOK' /\ Cells' = Cells /\ Valid' /\ (Settled' <=> Settled) /\ (Pointed' <=> Pointed)
      /\ InBoot' /\ Vouched'
  BY <1>3, Looks DEF Vouched
<1>5. CASE LastCompletedHeaderNot
  <2>1. todo' = Then(FtwAbort, Boot5)
    BY <1>2, <1>5 DEF AbortLast, Decide, Go, Then
  <2>2. todo' = AbortLastOf(Boot5)
    BY <1>1, <2>1, AbortProgram
  <2>3. ~Held(Cells', {2})
    <3>1. Pointed /\ ~Settled
      BY <1>5, SettledFacts
    <3>2. 4 \in LastRec.state
      BY <1>5 DEF LastCompletedHeaderNot, DEST_COMPLETED
    <3>3. Held(Cells, {2}) => LastRec.state = {2}
      BY <3>1, PointedHeld DEF RecordStates
    <3> QED BY <1>4, <3>2, <3>3
  <2>4. Boot5 \in BootAborts
    BY DEF BootAborts
  <2>5. Place'
    BY <1>4, <2>2, <2>3, <2>4, ToAbort
  <2> QED BY <1>4, <2>5 DEF FtwInv
<1>6. CASE ~LastCompletedHeaderNot
  <2>1. todo' = Then(<< >>, Boot5)
    BY <1>2, <1>6 DEF AbortLast, Decide, Go, Then
  <2>2. todo' = Boot5
    BY <1>1, <2>1, NothingThen
  <2>3. Settled' \/ (Pointed' /\ Held(Cells', {2}))
    <3>1. ASSUME Pointed, Held(Cells, {2, 4})
          PROVE  FALSE
      <4>1. LastRec.state = {2, 4} /\ IsLastRecordOfWrites
        BY <3>1, PointedHeld DEF RecordStates
      <4> QED BY <1>6, <3>1, <4>1, PointedFacts DEF LastCompletedHeaderNot, DEST_COMPLETED
    <3> QED BY <1>4, <3>1
  <2>4. Booting'
    BY <1>4, <2>2, <2>3 DEF Booting
  <2> QED BY <1>4, <2>4 DEF FtwInv, Place
<1> QED BY <1>5, <1>6

\* InitFtwProtocol finds the space behind the last header erased.
LEMMA StepCheckEmpty ==
  ASSUME FtwInv, Driver, InBoot, todo = Boot5, Valid, Settled \/ (Pointed /\ Held(Cells, {2}))
  PROVE  FtwInv'
<1>1. todo = Cons(Step("CheckEmpty"), Boot6) /\ Step("CheckEmpty").do = "CheckEmpty" /\ IsSeq(Boot6)
  BY BootSeqs DEF Boot5, Step
<1>2. CheckEmpty /\ Tail(todo) = Boot6
  BY <1>1, Dispatch, Taking
<1>3. UNCHANGED <<flash, power, ptrs, client>>
  BY <1>2 DEF CheckEmpty, Decide
<1>4. /\ TypeOK' /\ FlashOK' /\ Cells' = Cells /\ Valid' /\ (Settled' <=> Settled) /\ (Pointed' <=> Pointed)
      /\ InBoot'
  BY <1>3, Looks
<1> DEFINE end == IF LastHdr.state = {} THEN FtwLastWriteHeader ELSE FtwLastWriteHeader + 1 + LastHdr.num
<1>5. \A i \in Index : i >= end => Cells[i] = Erased
  <2>1. CASE Passed
    <3>0. FtwLastWriteHeader \in Nat
      BY <2>1, Facts DEF TypeOK, Index
    <3>1. end = FtwLastWriteHeader + 2
      BY <2>1, <3>0 DEF Passed
    <3>2. \A i \in Index : i >= FtwLastWriteHeader + 2 => i > FtwLastWriteRecord
      BY <2>1, <3>0, Facts DEF Passed, Index
    <3> QED BY <2>1, <3>1, <3>2 DEF Passed
  <2>2. CASE Pointed /\ Free(Cells)
    <3>1. end = Last
      BY <2>2, PointedFree, PointedFacts
    <3> QED BY <2>2, <3>1 DEF Free, Last
  <2>3. CASE Pointed /\ Held(Cells, {2})
    <3>1. LastHdr.num = 1 /\ LastHdr.state # {} /\ \A i \in Index : i >= FtwLastWriteHeader + 2 => Cells[i] = Erased
      BY <2>3, PointedHeld DEF RecordStates
    <3>2. end = FtwLastWriteHeader + 2
      BY <2>3, <3>1, PointedFacts
    <3> QED BY <3>1, <3>2
  <2> QED BY <2>1, <2>2, <2>3 DEF Settled
<1>6. todo' = Then(<< >>, Boot6)
  BY <1>2, <1>5 DEF CheckEmpty, Decide, Go, Then
<1>7. todo' = Boot6
  BY <1>1, <1>6, NothingThen
<1>8. Booting'
  BY <1>4, <1>7 DEF Booting
<1> QED BY <1>4, <1>8 DEF FtwInv, Place

\* InitFtwProtocol restarts a write that was backed up.
LEMMA StepRestartPending ==
  ASSUME FtwInv, Driver, InBoot, todo = Boot6, Valid, Settled \/ (Pointed /\ Held(Cells, {2}))
  PROVE  FtwInv'
<1>1. todo = Cons(Step("RestartPending"), Boot7) /\ Step("RestartPending").do = "RestartPending" /\ IsSeq(Boot7)
  BY BootSeqs DEF Boot6, Step
<1>2. RestartPending /\ Tail(todo) = Boot7
  BY <1>1, Dispatch, Taking
<1>3. UNCHANGED <<flash, power, ptrs, client>>
  BY <1>2 DEF RestartPending
<1>4. TypeOK' /\ FlashOK' /\ Cells' = Cells /\ Valid' /\ InBoot' /\ Vouched'
  BY <1>3, Looks DEF Vouched
<1> DEFINE P == WRITES_COMPLETED \notin LastHdr.state /\ SPARE_COMPLETED \in LastRec.state
<1>5. CASE todo' = Then(FtwRestart \o FtwAbort, Boot7)
  <2> DEFINE c == RestartThen(AbortLastOf(Boot7))
  <2>1. todo' = RefreshThen(c)
    BY <1>1, <1>5, RestartProgram
  <2>2. c \in BootConts /\ c \in Conts
    BY DEF BootConts, Conts
  <2>3. Fits(c)'
    BY <1>4, <2>2, NotAbort DEF Fits
  <2>4. Place'
    BY <1>4, <2>1, <2>2, <2>3, ToRefresh
  <2> QED BY <1>4, <2>4 DEF FtwInv
<1>6. CASE LookupFails /\ todo' = Then(FtwAbort, Boot7)
  <2>1. todo' = AbortLastOf(Boot7)
    BY <1>1, <1>6, AbortProgram
  <2>2. Boot7 \in BootAborts /\ ~Sound
    BY <1>6 DEF BootAborts, Sound
  <2>3. Place'
    BY <1>4, <2>1, <2>2, ToAbort
  <2> QED BY <1>4, <2>3 DEF FtwInv
<1>7. CASE ~P /\ todo' = Then(<< >>, Boot7)
  <2>1. todo' = Boot7
    BY <1>1, <1>7, NothingThen
  <2>2. Free(Cells')
    <3>1. CASE Settled
      BY <1>4, <3>1, SettledFacts
    <3>2. ASSUME Pointed, Held(Cells, {2})
          PROVE  FALSE
      BY <1>7, <3>2, PointedHeld, PointedFacts DEF RecordStates, SPARE_COMPLETED
    <3> QED BY <3>1, <3>2
  <2>3. Booting'
    BY <1>4, <2>1, <2>2 DEF Booting
  <2> QED BY <1>4, <2>3 DEF FtwInv, Place
<1> QED BY <1>2, <1>5, <1>6, <1>7 DEF RestartPending, Go, Then

\* InitFtwProtocol installs the protocol.
LEMMA StepHook ==
  ASSUME FtwInv, Driver, InBoot, todo = Boot7, Valid, Free(Cells)
  PROVE  FtwInv'
<1>1. todo = Cons(Step("Hook"), << >>) /\ Step("Hook").do = "Hook"
  BY DEF Boot7, Step
<1>2. Hook /\ Tail(todo) = << >>
  BY <1>1, NoSteps, Dispatch, Taking
<1>3. UNCHANGED <<flash, ptrs, client>> /\ power' = "on"
  BY <1>2 DEF Hook
<1>4. todo' = Then(<< >>, << >>)
  BY <1>2 DEF Hook, Go, Then
<1>5. todo' = << >>
  BY <1>4, NoSteps, NothingThen
<1>6. Cells' = Cells /\ Valid' /\ request' = NoRequest
  BY <1>3 DEF flash, client, Cells, Valid, InBoot
<1>7. TypeOK'
  BY <1>3, Facts DEF TypeOK, flash, ptrs, client
<1>8. FlashOK'
  BY <1>3, Facts DEF FlashOK, flash, ContentOK, Unfinished, Valid, Last, Cells
<1>9. Quiet' /\ Vouched' /\ InPlain'
  BY <1>3, <1>6 DEF Quiet, Vouched, InPlain
<1>10. Place'
  BY <1>5, <1>9, Leaves
<1> QED BY <1>7, <1>8, <1>10 DEF FtwInv

-----------------------------------------------------------------------------
(* The operations on the cells *)

\* What a reader gets once InitFtwProtocol has done its work.
Contents == [b \in Blocks |-> IF Unfinished(b) THEN spare.val ELSE target[b]]

\* Without a backed up record the contents are those of the target blocks.
LEMMA NoBackup ==
  ASSUME UNCHANGED target, ~Held(Cells, {2}), ~Held(Cells', {2})
  PROVE  UNCHANGED Contents
<1>1. \A b \in Blocks : ~Unfinished(b) /\ ~Unfinished(b)'
  BY DEF Unfinished
<1> QED BY <1>1 DEF Contents

\* A change of a cell, as a change of all cells.
LEMMA CellUpdates ==
  ASSUME NEW w \in WorkingBlock, NEW i, NEW c
  PROVE  /\ [w EXCEPT !.cells[i] = c] = [w EXCEPT !.cells = [w.cells EXCEPT ![i] = c]]
         /\ [w EXCEPT !.cells[i].state = @ \cup {c}]
              = [w EXCEPT !.cells = [w.cells EXCEPT ![i].state = @ \cup {c}]]
OBVIOUS

\* A state bit of a header or a record is set.
LEMMA TakeCellBit ==
  ASSUME FtwInv, Driver, NEW i, NEW bit, NEW s, IsSeq(s), todo = Cons(CellBit(i, bit), s)
  PROVE  /\ todo' = s /\ UNCHANGED <<spare, target, power, ptrs, client>>
         /\ work' = [work EXCEPT !.cells = [Cells EXCEPT ![i].state = @ \cup {bit}]]
<1>1. CellBit(i, bit).do = "CellBit" /\ CellBit(i, bit).at = i /\ CellBit(i, bit).bit = bit
  BY DEF CellBit
<1>2. DoCellBit /\ Tail(todo) = s /\ Op = CellBit(i, bit)
  BY <1>1, Dispatch, Taking
<1>3. todo' = s /\ UNCHANGED <<spare, target, power, ptrs, client>>
      /\ work' = [work EXCEPT !.cells[Op.at].state = @ \cup {Op.bit}]
  BY <1>2 DEF DoCellBit, Flash
<1>4. Op.at = i /\ Op.bit = bit
  BY <1>1, <1>2
<1> QED BY <1>3, <1>4, CellUpdates, Facts DEF Cells

\* A header or a record is written.
LEMMA TakeWriteCell ==
  ASSUME FtwInv, Driver, NEW i, NEW c, NEW s, IsSeq(s), todo = Cons(WriteCell(i, c), s)
  PROVE  /\ todo' = s /\ UNCHANGED <<spare, target, power, ptrs, client>>
         /\ work' = [work EXCEPT !.cells = [Cells EXCEPT ![i] = c]]
<1>1. WriteCell(i, c).do = "WriteCell" /\ WriteCell(i, c).at = i /\ WriteCell(i, c).cell = c
  BY DEF WriteCell
<1>2. DoWriteCell /\ Tail(todo) = s /\ Op = WriteCell(i, c)
  BY <1>1, Dispatch, Taking
<1>3. todo' = s /\ UNCHANGED <<spare, target, power, ptrs, client>>
      /\ work' = [work EXCEPT !.cells[Op.at] = Op.cell]
  BY <1>2 DEF DoWriteCell, Flash
<1>4. Op.at = i /\ Op.cell = c
  BY <1>1, <1>2
<1> QED BY <1>3, <1>4, CellUpdates, Facts DEF Cells

\* The spare block is erased or written.
LEMMA TakeEraseSpare ==
  ASSUME Driver, NEW s, IsSeq(s), todo = Cons(EraseSpare, s)
  PROVE  todo' = s /\ spare' = Wiped /\ UNCHANGED <<work, target, power, ptrs, client>>
<1>1. EraseSpare.do = "EraseSpare"
  BY DEF EraseSpare, Step
<1>2. DoEraseSpare /\ Tail(todo) = s
  BY <1>1, Dispatch, Taking
<1> QED BY <1>2 DEF DoEraseSpare, Flash

\* The driver writes the spare block.
LEMMA TakeWriteSpare ==
  ASSUME Driver, NEW d, NEW s, IsSeq(s), todo = Cons(WriteSpare(d), s)
  PROVE  todo' = s /\ spare' = d /\ UNCHANGED <<work, target, power, ptrs, client>>
<1>1. WriteSpare(d).do = "WriteSpare" /\ WriteSpare(d).data = d
  BY DEF WriteSpare
<1>2. DoWriteSpare /\ Tail(todo) = s /\ Op = WriteSpare(d)
  BY <1>1, Dispatch, Taking
<1> QED BY <1>1, <1>2 DEF DoWriteSpare, Flash

\* What FtwAbort and FtwWriteRecord do last: the header is completed.
LEMMA StepComplete ==
  ASSUME FtwInv, Driver, NEW x, IsSeq(x), todo = Copy4(x), Pointed, Vouched,
         Sound => ~Held(Cells, {2}), ~Free(Cells)
  PROVE  /\ TypeOK' /\ FlashOK' /\ Vouched' /\ Free(Cells') /\ Settled' /\ Quiet' /\ todo' = x
         /\ UNCHANGED <<spare, target, power, ptrs, client>> /\ (Sound => UNCHANGED Contents)
<1> DEFINE cells == [Cells EXCEPT ![Last].state = @ \cup {WRITES_COMPLETED}]
<1>1. FtwLastWriteHeader = Last /\ FtwLastWriteRecord = Last + 1 /\ Last + 1 < W /\ Last \in Index
  BY PointedFacts
<1>2. todo = Cons(CellBit(Last, WRITES_COMPLETED), x)
  BY <1>1 DEF Copy4
<1>3. todo' = x /\ UNCHANGED <<spare, target, power, ptrs, client>> /\ work' = [work EXCEPT !.cells = cells]
  BY <1>2, TakeCellBit
<1>4. PICK s \in RecordStates : Held(Cells, s)
  BY Facts DEF LayoutOK
<1> HIDE DEF cells
<1>5. /\ LayoutOK(cells) /\ Free(cells) /\ WRITES_COMPLETED \in cells[Last].state /\ cells[Last].num = 1
      /\ \A i \in Index : i > Last + 1 => cells[i] = Erased
  BY <1>4, Facts, CompleteHeader DEF Last, cells
<1>6. cells \in [Index -> Cell] /\ ~Held(cells, {2})
  BY <1>5, FreeFacts DEF LayoutOK, RecordStates
<1>7. Sound => Valid /\ \A b \in Blocks : target[b] \in Values
  BY UnfinishedFacts DEF Vouched
<1>8. TypeOK' /\ FlashOK' /\ Cells' = cells /\ Vouched'
  BY <1>3, <1>5, <1>6, <1>7, CellChanges
<1>9. UNCHANGED <<FtwLastWriteHeader, FtwLastWriteRecord>>
  BY <1>3 DEF ptrs
<1>10. Passed'
  BY <1>1, <1>5, <1>8, <1>9 DEF Passed, LastHdr
<1>11. Sound => UNCHANGED Contents
  BY <1>3, <1>6, <1>8, NoBackup
<1> QED BY <1>3, <1>5, <1>8, <1>10, <1>11 DEF Settled, Quiet

\* FtwAbort completes the header.
LEMMA StepAbortComplete ==
  ASSUME FtwInv, Driver, NEW x \in BootAborts \cup {<< >>}, IF x = << >> THEN InPlain ELSE InBoot,
         Sound => ~Held(Cells, {2}), Vouched, Pointed, todo = Copy4(x), ~Free(Cells)
  PROVE  FtwInv' /\ (Sound => UNCHANGED Contents)
<1>1. IsSeq(x)
  BY AbortSeqs, NoSteps
<1>2. /\ TypeOK' /\ FlashOK' /\ Vouched' /\ Free(Cells') /\ Settled' /\ todo' = x
      /\ UNCHANGED <<power, client>> /\ (Sound => UNCHANGED Contents)
  BY <1>1, StepComplete
<1>3. (InPlain' <=> InPlain) /\ (InBoot' <=> InBoot)
  BY <1>2 DEF client, InPlain, InBoot
<1>4. Place'
  BY <1>2, <1>3, AfterAbort
<1> QED BY <1>2, <1>4 DEF FtwInv

\* FtwAbort decides whether there is a header to complete.
LEMMA StepAbort ==
  ASSUME FtwInv, Driver, NEW x \in BootAborts \cup {<< >>}, IF x = << >> THEN InPlain /\ Quiet ELSE InBoot,
         Sound => ~Held(Cells, {2}), Vouched, Pointed, todo = AbortThen(x)
  PROVE  FtwInv'
<1>1. IsSeq(x)
  BY AbortSeqs, NoSteps
<1>2. todo = Cons(Step("Abort"), x) /\ Step("Abort").do = "Abort"
  BY DEF AbortThen, Step
<1>3. Abort /\ Tail(todo) = x
  BY <1>1, <1>2, Dispatch, Taking
<1>4. UNCHANGED <<flash, power, ptrs, client>>
  BY <1>3 DEF Abort, Decide
<1>5. /\ TypeOK' /\ FlashOK' /\ Cells' = Cells /\ Vouched' /\ Pointed'
      /\ (InPlain' <=> InPlain) /\ (InBoot' <=> InBoot) /\ (Quiet' <=> Quiet)
      /\ FtwLastWriteHeader' = FtwLastWriteHeader
  BY <1>4, Looks DEF ptrs
<1> DEFINE P == HEADER_ALLOCATED \in LastHdr.state /\ WRITES_COMPLETED \notin LastHdr.state
<1>6. CASE P
  <2>1. todo' = Then(<<CellBit(FtwLastWriteHeader, WRITES_COMPLETED)>>, x)
    BY <1>3, <1>6 DEF Abort, Decide, Go, Then
  <2>2. todo' = Copy4(x)
    BY <1>1, <2>1, Run1 DEF Copy4
  <2>3. todo' = Copy4(x)'
    BY <1>5, <2>2 DEF Copy4
  <2>4. ~Free(Cells')
    BY <1>5, <1>6, PointedFree
  <2>5. Aborting'
    BY <1>5, <2>3, <2>4 DEF Aborting
  <2> QED BY <1>5, <2>5 DEF FtwInv, Place
<1>7. CASE ~P
  <2>1. todo' = Then(<< >>, x)
    BY <1>3, <1>7 DEF Abort, Decide, Go, Then
  <2>2. todo' = x
    BY <1>1, <2>1, NothingThen
  <2>3. Free(Cells)
    <3>1. ASSUME NEW s \in RecordStates, Held(Cells, s)
          PROVE  FALSE
      BY <1>7, <3>1, PointedHeld, PointedFacts DEF HEADER_ALLOCATED
    <3> QED BY <3>1, Facts DEF LayoutOK
  <2>4. Place'
    BY <1>5, <2>2, <2>3, AfterAbort DEF Settled
  <2> QED BY <1>5, <2>4 DEF FtwInv
<1> QED BY <1>6, <1>7

\* To FtwWriteRecord.
LEMMA ToCopy ==
  ASSUME NEW b \in Blocks, NEW v \in Values \cup {Garbage}, NEW y \in CopyConts, Copies(b, v, y)',
         Vouched', AtRecord(b, {2})', spare'.val = v, todo' = Copy1(b, v, y)'
  PROVE  Place'
<1>1. Copying'
  BY DEF Copying
<1> QED BY <1>1 DEF Place

\* FtwRestart decides whether there is a record to copy.
LEMMA StepRestart ==
  ASSUME FtwInv, Driver, NEW x \in {AbortLastOf(Boot7), << >>},
         IF x = << >> THEN InPlain /\ Quiet ELSE InBoot, Vouched, Pointed, todo = RestartThen(x)
  PROVE  FtwInv'
<1>1. IsSeq(x)
  BY BootSeqs, PlainSeqs, NoSteps
<1>2. todo = Cons(Step("Restart"), x) /\ Step("Restart").do = "Restart"
  BY DEF RestartThen, Step
<1>3. Restart /\ Tail(todo) = x
  BY <1>1, <1>2, Dispatch, Taking
<1>4. UNCHANGED <<flash, power, ptrs, client>>
  BY <1>3 DEF Restart, Decide
<1>5. /\ TypeOK' /\ FlashOK' /\ Cells' = Cells /\ Vouched' /\ Pointed' /\ UNCHANGED <<spare, power, request>>
      /\ (InPlain' <=> InPlain) /\ (InBoot' <=> InBoot) /\ (Quiet' <=> Quiet) /\ LastRec' = LastRec
  BY <1>4, Looks
<1> DEFINE P == \/ WRITES_COMPLETED \in LastHdr.state
                \/ DEST_COMPLETED \in LastRec.state
                \/ SPARE_COMPLETED \notin LastRec.state
<1>6. CASE P
  <2>1. todo' = Then(<< >>, x)
    BY <1>3, <1>6 DEF Restart, Decide, Go, Then
  <2>2. todo' = x
    BY <1>1, <2>1, NothingThen
  <2>3. ~Held(Cells, {2})
    BY <1>6, PointedHeld, PointedFacts DEF RecordStates, DEST_COMPLETED, SPARE_COMPLETED
  <2>4. CASE x = << >>
    <3>1. Place'
      BY <1>5, <2>2, <2>4, Leaves
    <3> QED BY <1>5, <3>1 DEF FtwInv
  <2>5. CASE x = AbortLastOf(Boot7) /\ x # << >>
    <3>1. Boot7 \in BootAborts
      BY DEF BootAborts
    <3>2. Place'
      BY <1>5, <2>2, <2>3, <2>5, <3>1, ToAbort
    <3> QED BY <1>5, <3>2 DEF FtwInv
  <2> QED BY <2>4, <2>5
<1>7. CASE ~P
  <2>1. PICK s \in RecordStates : Held(Cells, s)
    BY <1>7, Facts, PointedFree DEF LayoutOK, SPARE_COMPLETED
  <2>2. LastRec.state = s /\ s = {2}
    BY <1>7, <2>1, PointedHeld DEF RecordStates, SPARE_COMPLETED, DEST_COMPLETED
  <2>3. IsLastRecordOfWrites
    BY <2>1, PointedHeld
  <2> DEFINE y == EraseThen(x)
  <2>4. PICK b, v : b = LastRec.blk /\ v = spare.val
    OBVIOUS
  <2>5. todo' = Then(Append(FtwWriteRecord(b, v), EraseSpare), x)
    BY <1>3, <1>7, <2>4 DEF Restart, Decide, Go, Then
  <2>6. todo' = Copy1(b, v, y)
    BY <1>1, <2>3, <2>5, CopyProgram
  <2>7. b \in Blocks /\ LastRec = RecordIn(b, {2})
    <3>1. Cells[Last + 1] \in RecordCells({2})
      BY <2>1, <2>2 DEF Held, Last
    <3>2. PICK d \in Blocks : Cells[Last + 1] = RecordIn(d, {2})
      BY <3>1 DEF RecordCells
    <3> QED BY <2>4, <3>2, PointedFacts DEF RecordIn
  <2>8. v \in Values \cup {Garbage}
    BY <2>4, Facts, SpareFacts
  <2>9. y \in CopyConts /\ Copies(b, v, y)'
    BY <1>5 DEF CopyConts, Copies
  <2>10. AtRecord(b, {2})' /\ spare'.val = v
    BY <1>5, <2>1, <2>2, <2>4, <2>7 DEF AtRecord
  <2> HIDE DEF y
  <2>11. todo' = Copy1(b, v, y)'
    BY <1>4, <2>6 DEF Copy1, Copy2, Copy3, Copy4, ptrs
  <2>12. Place'
    BY <1>5, <2>7, <2>8, <2>9, <2>10, <2>11, ToCopy
  <2> QED BY <1>5, <2>12 DEF FtwInv
<1> QED BY <1>6, <1>7

-----------------------------------------------------------------------------
(* FtwWriteRecord *)

\* The contents of b are in the spare block.
LEMMA BackedUp ==
  ASSUME FtwInv, NEW b \in Blocks, AtRecord(b, {2}), Vouched
  PROVE  Sound => Unfinished(b) /\ Valid /\ spare.val \in Values /\ \A d \in Blocks : Unfinished(d) => d = b
<1>1. Held(Cells, {2}) /\ LastRec.blk = b /\ Pointed
  BY DEF AtRecord, RecordIn
<1>2. Cells[Last + 1].blk = b
  BY <1>1, PointedFacts
<1> QED BY <1>1, <1>2, Facts DEF Unfinished, Vouched, ContentOK

\* ... and stay as they are while the target is written.
LEMMA TargetKeeps ==
  ASSUME FtwInv, NEW b \in Blocks, Sound => Unfinished(b), UNCHANGED <<work, spare>>, NEW v,
         target' = [target EXCEPT ![b] = v]
  PROVE  Sound => UNCHANGED Contents
<1>1. \A d \in Blocks : Unfinished(d)' <=> Unfinished(d)
  BY DEF Unfinished, Valid, Last, Cells
<1>2. \A d \in Blocks : d # b => target'[d] = target[d]
  BY Facts
<1> QED BY <1>1, <1>2 DEF Contents

\* FtwWriteRecord erases the target block, whose contents are in the spare block.
LEMMA StepCopyErase ==
  ASSUME FtwInv, Driver, NEW b \in Blocks, NEW v \in Values \cup {Garbage}, NEW y \in CopyConts,
         Copies(b, v, y), Vouched, AtRecord(b, {2}), spare.val = v, todo = Copy1(b, v, y)
  PROVE  FtwInv'
<1>1. IsSeq(y)
  BY CopySeqs
<1>2. IsSeq(Copy2(b, v, y))
  BY <1>1, WriteSeqs
<1>3. todo = Cons(EraseTarget(b), Copy2(b, v, y)) /\ EraseTarget(b).do = "EraseTarget" /\ EraseTarget(b).blk = b
  BY DEF Copy1, EraseTarget
<1>4. DoEraseTarget /\ Tail(todo) = Copy2(b, v, y) /\ Op = EraseTarget(b)
  BY <1>2, <1>3, Dispatch, Taking
<1>5. /\ target' = [target EXCEPT ![b] = Garbage] /\ todo' = Copy2(b, v, y)
      /\ UNCHANGED <<work, spare, power, ptrs, client>>
  BY <1>3, <1>4 DEF DoEraseTarget, Flash
<1>6. TypeOK' /\ FlashOK'
  BY <1>5, BackedUp, TargetChanges
<1>7. Vouched' /\ AtRecord(b, {2})' /\ Copies(b, v, y)' /\ todo' = Copy2(b, v, y)'
  <2>1. UNCHANGED <<work, spare, power, request, FtwLastWriteHeader, FtwLastWriteRecord>>
    BY <1>5 DEF ptrs, client
  <2>2. Vouched' /\ AtRecord(b, {2})'
    BY <2>1 DEF Vouched, Valid, AtRecord, Pointed, LastRec, Last, Cells
  <2>3. Copies(b, v, y)'
    BY <2>1 DEF Copies, InBoot, InPlain, InWrite
  <2> QED BY <1>5, <2>1, <2>2, <2>3 DEF Copy2, Copy3, Copy4
<1>8. Copying'
  BY <1>5, <1>7 DEF Copying
<1> QED BY <1>6, <1>8 DEF FtwInv, Place

\* FtwWriteRecord writes the target block.
LEMMA StepCopyWrite ==
  ASSUME FtwInv, Driver, NEW b \in Blocks, NEW v \in Values \cup {Garbage}, NEW y \in CopyConts,
         Copies(b, v, y), Vouched, AtRecord(b, {2}), spare.val = v, todo = Copy2(b, v, y)
  PROVE  FtwInv'
<1>1. IsSeq(y)
  BY CopySeqs
<1>2. IsSeq(Copy3(y))
  BY <1>1, WriteSeqs
<1> DEFINE x == WriteTarget(b, v)
<1>3. todo = Cons(x, Copy3(y)) /\ x.do = "WriteTarget" /\ x.blk = b /\ x.val = v
  BY DEF Copy2, WriteTarget
<1>4. DoWriteTarget /\ Tail(todo) = Copy3(y) /\ Op = x
  BY <1>2, <1>3, Dispatch, Taking
<1>5. /\ target' = [target EXCEPT ![b] = v] /\ todo' = Copy3(y)
      /\ UNCHANGED <<work, spare, power, ptrs, client>>
  BY <1>3, <1>4 DEF DoWriteTarget, Flash
<1>6. TypeOK' /\ FlashOK'
  BY <1>5, BackedUp, TargetChanges
<1>7. Vouched' /\ AtRecord(b, {2})' /\ Copies(b, v, y)' /\ todo' = Copy3(y)'
  <2>1. UNCHANGED <<work, spare, power, request, FtwLastWriteHeader, FtwLastWriteRecord>>
    BY <1>5 DEF ptrs, client
  <2>2. Vouched' /\ AtRecord(b, {2})'
    BY <2>1 DEF Vouched, Valid, AtRecord, Pointed, LastRec, Last, Cells
  <2>3. Copies(b, v, y)'
    BY <2>1 DEF Copies, InBoot, InPlain, InWrite
  <2> QED BY <1>5, <2>1, <2>2, <2>3 DEF Copy3, Copy4
<1>8. target'[b] = v
  BY <1>5, Facts
<1>9. Copying'
  BY <1>5, <1>7, <1>8 DEF Copying
<1> QED BY <1>6, <1>9 DEF FtwInv, Place

\* FtwWriteRecord sets DestinationComplete: the contents are in the target block.
LEMMA StepCopyDone ==
  ASSUME FtwInv, Driver, NEW b \in Blocks, NEW v \in Values \cup {Garbage}, NEW y \in CopyConts,
         Copies(b, v, y), Vouched, AtRecord(b, {2}), spare.val = v, target[b] = v, todo = Copy3(y)
  PROVE  FtwInv' /\ (Sound => UNCHANGED Contents)
<1>1. IsSeq(y)
  BY CopySeqs
<1>2. IsSeq(Copy4(y))
  BY <1>1, WriteSeqs
<1>3. Pointed /\ Held(Cells, {2}) /\ LastRec = RecordIn(b, {2})
  BY DEF AtRecord
<1>4. FtwLastWriteRecord = Last + 1 /\ FtwLastWriteHeader = Last /\ LastRec = Cells[Last + 1] /\ Last + 1 < W
  BY <1>3, PointedFacts
<1> DEFINE cells == [Cells EXCEPT ![Last + 1].state = @ \cup {DEST_COMPLETED}]
<1>5. todo = Cons(CellBit(Last + 1, DEST_COMPLETED), Copy4(y))
  BY <1>4 DEF Copy3
<1>6. /\ todo' = Copy4(y) /\ UNCHANGED <<spare, target, power, ptrs, client>>
      /\ work' = [work EXCEPT !.cells = cells]
  BY <1>2, <1>5, TakeCellBit
<1> HIDE DEF cells
<1>7. {2} \in RecordStates /\ {2} \cup {DEST_COMPLETED} = {2, 4} /\ {2, 4} \in RecordStates
  BY DEF RecordStates, DEST_COMPLETED
<1>8. /\ LayoutOK(cells) /\ LastHeader(cells) = Last /\ Held(cells, {2, 4})
      /\ cells[Last + 1] = RecordIn(b, {2, 4})
  <2>1. LayoutOK(Cells) /\ Held(Cells, {2}) /\ Cells[Last + 1] = RecordIn(b, {2})
    BY <1>3, <1>4, Facts
  <2>2. [Cells[Last + 1] EXCEPT !.state = @ \cup {DEST_COMPLETED}] = RecordIn(b, {2, 4})
    BY <1>7, <2>1 DEF RecordIn
  <2>3. cells = [Cells EXCEPT ![Last + 1] = RecordIn(b, {2, 4})]
    BY <2>2 DEF cells
  <2>4. PICK c : c = RecordIn(b, {2, 4})
    OBVIOUS
  <2>5. c \in RecordCells({2, 4}) /\ cells = Replaced(Cells, c)
    BY <2>3, <2>4 DEF RecordCells, Last, Replaced
  <2>6. ~Free(Cells)
    BY <1>7, <2>1, Facts, HeldFacts
  <2>7. /\ LayoutOK(cells) /\ LastHeader(cells) = LastHeader(Cells) /\ Held(cells, {2, 4})
        /\ cells[LastHeader(Cells) + 1] = c
    BY <1>7, <2>1, <2>5, <2>6, ReplaceRecord
  <2> QED BY <2>4, <2>7 DEF Last
<1>9. cells \in [Index -> Cell] /\ ~Held(cells, {2})
  BY <1>7, <1>8, HeldOnce DEF LayoutOK
<1>10. Sound => Valid /\ \A d \in Blocks : target[d] \in Values
  BY BackedUp, Facts DEF ContentOK
<1>11. TypeOK' /\ FlashOK' /\ Cells' = cells /\ Vouched' /\ (Valid' <=> Valid)
  BY <1>6, <1>8, <1>9, <1>10, CellChanges
<1>12. UNCHANGED <<FtwLastWriteHeader, FtwLastWriteRecord, power, request>>
  BY <1>6 DEF ptrs, client
<1>13. AtRecord(b, {2, 4})' /\ Copies(b, v, y)' /\ todo' = Copy4(y)'
  <2>1. Last' = Last /\ Pointed'
    BY <1>3, <1>8, <1>11, <1>12 DEF Last, Pointed
  <2>2. AtRecord(b, {2, 4})'
    BY <1>4, <1>8, <1>11, <1>12, <2>1 DEF AtRecord, LastRec
  <2> QED BY <1>6, <1>12, <2>2 DEF Copies, InBoot, InPlain, InWrite, Copy4
<1>14. Copying'
  BY <1>6, <1>11, <1>13 DEF Copying
<1>15. Sound => UNCHANGED Contents
  <2>1. \A d \in Blocks : ~Unfinished(d)'
    BY <1>9, <1>11 DEF Unfinished
  <2>2. Sound => \A d \in Blocks : Unfinished(d) => d = b
    BY BackedUp
  <2> QED BY <1>6, <2>1, <2>2 DEF Contents
<1> QED BY <1>11, <1>14, <1>15 DEF FtwInv, Place

\* FtwWriteRecord completes the header.
LEMMA StepCopyComplete ==
  ASSUME FtwInv, Driver, NEW b \in Blocks, NEW v \in Values \cup {Garbage}, NEW y \in CopyConts,
         Copies(b, v, y), Vouched, AtRecord(b, {2, 4}), target[b] = v, todo = Copy4(y)
  PROVE  FtwInv' /\ (Sound => UNCHANGED Contents)
<1>1. IsSeq(y)
  BY CopySeqs
<1>2. Pointed /\ Held(Cells, {2, 4}) /\ {2, 4} \in RecordStates /\ {2} \in RecordStates
  BY DEF AtRecord, RecordStates
<1>3. ~Free(Cells) /\ ~Held(Cells, {2})
  BY <1>2, Facts, HeldFacts, HeldOnce
<1>4. /\ TypeOK' /\ FlashOK' /\ Vouched' /\ Free(Cells') /\ todo' = y
      /\ UNCHANGED <<spare, target, power, ptrs, client>> /\ (Sound => UNCHANGED Contents)
  BY <1>1, <1>2, <1>3, StepComplete
<1>5. Copies(b, v, y)'
  BY <1>4 DEF Copies, InBoot, InPlain, InWrite, client
<1>6. Copying'
  BY <1>4, <1>5 DEF Copying
<1> QED BY <1>4, <1>6 DEF FtwInv, Place

\* What follows FtwWriteRecord: the spare block is erased.
LEMMA StepCopyEnd ==
  ASSUME FtwInv, Driver, NEW b \in Blocks, NEW v \in Values \cup {Garbage}, NEW y \in CopyConts,
         Copies(b, v, y), Vouched, Free(Cells), target[b] = v, todo = y
  PROVE  FtwInv'
<1>0. ~Held(Cells, {2})
  BY UnfinishedFacts
<1>1. ASSUME NEW s, IsSeq(s), todo = Cons(EraseSpare, s)
      PROVE  /\ todo' = s /\ UNCHANGED <<work, target, power, ptrs, client>> /\ TypeOK' /\ FlashOK'
             /\ Vouched' /\ Cells' = Cells /\ UNCHANGED <<power, request>>
  <2>1. todo' = s /\ spare' = Wiped /\ UNCHANGED <<work, target, power, ptrs, client>>
    BY <1>1, TakeEraseSpare
  <2>2. TypeOK' /\ FlashOK'
    BY <1>0, <2>1, SpareFacts, SpareChanges
  <2>3. UNCHANGED <<work, power, request>>
    BY <2>1 DEF client
  <2> QED BY <2>1, <2>2, <2>3 DEF Vouched, Valid, Cells
<1>2. CASE InBoot /\ y = EraseThen(AbortLastOf(Boot7))
  <2>1. IsSeq(AbortLastOf(Boot7))
    BY BootSeqs, PlainSeqs
  <2>2. /\ todo' = AbortLastOf(Boot7) /\ TypeOK' /\ FlashOK' /\ Vouched' /\ Cells' = Cells
        /\ UNCHANGED <<power, request>>
    BY <1>1, <1>2, <2>1 DEF EraseThen
  <2>3. InBoot' /\ Boot7 \in BootAborts
    BY <1>2, <2>2 DEF InBoot, BootAborts
  <2>4. Place'
    BY <1>0, <2>2, <2>3, ToAbort
  <2> QED BY <2>2, <2>4 DEF FtwInv
<1>3. CASE InPlain /\ y = EraseThen(<< >>)
  <2>1. /\ todo' = << >> /\ TypeOK' /\ FlashOK' /\ Vouched' /\ Cells' = Cells
        /\ UNCHANGED <<power, request>>
    BY <1>1, <1>3, NoSteps DEF EraseThen
  <2>2. InPlain' /\ Quiet'
    BY <1>3, <2>1 DEF InPlain, Quiet
  <2>3. Place'
    BY <2>1, <2>2, Leaves
  <2> QED BY <2>1, <2>3 DEF FtwInv
<1>4. CASE InWrite /\ request = [blk |-> b, val |-> v] /\ y \in WriteEnds
  <2>1. PICK s \in SpareOK : y = Restore1(s, DoneOnly)
    BY <1>4, Zenon DEF WriteEnds
  <2>2. IsSeq(Restore2(s, DoneOnly))
    BY EndSeqs, RestoreSeqs
  <2>3. /\ todo' = Restore2(s, DoneOnly) /\ TypeOK' /\ FlashOK' /\ Vouched' /\ Cells' = Cells
        /\ UNCHANGED <<power, request, target>>
    BY <1>1, <2>1, <2>2 DEF Restore1
  <2>4. request.blk = b /\ request.val = v
    BY <1>4
  <2>5. InWrite' /\ target'[request'.blk] = request'.val
    BY <1>4, <2>3, <2>4 DEF InWrite
  <2>7. Writing'
    BY <2>3, <2>5 DEF Writing
  <2> QED BY <2>3, <2>7 DEF FtwInv, Place
<1> QED BY <1>2, <1>3, <1>4 DEF Copies

-----------------------------------------------------------------------------
(* FtwAllocate, FtwWrite and FtwGetLastWrite *)

\* FtwAllocate decides whether a header may be written.
LEMMA StepAllocate ==
  ASSUME FtwInv, Driver, NEW x \in {<< >>, CheckOnly}, IF x = << >> THEN InPlain ELSE InWrite,
         Vouched, Pointed, todo = AllocateThen(x), Quiet, x = CheckOnly => Free(Cells)
  PROVE  FtwInv'
<1>1. IsSeq(x) /\ CheckOnly # << >>
  BY EndSeqs, NoSteps, ConsFacts DEF CheckOnly
<1> DEFINE o == [do |-> "Allocate", num |-> 1]
<1>2. todo = Cons(o, x) /\ o.do = "Allocate" /\ o.num = 1
  BY DEF AllocateThen
<1>3. Allocate /\ Tail(todo) = x /\ Op = o
  BY <1>1, <1>2, Dispatch, Taking
<1>4. UNCHANGED <<flash, power, ptrs, client>>
  BY <1>3 DEF Allocate, Decide
<1>5. /\ TypeOK' /\ FlashOK' /\ Cells' = Cells /\ Vouched' /\ Pointed' /\ (Quiet' <=> Quiet)
      /\ (InPlain' <=> InPlain) /\ (InWrite' <=> InWrite)
  BY <1>4, Looks
<1>6. Op.num = 1 /\ FtwLastWriteHeader + 1 + 1 <= W /\ ~(1 + 1 > W)
  BY <1>2, <1>3, PointedFacts, Facts
<1>7. CASE LastHdr.state \cap {HEADER_ALLOCATED, WRITES_ALLOCATED} # {}
  <2>1. todo' = Then(<< >>, x)
    BY <1>3, <1>7 DEF Allocate, Decide, Go, Then
  <2>2. todo' = x
    BY <1>1, <2>1, NothingThen
  <2>3. ~Free(Cells)
    BY <1>7, PointedFree
  <2>4. x = << >>
    BY <2>3
  <2>5. Place'
    BY <1>5, <2>2, <2>4, Leaves
  <2> QED BY <1>5, <2>5 DEF FtwInv
<1>8. CASE ~(LastHdr.state \cap {HEADER_ALLOCATED, WRITES_ALLOCATED} # {})
  <2>1. Free(Cells)
    <3>1. ASSUME NEW s \in RecordStates, Held(Cells, s)
          PROVE  FALSE
      <4>1. 1 \in LastHdr.state
        BY <3>1, PointedHeld
      <4> QED BY <1>8, <4>1 DEF HEADER_ALLOCATED
    <3> QED BY <3>1, Facts DEF LayoutOK
  <2>2. todo' = Then(<< >> \o <<WriteCell(FtwLastWriteHeader, Header(1)),
                                CellBit(FtwLastWriteHeader, WRITES_ALLOCATED),
                                [do |-> "AllocateDone", num |-> 1]>>, x)
    BY <1>3, <1>6, <1>8 DEF Allocate, Decide, Go, Then
  <2>3. todo' = Alloc1(x)
    BY <1>1, <2>2, AllocateProgram
  <2>4. todo' = Alloc1(x)'
    BY <1>4, <2>3 DEF Alloc1, Alloc2, Alloc3, ptrs
  <2>5. Allocating'
    BY <1>5, <2>1, <2>4 DEF Allocating
  <2> QED BY <1>5, <2>5 DEF FtwInv, Place
<1> QED BY <1>7, <1>8

\* FtwAllocate writes the header.
LEMMA StepAllocHeader ==
  ASSUME FtwInv, Driver, NEW x \in {<< >>, CheckOnly}, IF x = << >> THEN InPlain ELSE InWrite,
         Vouched, Pointed, todo = Alloc1(x), Free(Cells)
  PROVE  FtwInv' /\ (Sound => UNCHANGED Contents)
<1>1. IsSeq(x)
  BY EndSeqs, NoSteps
<1>2. IsSeq(Alloc2(x))
  BY <1>1, WriteSeqs
<1>3. FtwLastWriteHeader = Last /\ FtwLastWriteRecord = Last + 1 /\ Last + 1 < W
  BY PointedFacts
<1> DEFINE cells == [Cells EXCEPT ![Last] = Header(1)]
<1>4. todo = Cons(WriteCell(Last, Header(1)), Alloc2(x))
  BY <1>3 DEF Alloc1
<1>5. /\ todo' = Alloc2(x) /\ UNCHANGED <<spare, target, power, ptrs, client>>
      /\ work' = [work EXCEPT !.cells = cells]
  BY <1>2, <1>4, TakeWriteCell
<1> HIDE DEF cells
<1>6. /\ LayoutOK(cells) /\ LastHeader(cells) = Last /\ Held(cells, {}) /\ cells[Last + 1] = Erased
  BY <1>3, Facts, OpenHeader DEF Last, cells
<1>7. {} \in RecordStates /\ {2} \in RecordStates /\ {} # {2}
  BY DEF RecordStates
<1>8. cells \in [Index -> Cell] /\ ~Held(cells, {2}) /\ ~Held(Cells, {2})
  BY <1>6, <1>7, HeldOnce, UnfinishedFacts DEF LayoutOK
<1>9. Sound => Valid /\ \A d \in Blocks : target[d] \in Values
  BY <1>8, UnfinishedFacts DEF Vouched
<1>10. TypeOK' /\ FlashOK' /\ Cells' = cells /\ Vouched'
  BY <1>5, <1>6, <1>8, <1>9, CellChanges
<1>11. UNCHANGED <<FtwLastWriteHeader, FtwLastWriteRecord, power, request>>
  BY <1>5 DEF ptrs, client
<1>12. Pointed' /\ LastRec' = Erased /\ (InPlain' <=> InPlain) /\ (InWrite' <=> InWrite) /\ todo' = Alloc2(x)'
  BY <1>3, <1>5, <1>6, <1>10, <1>11 DEF Pointed, Last, LastRec, InPlain, InWrite, Alloc2, Alloc3
<1>13. Allocating'
  BY <1>6, <1>10, <1>12 DEF Allocating
<1>14. UNCHANGED Contents
  BY <1>5, <1>8, <1>10, NoBackup
<1> QED BY <1>10, <1>13, <1>14 DEF FtwInv, Place

\* FtwAllocate sets WritesAllocated.
LEMMA StepAllocBit ==
  ASSUME FtwInv, Driver, NEW x \in {<< >>, CheckOnly}, IF x = << >> THEN InPlain ELSE InWrite,
         Vouched, Pointed, todo = Alloc2(x), Held(Cells, {}), LastRec = Erased
  PROVE  FtwInv' /\ (Sound => UNCHANGED Contents)
<1>1. IsSeq(x)
  BY EndSeqs, NoSteps
<1>2. IsSeq(Alloc3(x))
  BY <1>1, WriteSeqs
<1>3. FtwLastWriteHeader = Last /\ FtwLastWriteRecord = Last + 1 /\ Last + 1 < W /\ Cells[Last + 1] = Erased
  BY PointedFacts
<1> DEFINE cells == [Cells EXCEPT ![Last].state = @ \cup {WRITES_ALLOCATED}]
<1>4. todo = Cons(CellBit(Last, WRITES_ALLOCATED), Alloc3(x))
  BY <1>3 DEF Alloc2
<1>5. /\ todo' = Alloc3(x) /\ UNCHANGED <<spare, target, power, ptrs, client>>
      /\ work' = [work EXCEPT !.cells = cells]
  BY <1>2, <1>4, TakeCellBit
<1> HIDE DEF cells
<1>6. LayoutOK(cells) /\ LastHeader(cells) = Last /\ Allocated(cells)
  BY <1>3, Facts, AllocateBit DEF Last, cells
<1>7. {} \in RecordStates /\ {2} \in RecordStates /\ {} # {2} /\ Held(cells, {})
  BY <1>6 DEF RecordStates, Allocated
<1>8. cells \in [Index -> Cell] /\ ~Held(cells, {2}) /\ ~Held(Cells, {2})
  BY <1>6, <1>7, HeldOnce, Facts DEF LayoutOK
<1>9. Sound => Valid /\ \A d \in Blocks : target[d] \in Values
  BY <1>8, UnfinishedFacts DEF Vouched
<1>10. TypeOK' /\ FlashOK' /\ Cells' = cells /\ Vouched'
  BY <1>5, <1>6, <1>8, <1>9, CellChanges
<1>11. UNCHANGED <<FtwLastWriteHeader, FtwLastWriteRecord, power, request>>
  BY <1>5 DEF ptrs, client
<1>12. Pointed' /\ (InPlain' <=> InPlain) /\ (InWrite' <=> InWrite) /\ todo' = Alloc3(x)'
  BY <1>3, <1>5, <1>6, <1>10, <1>11 DEF Pointed, Last, InPlain, InWrite, Alloc3
<1>13. Allocating'
  BY <1>6, <1>10, <1>12 DEF Allocating
<1>14. UNCHANGED Contents
  BY <1>5, <1>8, <1>10, NoBackup
<1> QED BY <1>10, <1>13, <1>14 DEF FtwInv, Place

\* FtwAllocate returns.
LEMMA StepAllocateDone ==
  ASSUME FtwInv, Driver, NEW x \in {<< >>, CheckOnly}, IF x = << >> THEN InPlain ELSE InWrite,
         Vouched, Pointed, todo = Alloc3(x), Allocated(Cells)
  PROVE  FtwInv'
<1>1. IsSeq(x) /\ CheckOnly # << >>
  BY EndSeqs, NoSteps, ConsFacts DEF CheckOnly
<1> DEFINE o == [do |-> "AllocateDone", num |-> 1]
<1>2. todo = Cons(o, x) /\ o.do = "AllocateDone"
  BY DEF Alloc3
<1>3. AllocateDone /\ Tail(todo) = x
  BY <1>1, <1>2, Dispatch, Taking
<1>4. UNCHANGED <<flash, power, ptrs, client>>
  BY <1>3 DEF AllocateDone, Decide
<1>5. todo' = Then(<< >>, x)
  BY <1>3 DEF AllocateDone, Decide, Go, Then
<1>6. todo' = x
  BY <1>1, <1>5, NothingThen
<1>7. Quiet /\ ~Free(Cells)
  BY Facts, HeldFacts DEF Allocated, Quiet, RecordStates
<1>8. /\ TypeOK' /\ FlashOK' /\ Cells' = Cells /\ Vouched' /\ Pointed' /\ Quiet'
      /\ (InPlain' <=> InPlain) /\ (InWrite' <=> InWrite)
  BY <1>4, <1>7, Looks
<1>9. CASE x = << >>
  <2>1. Place'
    BY <1>6, <1>8, <1>9, Leaves
  <2> QED BY <1>8, <2>1 DEF FtwInv
<1>10. CASE x = CheckOnly
  <2>1. Writing'
    BY <1>1, <1>6, <1>7, <1>8, <1>10 DEF Writing
  <2> QED BY <1>8, <2>1 DEF FtwInv, Place
<1> QED BY <1>9, <1>10

\* FtwWrite returns an error.
LEMMA StepRefused ==
  ASSUME FtwInv, Refused, Tail(todo) = << >>, InWrite, Quiet, Vouched
  PROVE  FtwInv'
<1>1. UNCHANGED <<flash, power, ptrs>> /\ request' = NoRequest /\ result' = "failed" /\ todo' = Then(<< >>, << >>)
  BY DEF Refused, Go, Then
<1>2. todo' = << >>
  BY <1>1, NoSteps, NothingThen
<1>3. TypeOK'
  BY <1>1, Facts DEF TypeOK, flash, ptrs
<1>4. FlashOK'
  BY <1>1, Facts DEF FlashOK, flash, ContentOK, Unfinished, Valid, Last, Cells
<1>5. InPlain' /\ Quiet' /\ Vouched'
  BY <1>1 DEF InPlain, InWrite, Quiet, Vouched, Valid, Cells, flash
<1>6. Place'
  BY <1>2, <1>5, Leaves
<1> QED BY <1>3, <1>4, <1>6 DEF FtwInv

\* FtwWrite allocates a header if there is none.
LEMMA StepWriteBegin ==
  ASSUME FtwInv, Driver, InWrite, Vouched, NEW p \in BOOLEAN, todo = WriteBeginWith(p), Quiet, Pointed
  PROVE  FtwInv'
<1> DEFINE o == [do |-> "WriteBegin", private |-> p]
<1>1. todo = Cons(o, << >>) /\ o.do = "WriteBegin"
  BY DEF WriteBeginWith
<1>2. WriteBegin /\ Tail(todo) = << >>
  BY <1>1, NoSteps, Dispatch, Taking
<1>3. CASE LastHdr # Erased
  <2>1. UNCHANGED <<flash, power, ptrs, client>> /\ todo' = Then(<<Step("WriteCheck")>>, << >>)
    BY <1>2, <1>3 DEF WriteBegin, Go, Then
  <2>2. todo' = CheckOnly
    BY <2>1, ServicePrograms
  <2>3. ~Free(Cells)
    BY <1>3, PointedFree
  <2>4. TypeOK' /\ FlashOK' /\ Cells' = Cells /\ Vouched' /\ Pointed' /\ Quiet' /\ InWrite'
    BY <2>1, Looks
  <2>5. Writing'
    BY <2>2, <2>3, <2>4 DEF Writing
  <2> QED BY <2>4, <2>5 DEF FtwInv, Place
<1>4. CASE LastHdr = Erased /\ Refused
  BY <1>2, <1>4, StepRefused
<1>5. CASE /\ LastHdr = Erased /\ UNCHANGED <<flash, power, ptrs, client>>
           /\ todo' = Then(Append(FtwAllocate(1), Step("WriteCheck")), << >>)
  <2> DEFINE c == AllocateThen(CheckOnly)
  <2>1. todo' = RefreshThen(c)
    BY <1>5, ServicePrograms
  <2>2. Free(Cells)
    <3>1. ASSUME NEW s \in RecordStates, Held(Cells, s)
          PROVE  FALSE
      BY <1>5, <3>1, PointedHeld
    <3> QED BY <3>1, Facts DEF LayoutOK
  <2>3. TypeOK' /\ FlashOK' /\ Cells' = Cells /\ Vouched' /\ InWrite'
    BY <1>5, Looks
  <2>4. c \in Conts
    BY DEF Conts
  <2>5. Fits(c)'
    BY <2>2, <2>3 DEF Fits
  <2>6. Place'
    BY <2>1, <2>3, <2>4, <2>5, ToRefresh
  <2> QED BY <2>3, <2>6 DEF FtwInv
<1> QED BY <1>2, <1>3, <1>4, <1>5 DEF WriteBegin, Go, Then

\* FtwWrite checks the record.
LEMMA StepWriteCheck ==
  ASSUME FtwInv, Driver, InWrite, Vouched, todo = CheckOnly, Quiet, Pointed, ~Free(Cells)
  PROVE  FtwInv'
<1>1. todo = Cons(Step("WriteCheck"), << >>) /\ Step("WriteCheck").do = "WriteCheck"
  BY DEF CheckOnly, Step
<1>2. WriteCheck /\ Tail(todo) = << >>
  BY <1>1, NoSteps, Dispatch, Taking
<1>3. CASE WriteDenied
  BY <1>2, <1>3, StepRefused DEF WriteCheck
<1>4. CASE ~WriteDenied
  <2>1. PICK s \in RecordStates : Held(Cells, s)
    BY Facts DEF LayoutOK
  <2>2. LastRec.state = s /\ IsLastRecordOfWrites
    BY <2>1, PointedHeld
  <2>3. s = {}
    BY <1>4, <2>2 DEF WriteDenied, RecordStates, SPARE_COMPLETED
  <2>4. Sound => LastRec = Erased
    <3>1. Sound => Allocated(Cells)
      BY DEF Quiet
    <3> QED BY <3>1, PointedFacts DEF Allocated, Last
  <2>5. PICK b, v : b = request.blk /\ v = request.val
    OBVIOUS
  <2>6. UNCHANGED <<flash, power, ptrs, client>>
        /\ todo' = Then(<<WriteCell(FtwLastWriteRecord, Record(b)), EraseSpare, WriteSpare(Data(v)),
                          CellBit(FtwLastWriteRecord, SPARE_COMPLETED)>>
                        \o FtwWriteRecord(b, v)
                        \o <<EraseSpare, WriteSpare(spare), Step("WriteDone")>>, << >>)
    BY <1>2, <1>4, <2>5 DEF WriteCheck, Go, Then
  <2>7. PICK y : y = Restore1(spare, DoneOnly)
    OBVIOUS
  <2>8. todo' = Write1(b, v, y)
    BY <2>2, <2>6, <2>7, WriteProgram
  <2>9. y \in WriteEnds
    BY <2>7, Facts DEF WriteEnds
  <2>10. /\ TypeOK' /\ FlashOK' /\ Cells' = Cells /\ Vouched' /\ Pointed' /\ InWrite'
         /\ LastRec' = LastRec /\ UNCHANGED request
    BY <2>6, Looks
  <2>11. todo' = Write1(b, v, y)' /\ b = request'.blk /\ v = request'.val
    BY <2>5, <2>6, <2>8, <2>10 DEF ptrs, Write1, Write2, Write3, Write4, Copy1, Copy2, Copy3, Copy4
  <2>12. Held(Cells', {}) /\ (Sound => LastRec' = Erased)
    BY <2>1, <2>3, <2>4, <2>10
  <2>13. todo' = Write1(request.blk, request.val, y)'
    BY <2>11 DEF Write1, Write2, Write3, Write4, Copy1, Copy2, Copy3, Copy4
  <2>14. Writing'
    BY <2>9, <2>10, <2>12, <2>13 DEF Writing
  <2> QED BY <2>10, <2>14 DEF FtwInv, Place
<1> QED BY <1>3, <1>4

\* The request that FtwWrite works on.
LEMMA RequestFacts ==
  ASSUME InWrite, NEW b, NEW v, b = request.blk, v = request.val
  PROVE  b \in Blocks /\ v \in Values /\ request = [blk |-> b, val |-> v] /\ power = "on"
BY DEF InWrite, Requests

\* FtwWrite writes the record.
LEMMA StepWriteRecord ==
  ASSUME FtwInv, Driver, InWrite, Vouched, NEW y \in WriteEnds,
         NEW b, NEW v, b = request.blk, v = request.val,
         todo = Write1(b, v, y), Pointed, Held(Cells, {}), Sound => LastRec = Erased
  PROVE  FtwInv' /\ (Sound => UNCHANGED Contents)
<1>1. IsSeq(y) /\ b \in Blocks
  BY CopySeqs, RequestFacts
<1>2. IsSeq(Write2(b, v, y))
  BY <1>1, WriteSeqs
<1>3. FtwLastWriteHeader = Last /\ FtwLastWriteRecord = Last + 1 /\ Last + 1 < W
  BY PointedFacts
<1> DEFINE cells == [Cells EXCEPT ![Last + 1] = Record(b)]
<1>4. todo = Cons(WriteCell(Last + 1, Record(b)), Write2(b, v, y))
  BY <1>3 DEF Write1
<1>5. /\ todo' = Write2(b, v, y) /\ UNCHANGED <<spare, target, power, ptrs, client>>
      /\ work' = [work EXCEPT !.cells = cells]
  BY <1>2, <1>4, TakeWriteCell
<1> HIDE DEF cells
<1>6. {} \in RecordStates /\ {2} \in RecordStates /\ {} # {2} /\ ~Free(Cells)
  BY Facts, HeldFacts DEF RecordStates
<1>7. Record(b) = RecordIn(b, {}) /\ Record(b) \in RecordCells({}) /\ cells = Replaced(Cells, Record(b))
  BY <1>1, CellTypes DEF RecordCells, cells, Replaced, Last
<1>8. LayoutOK(cells) /\ LastHeader(cells) = Last /\ Held(cells, {}) /\ cells[Last + 1] = RecordIn(b, {})
  BY <1>6, <1>7, Facts, ReplaceRecord DEF Last
<1>9. cells \in [Index -> Cell] /\ ~Held(cells, {2}) /\ ~Held(Cells, {2})
  BY <1>6, <1>8, HeldOnce, Facts DEF LayoutOK
<1>10. Sound => Valid /\ \A d \in Blocks : target[d] \in Values
  BY <1>9, UnfinishedFacts DEF Vouched
<1>11. TypeOK' /\ FlashOK' /\ Cells' = cells /\ Vouched'
  BY <1>5, <1>8, <1>9, <1>10, CellChanges
<1>12. UNCHANGED <<FtwLastWriteHeader, FtwLastWriteRecord, power, request>>
  BY <1>5 DEF ptrs, client
<1>13. AtRecord(b, {})'
  BY <1>3, <1>8, <1>11, <1>12 DEF AtRecord, Pointed, Last, LastRec
<1>14. InWrite' /\ todo' = Write2(request.blk, request.val, y)' /\ AtRecord(request.blk, {})'
  BY <1>5, <1>12, <1>13 DEF InWrite, Write2, Write3, Write4, Copy1, Copy2, Copy3, Copy4, AtRecord
<1>15. Writing'
  BY <1>11, <1>14 DEF Writing
<1>16. UNCHANGED Contents
  BY <1>5, <1>9, <1>11, NoBackup
<1> QED BY <1>11, <1>15, <1>16 DEF FtwInv, Place

\* The new contents are backed up in the spare block.
LEMMA StepWriteSpare ==
  ASSUME FtwInv, Driver, InWrite, Vouched, NEW y \in WriteEnds,
         NEW b, NEW v, b = request.blk, v = request.val,
         todo \in {Write2(b, v, y), Write3(b, v, y)}, AtRecord(b, {})
  PROVE  FtwInv'
<1>1. IsSeq(y) /\ b \in Blocks /\ v \in Values
  BY CopySeqs, RequestFacts
<1>2. IsSeq(Write3(b, v, y)) /\ IsSeq(Write4(b, v, y))
  BY <1>1, WriteSeqs
<1>3. ~Held(Cells, {2})
  BY Facts, HeldOnce DEF AtRecord, RecordStates
<1>4. ASSUME UNCHANGED <<work, target, power, ptrs, client>>, spare' \in SpareOK
      PROVE  /\ TypeOK' /\ FlashOK' /\ Vouched' /\ InWrite' /\ AtRecord(request.blk, {})'
             /\ Write3(b, v, y) = Write3(request.blk, request.val, y)'
             /\ Write4(b, v, y) = Write4(request.blk, request.val, y)'
             /\ UNCHANGED request
  <2>1. TypeOK' /\ FlashOK'
    BY <1>3, <1>4, SpareChanges
  <2>2. UNCHANGED <<work, power, request, FtwLastWriteHeader, FtwLastWriteRecord>>
    BY <1>4 DEF ptrs, client
  <2>3. Vouched' /\ InWrite' /\ AtRecord(request.blk, {})'
    BY <2>2 DEF Vouched, Valid, InWrite, AtRecord, Pointed, Last, LastRec, Cells
  <2>4. /\ Write3(b, v, y) = Write3(request.blk, request.val, y)'
        /\ Write4(b, v, y) = Write4(request.blk, request.val, y)'
    BY <2>2 DEF Write3, Write4, Copy1, Copy2, Copy3, Copy4
  <2> QED BY <2>1, <2>2, <2>3, <2>4
<1>5. CASE todo = Write2(b, v, y)
  <2>1. todo' = Write3(b, v, y) /\ spare' = Wiped /\ UNCHANGED <<work, target, power, ptrs, client>>
    BY <1>2, <1>5, TakeEraseSpare DEF Write2
  <2>2. TypeOK' /\ FlashOK' /\ Vouched' /\ InWrite' /\ AtRecord(request.blk, {})'
        /\ todo' = Write3(request.blk, request.val, y)'
    BY <1>4, <2>1, SpareFacts
  <2>3. Writing'
    BY <2>2 DEF Writing
  <2> QED BY <2>2, <2>3 DEF FtwInv, Place
<1>6. CASE todo = Write3(b, v, y)
  <2>1. todo' = Write4(b, v, y) /\ spare' = Data(v) /\ UNCHANGED <<work, target, power, ptrs, client>>
    BY <1>2, <1>6, TakeWriteSpare DEF Write3
  <2>2. spare' \in SpareOK /\ spare'.val = v
    BY <1>1, <2>1, SpareFacts
  <2>3. /\ TypeOK' /\ FlashOK' /\ Vouched' /\ InWrite' /\ AtRecord(request.blk, {})'
        /\ todo' = Write4(request.blk, request.val, y)' /\ spare'.val = request'.val
    BY <1>4, <2>1, <2>2
  <2>4. Writing'
    BY <2>3 DEF Writing
  <2> QED BY <2>3, <2>4 DEF FtwInv, Place
<1> QED BY <1>5, <1>6

\* SpareComplete is set: the write has happened.
LEMMA StepWriteCommit ==
  ASSUME FtwInv, Driver, InWrite, Vouched, NEW y \in WriteEnds,
         NEW b, NEW v, b = request.blk, v = request.val,
         todo = Write4(b, v, y), AtRecord(b, {}), spare.val = v
  PROVE  /\ FtwInv' /\ UNCHANGED <<spare, target, power, ptrs, client>>
         /\ Sound => Contents' = [Contents EXCEPT ![b] = v]
<1>1. IsSeq(y) /\ b \in Blocks /\ v \in Values /\ request = [blk |-> b, val |-> v]
  BY CopySeqs, RequestFacts
<1>2. IsSeq(Copy1(b, v, y))
  BY <1>1, WriteSeqs
<1>3. Pointed /\ Held(Cells, {}) /\ LastRec = RecordIn(b, {})
  BY DEF AtRecord
<1>4. FtwLastWriteHeader = Last /\ FtwLastWriteRecord = Last + 1 /\ LastRec = Cells[Last + 1] /\ Last + 1 < W
  BY <1>3, PointedFacts
<1> DEFINE cells == [Cells EXCEPT ![Last + 1].state = @ \cup {SPARE_COMPLETED}]
<1>5. todo = Cons(CellBit(Last + 1, SPARE_COMPLETED), Copy1(b, v, y))
  BY <1>4 DEF Write4
<1>6. /\ todo' = Copy1(b, v, y) /\ UNCHANGED <<spare, target, power, ptrs, client>>
      /\ work' = [work EXCEPT !.cells = cells]
  BY <1>2, <1>5, TakeCellBit
<1>7. {} \in RecordStates /\ {2} \in RecordStates /\ {} # {2} /\ ~Free(Cells) /\ ~Held(Cells, {2})
  BY <1>3, Facts, HeldFacts, HeldOnce DEF RecordStates
<1>8. /\ LayoutOK(cells) /\ LastHeader(cells) = Last /\ Held(cells, {2})
      /\ cells[Last + 1] = RecordIn(b, {2})
  <2>1. {} \cup {SPARE_COMPLETED} = {2}
    BY DEF SPARE_COMPLETED
  <2>2. [Cells[Last + 1] EXCEPT !.state = @ \cup {SPARE_COMPLETED}] = RecordIn(b, {2})
    BY <1>3, <1>4, <2>1 DEF RecordIn
  <2>3. cells = [Cells EXCEPT ![Last + 1] = RecordIn(b, {2})]
    BY <2>2
  <2> HIDE DEF cells
  <2>4. PICK c : c = RecordIn(b, {2})
    OBVIOUS
  <2>5. c \in RecordCells({2}) /\ cells = Replaced(Cells, c)
    BY <1>1, <2>3, <2>4 DEF RecordCells, Last, Replaced
  <2>6. /\ LayoutOK(cells) /\ LastHeader(cells) = LastHeader(Cells) /\ Held(cells, {2})
        /\ cells[LastHeader(Cells) + 1] = c
    BY <1>7, <2>5, Facts, ReplaceRecord
  <2> QED BY <2>4, <2>6 DEF Last
<1> HIDE DEF cells
<1>9. cells \in [Index -> Cell]
  BY <1>8 DEF LayoutOK
<1>10. Sound => Valid /\ \A d \in Blocks : target[d] \in Values
  BY <1>7, UnfinishedFacts DEF Vouched
<1>11. TypeOK' /\ FlashOK' /\ Cells' = cells /\ Vouched' /\ (Valid' <=> Valid)
  BY <1>1, <1>6, <1>8, <1>9, <1>10, CellChanges
<1>12. UNCHANGED <<FtwLastWriteHeader, FtwLastWriteRecord, power, request>>
  BY <1>6 DEF ptrs, client
<1>13. AtRecord(b, {2})' /\ Last' = Last
  BY <1>4, <1>8, <1>11, <1>12 DEF AtRecord, Pointed, Last, LastRec
<1>14. todo' = Copy1(b, v, y)'
  BY <1>6, <1>12 DEF Copy1, Copy2, Copy3, Copy4
<1>15. y \in CopyConts /\ Copies(b, v, y)'
  BY <1>1, <1>12 DEF CopyConts, Copies, InWrite
<1>16. Place'
  BY <1>1, <1>6, <1>11, <1>13, <1>14, <1>15, ToCopy
<1>17. Sound => Contents' = [Contents EXCEPT ![b] = v]
  <2>1. \A d \in Blocks : ~Unfinished(d)
    BY <1>7 DEF Unfinished
  <2>2. cells[Last + 1].blk = b
    BY <1>8 DEF RecordIn
  <2>3. Sound => \A d \in Blocks : Unfinished(d)' <=> d = b
    BY <1>8, <1>10, <1>11, <1>13, <2>2 DEF Unfinished
  <2> QED BY <1>6, <2>1, <2>3 DEF Contents
<1> QED BY <1>6, <1>11, <1>16, <1>17 DEF FtwInv

\* The old contents of the spare block are put back, and FtwWrite returns.
LEMMA StepWriteEnd ==
  ASSUME FtwInv, Driver, InWrite, Vouched, NEW s \in SpareOK, todo \in {Restore2(s, DoneOnly), DoneOnly},
         Free(Cells), target[request.blk] = request.val
  PROVE  FtwInv'
<1>1. CASE todo = Restore2(s, DoneOnly)
  <2>1. todo' = DoneOnly /\ spare' = s /\ UNCHANGED <<work, target, power, ptrs, client>>
    BY <1>1, EndSeqs, TakeWriteSpare DEF Restore2
  <2>2. TypeOK' /\ FlashOK'
    BY <2>1, UnfinishedFacts, SpareChanges
  <2>3. UNCHANGED <<work, target, power, request>>
    BY <2>1 DEF client
  <2>4. Writing'
    BY <2>1, <2>3 DEF Writing, Vouched, Valid, InWrite, Cells
  <2> QED BY <2>2, <2>4 DEF FtwInv, Place
<1>2. CASE todo = DoneOnly
  <2>1. todo = Cons(Step("WriteDone"), << >>) /\ Step("WriteDone").do = "WriteDone"
    BY <1>2 DEF DoneOnly, Step
  <2>2. WriteDone /\ Tail(todo) = << >>
    BY <2>1, NoSteps, Dispatch, Taking
  <2>3. UNCHANGED <<flash, power, ptrs>> /\ request' = NoRequest /\ result' = "success" /\ todo' = Then(<< >>, << >>)
    BY <2>2 DEF WriteDone, Go, Then
  <2>4. todo' = << >>
    BY <2>3, NoSteps, NothingThen
  <2>5. TypeOK'
    BY <2>3, Facts DEF TypeOK, flash, ptrs
  <2>6. FlashOK'
    BY <2>3, Facts DEF FlashOK, flash, ContentOK, Unfinished, Valid, Last, Cells
  <2>7. InPlain' /\ Quiet' /\ Vouched'
    BY <2>3 DEF InPlain, InWrite, Quiet, Vouched, Valid, Cells, flash
  <2>8. Place'
    BY <2>4, <2>7, Leaves
  <2> QED BY <2>5, <2>6, <2>8 DEF FtwInv
<1> QED BY <1>1, <1>2

\* FtwGetLastWrite decides whether to abort a header.
LEMMA StepLook ==
  ASSUME FtwInv, Driver, InPlain, todo = LookOnly, Vouched, Quiet, Pointed
  PROVE  FtwInv'
<1>1. todo = Cons(Step("GetLastWrite"), << >>) /\ Step("GetLastWrite").do = "GetLastWrite"
  BY DEF LookOnly, Step
<1>2. GetLastWrite /\ Tail(todo) = << >>
  BY <1>1, NoSteps, Dispatch, Taking
<1>3. UNCHANGED <<flash, power, ptrs, client>> /\ todo' \in {Then(FtwAbort, << >>), Then(<< >>, << >>)}
  BY <1>2 DEF GetLastWrite, Decide, Go, Then
<1>4. TypeOK' /\ FlashOK' /\ Vouched' /\ Quiet' /\ InPlain'
  BY <1>3, Looks
<1>5. CASE todo' = Then(FtwAbort, << >>)
  <2> DEFINE c == AbortThen(<< >>)
  <2>1. todo' = RefreshThen(c)
    BY <1>5, NoSteps, AbortProgram DEF AbortLastOf
  <2>2. c \in PlainConts /\ c \in Conts
    BY DEF PlainConts, Conts
  <2>3. Fits(c)'
    BY <1>4, <2>2 DEF Fits
  <2>4. Place'
    BY <1>4, <2>1, <2>2, <2>3, ToRefresh
  <2> QED BY <1>4, <2>4 DEF FtwInv
<1>6. CASE todo' = Then(<< >>, << >>)
  <2>1. todo' = << >>
    BY <1>6, NoSteps, NothingThen
  <2>2. Place'
    BY <1>4, <2>1, Leaves
  <2> QED BY <1>4, <2>2 DEF FtwInv
<1> QED BY <1>3, <1>5, <1>6

-----------------------------------------------------------------------------
(* Every step of the driver keeps the invariant *)

\* The contents of the block that is being written become those of the request.
Commits ==
  /\ request \in Requests /\ UNCHANGED client
  /\ Contents' = [Contents EXCEPT ![request.blk] = request.val]

\* An operation on a cell leaves the contents of the blocks alone, or commits.
CellKeeps == Sound /\ (At("WriteCell") \/ At("CellBit")) => UNCHANGED Contents \/ Commits

\* Nothing is asked of the other operations.
LEMMA NotCell ==
  ASSUME NEW x, NEW s, IsSeq(s), todo = Cons(x, s), x.do # "WriteCell", x.do # "CellBit"
  PROVE  CellKeeps
BY Taking DEF CellKeeps

\* The contents do not change.
LEMMA CellUnchanged ==
  ASSUME Sound => UNCHANGED Contents
  PROVE  CellKeeps
BY DEF CellKeeps

\* The driver has a step to take.
LEMMA DriverBusy ==
  ASSUME Driver
  PROVE  todo # << >>
<1>1. FlashStep \/ DriverStep
  BY DEF Driver
<1>2. \E z : At(z)
  BY <1>1, Kinds DEF FlashStep, DriverStep
<1> QED BY <1>2 DEF At

\* WorkSpaceRefresh keeps the invariant.
LEMMA KeepRefreshing ==
  ASSUME FtwInv, Driver, Refreshing
  PROVE  FtwInv' /\ CellKeeps
<1>1. CASE \E c \in Fitting : todo = RefreshThen(c) /\ (c = Boot2 \/ Vouched)
  <2>1. PICK c \in Fitting : todo = RefreshThen(c) /\ (c = Boot2 \/ Vouched)
    BY <1>1
  <2>2. FtwInv'
    BY <2>1, StepRefresh
  <2>3. CellKeeps
    BY <2>1, FittingSeqs, NotCell DEF RefreshThen, Refresh, Step
  <2> QED BY <2>2, <2>3
<1>2. CASE \E c \in Fitting : /\ todo \in {PointThen(c), PointThen(PointThen(c))}
                              /\ (c = Boot2 \/ Vouched) /\ Last + 1 < W
  <2>1. PICK c \in Fitting : /\ todo \in {PointThen(c), PointThen(PointThen(c))}
                             /\ (c = Boot2 \/ Vouched) /\ Last + 1 < W
    BY <1>2
  <2>2. PICK d \in {c, PointThen(c)} : todo = PointThen(d)
    BY <2>1
  <2>3. FtwInv'
    BY <2>1, <2>2, StepPoint
  <2>4. CellKeeps
    BY <2>2, FittingSeqs, NotCell DEF PointThen, Point, Step
  <2> QED BY <2>3, <2>4
<1> QED BY <1>1, <1>2 DEF Refreshing

\* FtwReclaimWorkSpace keeps the invariant.
LEMMA KeepReclaiming ==
  ASSUME FtwInv, Driver, Reclaiming
  PROVE  FtwInv' /\ CellKeeps
<1>1. CASE \E f \in RestoreConts :
             /\ Sound => Free(Cells)
             /\ \/ \E g \in BOOLEAN : todo \in {Reclaim1(g, f), Reclaim2(g, f)}
                \/ todo \in {Reclaim3(f), Reclaim4(f)}
  <2>1. PICK f \in RestoreConts :
             /\ Sound => Free(Cells)
             /\ \/ \E g \in BOOLEAN : todo \in {Reclaim1(g, f), Reclaim2(g, f)}
                \/ todo \in {Reclaim3(f), Reclaim4(f)}
    BY <1>1
  <2>2. PICK g \in BOOLEAN : todo \in {Reclaim1(g, f), Reclaim2(g, f), Reclaim3(f), Reclaim4(f)}
    BY <2>1
  <2>3. FtwInv'
    BY <2>1, <2>2, StepReclaim
  <2>4. IsSeq(f) /\ IsSeq(Reclaim2(g, f)) /\ IsSeq(Reclaim3(f)) /\ IsSeq(Reclaim4(f)) /\ IsSeq(Flush1(f))
    BY FlushContSeqs, FlushSeqs
  <2>5. CASE todo = Reclaim1(g, f)
    BY <2>3, <2>4, <2>5, NotCell DEF Reclaim1, EraseSpare, Step
  <2>6. CASE todo = Reclaim2(g, f)
    BY <2>3, <2>4, <2>6, NotCell DEF Reclaim2, WriteSpare
  <2>7. CASE todo = Reclaim3(f)
    BY <2>3, <2>4, <2>7, NotCell DEF Reclaim3, SpareBit
  <2>8. CASE todo = Reclaim4(f)
    BY <2>3, <2>4, <2>8, NotCell DEF Reclaim4, WorkBit
  <2> QED BY <2>2, <2>5, <2>6, <2>7, <2>8
<1>2. CASE \E e \in PointConts, s \in SpareOK :
             /\ Valid /\ Cells = NoCells
             /\ todo \in {Restore1(s, e), Restore2(s, e)}
  <2>1. PICK e \in PointConts, s \in SpareOK :
             /\ Valid /\ Cells = NoCells
             /\ todo \in {Restore1(s, e), Restore2(s, e)}
    BY <1>2
  <2>2. FtwInv'
    BY <2>1, StepRestore
  <2>3. IsSeq(e) /\ IsSeq(Restore2(s, e))
    BY PointSeqs, RestoreSeqs
  <2>4. CASE todo = Restore1(s, e)
    BY <2>2, <2>3, <2>4, NotCell DEF Restore1, EraseSpare, Step
  <2>5. CASE todo = Restore2(s, e)
    BY <2>2, <2>3, <2>5, NotCell DEF Restore2, WriteSpare
  <2> QED BY <2>1, <2>4, <2>5
<1> QED BY <1>1, <1>2 DEF Reclaiming

\* FlushSpareBlockToWorkingBlock keeps the invariant.
LEMMA KeepFlushing ==
  ASSUME FtwInv, Driver, Flushing
  PROVE  FtwInv' /\ CellKeeps
<1>1. PICK f \in FlushConts :
    \/ todo \in {Flush1(f), Flush2(f), Flush3(f)} /\ (Sound => Free(Cells))
    \/ todo = Flush4(f) /\ work = BlankWork
    \/ todo = Flush5(f) /\ work = [sig |-> TRUE, state |-> {}, cells |-> NoCells]
  BY DEF Flushing
<1>2. IsSeq(f) /\ IsSeq(Flush2(f)) /\ IsSeq(Flush3(f)) /\ IsSeq(Flush4(f)) /\ IsSeq(Flush5(f))
  BY FlushContSeqs, FlushSeqs
<1>3. CASE todo = Flush1(f) /\ (Sound => Free(Cells))
  <2>1. FtwInv'
    BY <1>3, StepFlushFirst
  <2> QED BY <1>2, <1>3, <2>1, NotCell DEF Flush1, SpareBit
<1>4. CASE todo = Flush2(f) /\ (Sound => Free(Cells))
  <2>1. FtwInv'
    BY <1>4, StepFlushNext
  <2> QED BY <1>2, <1>4, <2>1, NotCell DEF Flush2, WorkBit
<1>5. CASE todo = Flush3(f) /\ (Sound => Free(Cells))
  <2>1. FtwInv'
    BY <1>5, StepFlushNext
  <2> QED BY <1>2, <1>5, <2>1, NotCell DEF Flush3, EraseWork, Step
<1>6. CASE todo = Flush4(f) /\ work = BlankWork
  <2>1. FtwInv'
    BY <1>6, StepFlushWrite
  <2> QED BY <1>2, <1>6, <2>1, NotCell DEF Flush4, WriteWork
<1>7. CASE todo = Flush5(f) /\ work = [sig |-> TRUE, state |-> {}, cells |-> NoCells]
  <2>1. FtwInv'
    BY <1>7, StepFlushLast
  <2> QED BY <1>2, <1>7, <2>1, NotCell DEF Flush5, WorkBit
<1> QED BY <1>1, <1>3, <1>4, <1>5, <1>6, <1>7

\* The decisions of InitFtwProtocol keep the invariant.
LEMMA KeepBooting ==
  ASSUME FtwInv, Driver, Booting
  PROVE  FtwInv' /\ CellKeeps
<1>0. InBoot /\ IsSeq(Boot3) /\ IsSeq(Boot4) /\ IsSeq(Boot5) /\ IsSeq(Boot6) /\ IsSeq(Boot7) /\ IsSeq(<< >>)
  BY BootSeqs, NoSteps DEF Booting
<1>1. CASE todo = Boot2 /\ Pointed
  <2>1. FtwInv'
    BY <1>0, <1>1, StepValidate
  <2> QED BY <1>0, <1>1, <2>1, NotCell DEF Boot2, Step
<1>2. CASE todo = Boot3 /\ Pointed /\ Valid
  <2>1. FtwInv'
    BY <1>0, <1>2, StepAbortFirst
  <2> QED BY <1>0, <1>2, <2>1, NotCell DEF Boot3, Step
<1>3. CASE todo = Boot4 /\ Valid /\ (Settled \/ (Pointed /\ \E s \in {{2}, {2, 4}} : Held(Cells, s)))
  <2>1. FtwInv'
    BY <1>0, <1>3, StepAbortLast
  <2> QED BY <1>0, <1>3, <2>1, NotCell DEF Boot4, Step
<1>4. CASE todo = Boot5 /\ Valid /\ (Settled \/ (Pointed /\ Held(Cells, {2})))
  <2>1. FtwInv'
    BY <1>0, <1>4, StepCheckEmpty
  <2> QED BY <1>0, <1>4, <2>1, NotCell DEF Boot5, Step
<1>5. CASE todo = Boot6 /\ Valid /\ (Settled \/ (Pointed /\ Held(Cells, {2})))
  <2>1. FtwInv'
    BY <1>0, <1>5, StepRestartPending
  <2> QED BY <1>0, <1>5, <2>1, NotCell DEF Boot6, Step
<1>6. CASE todo = Boot7 /\ Valid /\ Free(Cells)
  <2>1. FtwInv'
    BY <1>0, <1>6, StepHook
  <2> QED BY <1>0, <1>6, <2>1, NotCell DEF Boot7, Step
<1> QED BY <1>1, <1>2, <1>3, <1>4, <1>5, <1>6 DEF Booting

\* FtwAbort keeps the invariant.
LEMMA KeepAborting ==
  ASSUME FtwInv, Driver, Aborting
  PROVE  FtwInv' /\ CellKeeps
<1>1. PICK x \in BootAborts \cup {<< >>} :
    /\ IF x = << >> THEN InPlain /\ Quiet ELSE InBoot
    /\ Sound => ~Held(Cells, {2})
    /\ Vouched /\ Pointed
    /\ \/ todo = AbortThen(x)
       \/ todo = Copy4(x) /\ ~Free(Cells)
  BY DEF Aborting
<1>2. IsSeq(x)
  BY AbortSeqs, NoSteps
<1>3. CASE todo = AbortThen(x)
  <2>1. FtwInv'
    BY <1>1, <1>3, StepAbort
  <2> QED BY <1>2, <1>3, <2>1, NotCell DEF AbortThen, Step
<1>4. CASE todo = Copy4(x) /\ ~Free(Cells)
  <2>1. IF x = << >> THEN InPlain ELSE InBoot
    BY <1>1
  <2>2. FtwInv' /\ (Sound => UNCHANGED Contents)
    BY <1>1, <1>4, <2>1, StepAbortComplete
  <2> QED BY <2>2, CellUnchanged
<1> QED BY <1>1, <1>3, <1>4

\* FtwRestart keeps the invariant.
LEMMA KeepRestarting ==
  ASSUME FtwInv, Driver, Restarting
  PROVE  FtwInv' /\ CellKeeps
<1>1. PICK x \in {AbortLastOf(Boot7), << >>} :
    /\ IF x = << >> THEN InPlain /\ Quiet ELSE InBoot
    /\ Vouched /\ Pointed /\ todo = RestartThen(x)
  BY DEF Restarting
<1>2. IsSeq(x)
  BY NoSteps, BootSeqs, PlainSeqs
<1>3. FtwInv'
  BY <1>1, StepRestart
<1> QED BY <1>1, <1>2, <1>3, NotCell DEF RestartThen, Step

\* What follows FtwWriteRecord starts with the erase of the spare block.
LEMMA CopyContFacts ==
  ASSUME NEW y \in CopyConts
  PROVE  \E s : IsSeq(s) /\ y = Cons(EraseSpare, s)
<1>1. CASE y = EraseThen(AbortLastOf(Boot7))
  BY <1>1, BootSeqs, PlainSeqs DEF EraseThen
<1>2. CASE y = EraseThen(<< >>)
  BY <1>2, NoSteps DEF EraseThen
<1>3. CASE y \in WriteEnds
  <2>1. PICK s \in SpareOK : y = Restore1(s, DoneOnly)
    BY <1>3 DEF WriteEnds
  <2> QED BY <2>1, EndSeqs, RestoreSeqs DEF Restore1
<1> QED BY <1>1, <1>2, <1>3 DEF CopyConts

\* FtwWriteRecord, and what its callers do to the spare block, keep the invariant.
LEMMA KeepCopying ==
  ASSUME FtwInv, Driver, Copying
  PROVE  FtwInv' /\ CellKeeps
<1>1. PICK b \in Blocks, v \in Values \cup {Garbage}, y \in CopyConts :
    /\ Copies(b, v, y) /\ Vouched
    /\ \/ todo \in {Copy1(b, v, y), Copy2(b, v, y)} /\ AtRecord(b, {2}) /\ spare.val = v
       \/ todo = Copy3(y) /\ AtRecord(b, {2}) /\ spare.val = v /\ target[b] = v
       \/ todo = Copy4(y) /\ AtRecord(b, {2, 4}) /\ target[b] = v
       \/ todo = y /\ Free(Cells) /\ target[b] = v
  BY DEF Copying
<1>2. IsSeq(y) /\ IsSeq(Copy2(b, v, y)) /\ IsSeq(Copy3(y))
  BY CopySeqs, WriteSeqs
<1>3. CASE todo = Copy1(b, v, y) /\ AtRecord(b, {2}) /\ spare.val = v
  <2>1. FtwInv'
    BY <1>1, <1>3, StepCopyErase
  <2> QED BY <1>2, <1>3, <2>1, NotCell DEF Copy1, EraseTarget
<1>4. CASE todo = Copy2(b, v, y) /\ AtRecord(b, {2}) /\ spare.val = v
  <2>1. FtwInv'
    BY <1>1, <1>4, StepCopyWrite
  <2> QED BY <1>2, <1>4, <2>1, NotCell DEF Copy2, WriteTarget
<1>5. CASE todo = Copy3(y) /\ AtRecord(b, {2}) /\ spare.val = v /\ target[b] = v
  <2>1. FtwInv' /\ (Sound => UNCHANGED Contents)
    BY <1>1, <1>5, StepCopyDone
  <2> QED BY <2>1, CellUnchanged
<1>6. CASE todo = Copy4(y) /\ AtRecord(b, {2, 4}) /\ target[b] = v
  <2>1. FtwInv' /\ (Sound => UNCHANGED Contents)
    BY <1>1, <1>6, StepCopyComplete
  <2> QED BY <2>1, CellUnchanged
<1>7. CASE todo = y /\ Free(Cells) /\ target[b] = v
  <2>1. FtwInv'
    BY <1>1, <1>7, StepCopyEnd
  <2>2. PICK s : IsSeq(s) /\ y = Cons(EraseSpare, s)
    BY CopyContFacts
  <2> QED BY <1>7, <2>1, <2>2, NotCell DEF EraseSpare, Step
<1> QED BY <1>1, <1>3, <1>4, <1>5, <1>6, <1>7

\* FtwAllocate keeps the invariant.
LEMMA KeepAllocating ==
  ASSUME FtwInv, Driver, Allocating
  PROVE  FtwInv' /\ CellKeeps
<1>1. PICK x \in {<< >>, CheckOnly} :
    /\ IF x = << >> THEN InPlain ELSE InWrite
    /\ Vouched /\ Pointed
    /\ \/ todo = AllocateThen(x) /\ Quiet /\ (x = CheckOnly => Free(Cells))
       \/ todo = Alloc1(x) /\ Free(Cells)
       \/ todo = Alloc2(x) /\ Held(Cells, {}) /\ LastRec = Erased
       \/ todo = Alloc3(x) /\ Allocated(Cells)
  BY DEF Allocating
<1>2. IsSeq(x)
  BY NoSteps, EndSeqs
<1>3. CASE todo = AllocateThen(x) /\ Quiet /\ (x = CheckOnly => Free(Cells))
  <2>1. FtwInv'
    BY <1>1, <1>3, StepAllocate
  <2> QED BY <1>2, <1>3, <2>1, NotCell DEF AllocateThen
<1>4. CASE todo = Alloc1(x) /\ Free(Cells)
  <2>1. FtwInv' /\ (Sound => UNCHANGED Contents)
    BY <1>1, <1>4, StepAllocHeader
  <2> QED BY <2>1, CellUnchanged
<1>5. CASE todo = Alloc2(x) /\ Held(Cells, {}) /\ LastRec = Erased
  <2>1. FtwInv' /\ (Sound => UNCHANGED Contents)
    BY <1>1, <1>5, StepAllocBit
  <2> QED BY <2>1, CellUnchanged
<1>6. CASE todo = Alloc3(x) /\ Allocated(Cells)
  <2>1. FtwInv'
    BY <1>1, <1>6, StepAllocateDone
  <2> QED BY <1>2, <1>6, <2>1, NotCell DEF Alloc3
<1> QED BY <1>1, <1>3, <1>4, <1>5, <1>6

\* FtwWrite keeps the invariant.
LEMMA KeepWriting ==
  ASSUME FtwInv, Driver, Writing
  PROVE  FtwInv' /\ CellKeeps
<1>0. InWrite /\ Vouched
  BY DEF Writing
<1>1. CASE todo \in BeginConts /\ Quiet /\ Pointed
  <2>1. PICK p \in BOOLEAN : todo = WriteBeginWith(p)
    BY <1>1 DEF BeginConts
  <2>2. FtwInv'
    BY <1>0, <1>1, <2>1, StepWriteBegin
  <2> QED BY <2>1, <2>2, NoSteps, NotCell DEF WriteBeginWith
<1>2. CASE todo = CheckOnly /\ Quiet /\ Pointed /\ ~Free(Cells)
  <2>1. FtwInv'
    BY <1>0, <1>2, StepWriteCheck
  <2> QED BY <1>2, <2>1, NoSteps, NotCell DEF CheckOnly, Step
<1>3. CASE \E y \in WriteEnds :
          LET b == request.blk
              v == request.val
          IN  \/ /\ todo = Write1(b, v, y) /\ Pointed /\ Held(Cells, {})
                 /\ Sound => LastRec = Erased
              \/ todo \in {Write2(b, v, y), Write3(b, v, y)} /\ AtRecord(b, {})
              \/ todo = Write4(b, v, y) /\ AtRecord(b, {}) /\ spare.val = v
  <2>1. PICK b, v : b = request.blk /\ v = request.val
    OBVIOUS
  <2>2. PICK y \in WriteEnds :
              \/ /\ todo = Write1(b, v, y) /\ Pointed /\ Held(Cells, {})
                 /\ Sound => LastRec = Erased
              \/ todo \in {Write2(b, v, y), Write3(b, v, y)} /\ AtRecord(b, {})
              \/ todo = Write4(b, v, y) /\ AtRecord(b, {}) /\ spare.val = v
    BY <1>3, <2>1
  <2>3. IsSeq(y) /\ IsSeq(Write3(b, v, y)) /\ IsSeq(Write4(b, v, y))
    BY CopySeqs, WriteSeqs
  <2>4. CASE todo = Write1(b, v, y) /\ Pointed /\ Held(Cells, {}) /\ (Sound => LastRec = Erased)
    <3>1. FtwInv' /\ (Sound => UNCHANGED Contents)
      BY <1>0, <2>1, <2>4, StepWriteRecord
    <3> QED BY <3>1, CellUnchanged
  <2>5. CASE todo = Write2(b, v, y) /\ AtRecord(b, {})
    <3>1. FtwInv'
      BY <1>0, <2>1, <2>5, StepWriteSpare
    <3> QED BY <2>3, <2>5, <3>1, NotCell DEF Write2, EraseSpare, Step
  <2>6. CASE todo = Write3(b, v, y) /\ AtRecord(b, {})
    <3>1. FtwInv'
      BY <1>0, <2>1, <2>6, StepWriteSpare
    <3> QED BY <2>3, <2>6, <3>1, NotCell DEF Write3, WriteSpare
  <2>7. CASE todo = Write4(b, v, y) /\ AtRecord(b, {}) /\ spare.val = v
    <3>1. /\ FtwInv' /\ UNCHANGED <<spare, target, power, ptrs, client>>
          /\ Sound => Contents' = [Contents EXCEPT ![b] = v]
      BY <1>0, <2>1, <2>7, StepWriteCommit
    <3>2. Sound => Commits
      BY <1>0, <2>1, <3>1 DEF Commits, InWrite
    <3> QED BY <3>1, <3>2 DEF CellKeeps
  <2> QED BY <2>2, <2>4, <2>5, <2>6, <2>7
<1>4. CASE \E s \in SpareOK :
          /\ todo \in {Restore2(s, DoneOnly), DoneOnly}
          /\ Free(Cells) /\ target[request.blk] = request.val
  <2>1. PICK s \in SpareOK :
          /\ todo \in {Restore2(s, DoneOnly), DoneOnly}
          /\ Free(Cells) /\ target[request.blk] = request.val
    BY <1>4
  <2>2. FtwInv'
    BY <1>0, <2>1, StepWriteEnd
  <2>3. CASE todo = Restore2(s, DoneOnly)
    BY <2>2, <2>3, EndSeqs, NotCell DEF Restore2, WriteSpare
  <2>4. CASE todo = DoneOnly
    BY <2>2, <2>4, NoSteps, NotCell DEF DoneOnly, Step
  <2> QED BY <2>1, <2>3, <2>4
<1> QED BY <1>1, <1>2, <1>3, <1>4 DEF Writing

\* Every step of the driver keeps the invariant.
LEMMA DriverKeeps ==
  ASSUME FtwInv, Driver
  PROVE  FtwInv' /\ CellKeeps
<1>1. CASE Looking
  <2>1. InPlain /\ todo = LookOnly /\ Vouched /\ Quiet /\ Pointed
    BY <1>1 DEF Looking
  <2>2. FtwInv'
    BY <2>1, StepLook
  <2> QED BY <2>1, <2>2, NoSteps, NotCell DEF LookOnly, Step
<1>2. ~Outside
  BY DriverBusy DEF Outside
<1> QED
  BY <1>1, <1>2, Facts, KeepRefreshing, KeepReclaiming, KeepFlushing, KeepBooting, KeepAborting,
     KeepRestarting, KeepCopying, KeepAllocating, KeepWriting DEF Place

-----------------------------------------------------------------------------
(* What holds when the driver is about to take a step *)

Meets ==
  /\ Outside \/ \E z : At(z)
  /\ At("EraseSpare") \/ At("WriteSpare") => (Sound => ~Held(Cells, {2}))
  /\ At("WriteSpare") => Op.data \in SpareOK
  /\ At("SpareBit") => Op.bit = WORKING_BLOCK_VALID
  /\ At("WorkBit") => Op.bit \in {1, 2}
  /\ At("WorkBit") \/ At("EraseWork") => (Sound => Free(Cells))
  /\ At("WriteWork") => Op.cells = NoCells /\ work = BlankWork
  /\ At("EraseTarget") \/ At("WriteTarget") => Op.blk \in Blocks /\ (Sound => Unfinished(Op.blk))
  /\ At("WriteCell") => (Sound => Cells[Op.at] \in {Erased, Op.cell})
  /\ At("AllocateDone") => Op.num = 1 /\ Allocated(Cells)
  /\ At("WriteBegin") \/ At("WriteCheck") => request \in Requests
  /\ At("WriteDone") => request \in Requests /\ Free(Cells) /\ target[request.blk] = request.val
  /\ At("Hook") => Valid /\ Free(Cells)

\* The steps of which nothing is asked.
LEMMA Harmless ==
  ASSUME NEW x, NEW s, IsSeq(s), todo = Cons(x, s),
         x.do \in {"Refresh", "Point", "Allocate", "Restart", "Abort", "GetLastWrite", "Validate",
                   "AbortFirst", "AbortLast", "CheckEmpty", "RestartPending", "CellBit"}
  PROVE  Meets
<1>1. \A z : At(z) <=> x.do = z
  BY Taking
<1> QED BY <1>1 DEF Meets

\* The spare block is erased or written while nothing is backed up in it.
LEMMA MeetSpare ==
  ASSUME NEW s, IsSeq(s), Sound => ~Held(Cells, {2}),
         todo = Cons(EraseSpare, s) \/ \E d \in SpareOK : todo = Cons(WriteSpare(d), s)
  PROVE  Meets
<1>1. CASE todo = Cons(EraseSpare, s)
  <2>1. \A z : At(z) <=> "EraseSpare" = z
    BY <1>1, Taking DEF EraseSpare, Step
  <2> QED BY <2>1 DEF Meets
<1>2. CASE \E d \in SpareOK : todo = Cons(WriteSpare(d), s)
  <2>1. PICK d \in SpareOK : todo = Cons(WriteSpare(d), s)
    BY <1>2
  <2>2. Op = WriteSpare(d) /\ \A z : At(z) <=> "WriteSpare" = z
    BY <2>1, Taking DEF WriteSpare
  <2>3. Op.data \in SpareOK
    BY <2>2 DEF WriteSpare
  <2> QED BY <2>2, <2>3 DEF Meets
<1> QED BY <1>1, <1>2

\* The copy in the spare block is marked valid.
LEMMA MeetSpareBit ==
  ASSUME NEW s, IsSeq(s), todo = Cons(SpareBit(WORKING_BLOCK_VALID), s)
  PROVE  Meets
<1>1. Op.bit = WORKING_BLOCK_VALID /\ \A z : At(z) <=> "SpareBit" = z
  BY Taking DEF SpareBit
<1> QED BY <1>1 DEF Meets

\* The working block is marked or erased while it holds no open header.
LEMMA MeetWork ==
  ASSUME NEW s, IsSeq(s), Sound => Free(Cells),
         todo = Cons(EraseWork, s) \/ \E d \in {1, 2} : todo = Cons(WorkBit(d), s)
  PROVE  Meets
<1>1. CASE todo = Cons(EraseWork, s)
  <2>1. \A z : At(z) <=> "EraseWork" = z
    BY <1>1, Taking DEF EraseWork, Step
  <2> QED BY <2>1 DEF Meets
<1>2. CASE \E d \in {1, 2} : todo = Cons(WorkBit(d), s)
  <2>1. PICK d \in {1, 2} : todo = Cons(WorkBit(d), s)
    BY <1>2
  <2>2. Op.bit = d /\ \A z : At(z) <=> "WorkBit" = z
    BY <2>1, Taking DEF WorkBit
  <2> QED BY <2>1, <2>2 DEF Meets
<1> QED BY <1>1, <1>2

\* FtwReclaimWorkSpace meets them.
LEMMA MeetReclaiming ==
  ASSUME FtwInv, Reclaiming
  PROVE  Meets
<1>1. CASE \E f \in RestoreConts :
             /\ Sound => Free(Cells)
             /\ \/ \E g \in BOOLEAN : todo \in {Reclaim1(g, f), Reclaim2(g, f)}
                \/ todo \in {Reclaim3(f), Reclaim4(f)}
  <2>1. PICK f \in RestoreConts :
             /\ Sound => Free(Cells)
             /\ \/ \E g \in BOOLEAN : todo \in {Reclaim1(g, f), Reclaim2(g, f)}
                \/ todo \in {Reclaim3(f), Reclaim4(f)}
    BY <1>1
  <2>2. PICK g \in BOOLEAN : todo \in {Reclaim1(g, f), Reclaim2(g, f), Reclaim3(f), Reclaim4(f)}
    BY <2>1
  <2>3. Sound => ~Held(Cells, {2})
    BY <2>1, UnfinishedFacts
  <2>4. IsSeq(f) /\ IsSeq(Reclaim2(g, f)) /\ IsSeq(Reclaim3(f)) /\ IsSeq(Reclaim4(f)) /\ IsSeq(Flush1(f))
    BY FlushContSeqs, FlushSeqs
  <2>5. CASE todo = Reclaim1(g, f)
    BY <2>3, <2>4, <2>5, MeetSpare DEF Reclaim1
  <2>6. CASE todo = Reclaim2(g, f)
    <3>1. Copy([sig |-> g, state |-> {}, cells |-> NoCells]) \in SpareOK
      BY SpareFacts
    <3>2. \E d \in SpareOK : todo = Cons(WriteSpare(d), Reclaim3(f))
      BY <2>6, <3>1 DEF Reclaim2
    <3> QED BY <2>3, <2>4, <3>2, MeetSpare
  <2>7. CASE todo = Reclaim3(f)
    BY <2>4, <2>7, MeetSpareBit DEF Reclaim3
  <2>8. CASE todo = Reclaim4(f)
    BY <2>1, <2>4, <2>8, MeetWork DEF Reclaim4, WORKING_BLOCK_INVALID
  <2> QED BY <2>2, <2>5, <2>6, <2>7, <2>8
<1>2. CASE \E e \in PointConts, s \in SpareOK :
             /\ Valid /\ Cells = NoCells
             /\ todo \in {Restore1(s, e), Restore2(s, e)}
  <2>1. PICK e \in PointConts, s \in SpareOK :
             /\ Valid /\ Cells = NoCells
             /\ todo \in {Restore1(s, e), Restore2(s, e)}
    BY <1>2
  <2>2. ~Held(Cells, {2})
    BY <2>1, EmptySpace, UnfinishedFacts
  <2>3. IsSeq(e) /\ IsSeq(Restore2(s, e))
    BY PointSeqs, RestoreSeqs
  <2>4. CASE todo = Restore1(s, e)
    BY <2>2, <2>3, <2>4, MeetSpare DEF Restore1
  <2>5. CASE todo = Restore2(s, e)
    BY <2>2, <2>3, <2>5, MeetSpare DEF Restore2
  <2> QED BY <2>1, <2>4, <2>5
<1> QED BY <1>1, <1>2 DEF Reclaiming

\* FlushSpareBlockToWorkingBlock meets them.
LEMMA MeetFlushing ==
  ASSUME FtwInv, Flushing
  PROVE  Meets
<1>1. PICK f \in FlushConts :
    \/ todo \in {Flush1(f), Flush2(f), Flush3(f)} /\ (Sound => Free(Cells))
    \/ todo = Flush4(f) /\ work = BlankWork
    \/ todo = Flush5(f) /\ work = [sig |-> TRUE, state |-> {}, cells |-> NoCells]
  BY DEF Flushing
<1>2. IsSeq(f) /\ IsSeq(Flush2(f)) /\ IsSeq(Flush3(f)) /\ IsSeq(Flush4(f)) /\ IsSeq(Flush5(f))
  BY FlushContSeqs, FlushSeqs
<1>3. CASE todo = Flush1(f)
  BY <1>2, <1>3, MeetSpareBit DEF Flush1
<1>4. CASE todo = Flush2(f) /\ (Sound => Free(Cells))
  BY <1>2, <1>4, MeetWork DEF Flush2, WORKING_BLOCK_INVALID
<1>5. CASE todo = Flush3(f) /\ (Sound => Free(Cells))
  BY <1>2, <1>5, MeetWork DEF Flush3
<1>6. CASE todo = Flush4(f) /\ work = BlankWork
  <2>1. Op = WriteWork(NoCells) /\ \A z : At(z) <=> "WriteWork" = z
    BY <1>2, <1>6, Taking DEF Flush4, WriteWork
  <2>2. Op.cells = NoCells
    BY <2>1 DEF WriteWork
  <2> QED BY <1>6, <2>1, <2>2 DEF Meets
<1>7. CASE todo = Flush5(f) /\ work = [sig |-> TRUE, state |-> {}, cells |-> NoCells]
  <2>1. Free(Cells)
    BY <1>7, EmptySpace DEF Cells
  <2> QED BY <1>2, <1>7, <2>1, MeetWork DEF Flush5, WORKING_BLOCK_VALID
<1> QED BY <1>1, <1>3, <1>4, <1>5, <1>6, <1>7

\* InitFtwProtocol meets them, when it installs the protocol above all.
LEMMA MeetBooting ==
  ASSUME FtwInv, Booting
  PROVE  Meets
<1>0. IsSeq(Boot3) /\ IsSeq(Boot4) /\ IsSeq(Boot5) /\ IsSeq(Boot6) /\ IsSeq(Boot7) /\ IsSeq(<< >>)
  BY BootSeqs, NoSteps
<1>1. CASE todo = Boot2
  BY <1>0, <1>1, Harmless DEF Boot2, Step
<1>2. CASE todo = Boot3
  BY <1>0, <1>2, Harmless DEF Boot3, Step
<1>3. CASE todo = Boot4
  BY <1>0, <1>3, Harmless DEF Boot4, Step
<1>4. CASE todo = Boot5
  BY <1>0, <1>4, Harmless DEF Boot5, Step
<1>5. CASE todo = Boot6
  BY <1>0, <1>5, Harmless DEF Boot6, Step
<1>6. CASE todo = Boot7 /\ Valid /\ Free(Cells)
  <2>1. \A z : At(z) <=> "Hook" = z
    BY <1>0, <1>6, Taking DEF Boot7, Step
  <2> QED BY <1>6, <2>1 DEF Meets
<1> QED BY <1>1, <1>2, <1>3, <1>4, <1>5, <1>6 DEF Booting

\* FtwWriteRecord meets them: the block it erases is backed up.
LEMMA MeetCopying ==
  ASSUME FtwInv, Copying
  PROVE  Meets
<1>1. PICK b \in Blocks, v \in Values \cup {Garbage}, y \in CopyConts :
    /\ Copies(b, v, y) /\ Vouched
    /\ \/ todo \in {Copy1(b, v, y), Copy2(b, v, y)} /\ AtRecord(b, {2}) /\ spare.val = v
       \/ todo = Copy3(y) /\ AtRecord(b, {2}) /\ spare.val = v /\ target[b] = v
       \/ todo = Copy4(y) /\ AtRecord(b, {2, 4}) /\ target[b] = v
       \/ todo = y /\ Free(Cells) /\ target[b] = v
  BY DEF Copying
<1>2. IsSeq(y) /\ IsSeq(Copy2(b, v, y)) /\ IsSeq(Copy3(y)) /\ IsSeq(Copy4(y))
  BY CopySeqs, WriteSeqs
<1>3. CASE todo = Copy1(b, v, y) /\ AtRecord(b, {2})
  <2>1. Op = EraseTarget(b) /\ \A z : At(z) <=> "EraseTarget" = z
    BY <1>2, <1>3, Taking DEF Copy1, EraseTarget
  <2>2. Op.blk = b
    BY <2>1 DEF EraseTarget
  <2>3. Sound => Unfinished(b)
    BY <1>1, <1>3, BackedUp
  <2> QED BY <2>1, <2>2, <2>3 DEF Meets
<1>4. CASE todo = Copy2(b, v, y) /\ AtRecord(b, {2})
  <2>1. Op = WriteTarget(b, v) /\ \A z : At(z) <=> "WriteTarget" = z
    BY <1>2, <1>4, Taking DEF Copy2, WriteTarget
  <2>2. Op.blk = b
    BY <2>1 DEF WriteTarget
  <2>3. Sound => Unfinished(b)
    BY <1>1, <1>4, BackedUp
  <2> QED BY <2>1, <2>2, <2>3 DEF Meets
<1>5. CASE todo = Copy3(y)
  BY <1>2, <1>5, Harmless DEF Copy3, CellBit
<1>6. CASE todo = Copy4(y)
  BY <1>2, <1>6, Harmless DEF Copy4, CellBit
<1>7. CASE todo = y /\ Free(Cells)
  <2>1. PICK s : IsSeq(s) /\ y = Cons(EraseSpare, s)
    BY CopyContFacts
  <2>2. ~Held(Cells, {2})
    BY <1>7, UnfinishedFacts
  <2> QED BY <1>7, <2>1, <2>2, MeetSpare
<1> QED BY <1>1, <1>3, <1>4, <1>5, <1>6, <1>7

\* A cell is written where nothing is, or where the same was written before.
LEMMA MeetCell ==
  ASSUME NEW s, IsSeq(s), NEW i, NEW c, todo = Cons(WriteCell(i, c), s), Sound => Cells[i] = Erased
  PROVE  Meets
<1>1. Op = WriteCell(i, c) /\ \A z : At(z) <=> "WriteCell" = z
  BY Taking DEF WriteCell
<1>2. Op.at = i
  BY <1>1 DEF WriteCell
<1> QED BY <1>1, <1>2 DEF Meets

\* FtwAllocate meets them.
LEMMA MeetAllocating ==
  ASSUME FtwInv, Allocating
  PROVE  Meets
<1>1. PICK x \in {<< >>, CheckOnly} :
    /\ IF x = << >> THEN InPlain ELSE InWrite
    /\ Vouched /\ Pointed
    /\ \/ todo = AllocateThen(x) /\ Quiet /\ (x = CheckOnly => Free(Cells))
       \/ todo = Alloc1(x) /\ Free(Cells)
       \/ todo = Alloc2(x) /\ Held(Cells, {}) /\ LastRec = Erased
       \/ todo = Alloc3(x) /\ Allocated(Cells)
  BY DEF Allocating
<1>2. IsSeq(x) /\ IsSeq(Alloc2(x)) /\ IsSeq(Alloc3(x))
  BY NoSteps, EndSeqs, WriteSeqs
<1>3. CASE todo = AllocateThen(x)
  BY <1>2, <1>3, Harmless DEF AllocateThen
<1>4. CASE todo = Alloc1(x) /\ Free(Cells)
  <2>1. Cells[FtwLastWriteHeader] = Erased
    BY <1>1, <1>4, PointedFree DEF LastHdr
  <2> QED BY <1>2, <1>4, <2>1, MeetCell DEF Alloc1
<1>5. CASE todo = Alloc2(x)
  BY <1>2, <1>5, Harmless DEF Alloc2, CellBit
<1>6. CASE todo = Alloc3(x) /\ Allocated(Cells)
  <2>1. Op = [do |-> "AllocateDone", num |-> 1] /\ \A z : At(z) <=> "AllocateDone" = z
    BY <1>2, <1>6, Taking DEF Alloc3
  <2>2. Op.num = 1
    BY <2>1
  <2> QED BY <1>6, <2>1, <2>2 DEF Meets
<1> QED BY <1>1, <1>3, <1>4, <1>5, <1>6

\* FtwWrite meets them.
LEMMA MeetWriting ==
  ASSUME FtwInv, Writing
  PROVE  Meets
<1>0. InWrite /\ Vouched /\ request \in Requests
  BY DEF Writing, InWrite
<1>1. CASE todo \in BeginConts
  <2>1. PICK p \in BOOLEAN : todo = WriteBeginWith(p)
    BY <1>1 DEF BeginConts
  <2>2. \A z : At(z) <=> "WriteBegin" = z
    BY <2>1, NoSteps, Taking DEF WriteBeginWith
  <2> QED BY <1>0, <2>2 DEF Meets
<1>2. CASE todo = CheckOnly
  <2>1. \A z : At(z) <=> "WriteCheck" = z
    BY <1>2, NoSteps, Taking DEF CheckOnly, Step
  <2> QED BY <1>0, <2>1 DEF Meets
<1>3. CASE \E y \in WriteEnds :
          LET b == request.blk
              v == request.val
          IN  \/ /\ todo = Write1(b, v, y) /\ Pointed /\ Held(Cells, {})
                 /\ Sound => LastRec = Erased
              \/ todo \in {Write2(b, v, y), Write3(b, v, y)} /\ AtRecord(b, {})
              \/ todo = Write4(b, v, y) /\ AtRecord(b, {}) /\ spare.val = v
  <2>1. PICK b, v : b = request.blk /\ v = request.val
    OBVIOUS
  <2>2. PICK y \in WriteEnds :
              \/ /\ todo = Write1(b, v, y) /\ Pointed /\ Held(Cells, {})
                 /\ Sound => LastRec = Erased
              \/ todo \in {Write2(b, v, y), Write3(b, v, y)} /\ AtRecord(b, {})
              \/ todo = Write4(b, v, y) /\ AtRecord(b, {}) /\ spare.val = v
    BY <1>3, <2>1
  <2>3. IsSeq(y) /\ IsSeq(Write2(b, v, y)) /\ IsSeq(Write3(b, v, y)) /\ IsSeq(Write4(b, v, y)) /\ IsSeq(Copy1(b, v, y))
    BY CopySeqs, WriteSeqs
  <2>4. AtRecord(b, {}) => ~Held(Cells, {2})
    <3>1. ASSUME Held(Cells, {}), Held(Cells, {2}) PROVE {} = {2}
      BY <3>1, Facts, HeldOnce DEF RecordStates
    <3> QED BY <3>1 DEF AtRecord
  <2>5. CASE todo = Write1(b, v, y) /\ (Sound => LastRec = Erased)
    BY <2>3, <2>5, MeetCell DEF Write1, LastRec
  <2>6. CASE todo = Write2(b, v, y) /\ AtRecord(b, {})
    BY <2>3, <2>4, <2>6, MeetSpare DEF Write2
  <2>7. CASE todo = Write3(b, v, y) /\ AtRecord(b, {})
    <3>1. Data(v) \in SpareOK
      BY <1>0, <2>1, RequestFacts, SpareFacts
    <3>2. \E d \in SpareOK : todo = Cons(WriteSpare(d), Write4(b, v, y))
      BY <2>7, <3>1 DEF Write3
    <3> QED BY <2>3, <2>4, <2>7, <3>2, MeetSpare
  <2>8. CASE todo = Write4(b, v, y)
    BY <2>3, <2>8, Harmless DEF Write4, CellBit
  <2> QED BY <2>2, <2>5, <2>6, <2>7, <2>8
<1>4. CASE \E s \in SpareOK :
          /\ todo \in {Restore2(s, DoneOnly), DoneOnly}
          /\ Free(Cells) /\ target[request.blk] = request.val
  <2>1. PICK s \in SpareOK :
          /\ todo \in {Restore2(s, DoneOnly), DoneOnly}
          /\ Free(Cells) /\ target[request.blk] = request.val
    BY <1>4
  <2>2. ~Held(Cells, {2})
    BY <2>1, UnfinishedFacts
  <2>3. CASE todo = Restore2(s, DoneOnly)
    BY <2>2, <2>3, EndSeqs, MeetSpare DEF Restore2
  <2>4. CASE todo = DoneOnly
    <3>1. \A z : At(z) <=> "WriteDone" = z
      BY <2>4, NoSteps, Taking DEF DoneOnly, Step
    <3> QED BY <1>0, <2>1, <3>1 DEF Meets
  <2> QED BY <2>1, <2>3, <2>4
<1> QED BY <1>1, <1>2, <1>3, <1>4 DEF Writing

\* WorkSpaceRefresh meets them.
LEMMA MeetRefreshing ==
  ASSUME Refreshing
  PROVE  Meets
<1>1. CASE \E c \in Fitting : todo = RefreshThen(c)
  <2>1. PICK c \in Fitting : todo = RefreshThen(c)
    BY <1>1
  <2> QED BY <2>1, FittingSeqs, Harmless DEF RefreshThen, Refresh, Step
<1>2. CASE \E c \in Fitting : todo \in {PointThen(c), PointThen(PointThen(c))}
  <2>1. PICK c \in Fitting : todo \in {PointThen(c), PointThen(PointThen(c))}
    BY <1>2
  <2>2. PICK d \in {c, PointThen(c)} : todo = PointThen(d)
    BY <2>1
  <2> QED BY <2>2, FittingSeqs, Harmless DEF PointThen, Point, Step
<1> QED BY <1>1, <1>2 DEF Refreshing

\* What holds before a step holds in every state of the invariant.
LEMMA InvMeets ==
  ASSUME FtwInv
  PROVE  Meets
<1>1. CASE Outside
  <2>1. \A z : ~At(z)
    BY <1>1 DEF Outside, At
  <2> QED BY <1>1, <2>1 DEF Meets
<1>2. CASE Aborting
  <2>1. PICK x \in BootAborts \cup {<< >>} : todo = AbortThen(x) \/ todo = Copy4(x)
    BY <1>2 DEF Aborting
  <2>2. IsSeq(x)
    BY AbortSeqs, NoSteps
  <2>3. CASE todo = AbortThen(x)
    BY <2>2, <2>3, Harmless DEF AbortThen, Step
  <2>4. CASE todo = Copy4(x)
    BY <2>2, <2>4, Harmless DEF Copy4, CellBit
  <2> QED BY <2>1, <2>3, <2>4
<1>3. CASE Restarting
  <2>1. PICK x \in {AbortLastOf(Boot7), << >>} : todo = RestartThen(x)
    BY <1>3 DEF Restarting
  <2>2. IsSeq(x)
    BY NoSteps, BootSeqs, PlainSeqs
  <2> QED BY <2>1, <2>2, Harmless DEF RestartThen, Step
<1>4. CASE Looking
  <2>1. todo = LookOnly
    BY <1>4 DEF Looking
  <2> QED BY <2>1, NoSteps, Harmless DEF LookOnly, Step
<1> QED
  BY <1>1, <1>2, <1>3, <1>4, Facts, MeetRefreshing, MeetReclaiming, MeetFlushing, MeetBooting,
     MeetCopying, MeetAllocating, MeetWriting DEF Place

-----------------------------------------------------------------------------
(* The other actions keep the invariant *)

\* FtwAllocate is called for one write at a time.
OneWrite == AllocSizes \subseteq {1}

\* The invariant holds before the first boot.
LEMMA InitHolds ==
  ASSUME Init
  PROVE  FtwInv
<1>1. TypeOK
  <2>1. work \in WorkingBlock /\ spare \in SpareBlock
    BY WorkFacts, SpareFacts DEF Init
  <2>2. V0 \in Values /\ target \in [Blocks -> Values \cup {Garbage}]
    BY FtwAssumption DEF Init
  <2>3. FtwLastWriteHeader \in Index /\ FtwLastWriteRecord \in 1..(W - 1)
    BY FtwAssumption DEF Init, Index
  <2> QED BY <2>1, <2>2, <2>3 DEF Init, TypeOK
<1>2. Cells = NoCells
  BY DEF Init, Cells, BlankWork
<1>3. LayoutOK(Cells) /\ Free(Cells) /\ ~Held(Cells, {2})
  BY <1>2, EmptySpace, FreeFacts DEF LayoutOK, RecordStates
<1>4. ContentOK
  BY <1>3, FtwAssumption DEF ContentOK, Init
<1>5. FlashOK
  BY <1>3, <1>4, SpareFacts DEF FlashOK, Init
<1>6. Outside
  BY DEF Init, Outside
<1> QED BY <1>1, <1>5, <1>6 DEF FtwInv, Place

\* Between two services the driver is at rest.
LEMMA Idle ==
  ASSUME FtwInv, todo = << >>
  PROVE  Outside
BY InvMeets DEF Meets, At

\* The driver does not run while the power is off.
LEMMA FitsOn ==
  ASSUME NEW c, Fits(c)
  PROVE  power # "off"
BY DEF Fits, InBoot, InPlain, InWrite

\* Nor does what may follow one of its functions.
LEMMA ContsOn ==
  /\ \A c \in Fitting : power # "off"
  /\ \A f \in RestoreConts : power # "off"
  /\ \A f \in FlushConts : power # "off"
  /\ \A e \in PointConts : power # "off"
<1>1. \A c \in Fitting : power # "off"
  BY FitsOn DEF Fitting
<1>2. \A e \in PointConts : power # "off"
  BY <1>1 DEF PointConts
<1>3. \A f \in RestoreConts : power # "off"
  BY <1>2 DEF RestoreConts
<1>4. \A f \in FlushConts : power # "off"
  BY <1>3 DEF FlushConts, InBoot
<1> QED BY <1>1, <1>2, <1>3, <1>4

\* With the power off there is nothing to do.
LEMMA OffOutside ==
  ASSUME FtwInv, power = "off"
  PROVE  Outside
<1>1. ~Refreshing /\ ~Reclaiming /\ ~Flushing
  BY ContsOn DEF Refreshing, Reclaiming, Flushing
<1>2. ~InBoot /\ ~InPlain /\ ~InWrite
  BY DEF InBoot, InPlain, InWrite
<1>3. ~Booting /\ ~Aborting /\ ~Restarting /\ ~Allocating /\ ~Writing /\ ~Looking
  BY <1>2 DEF Booting, Aborting, Restarting, Allocating, Writing, Looking
<1>4. ~Copying
  BY <1>2 DEF Copying, Copies
<1> QED BY <1>1, <1>3, <1>4, Facts DEF Place

\* A service is called: it begins with a WorkSpaceRefresh.
LEMMA CallKeeps ==
  ASSUME FtwInv, NEW c \in PlainConts \cup BeginConts, power = "on", todo = << >>,
         todo' = RefreshThen(c), UNCHANGED <<flash, power, ptrs>>,
         \/ c \in PlainConts /\ UNCHANGED client
         \/ c \in BeginConts /\ request' \in Requests /\ result' = "none"
  PROVE  FtwInv'
<1>1. Outside /\ request = NoRequest /\ Quiet /\ Vouched
  BY Idle DEF Outside
<1>2. Cells' = Cells /\ power' = "on" /\ (Valid' <=> Valid) /\ Last' = Last
  BY DEF Cells, Valid, Last, flash
<1>3. Quiet' /\ Vouched'
  BY <1>1, <1>2 DEF Quiet, Vouched
<1>4. TypeOK'
  BY <1>2, Facts DEF TypeOK, flash, ptrs, client, Requests
<1>5. FlashOK'
  BY Facts DEF FlashOK, flash, ContentOK, Unfinished, Valid, Last, Cells
<1>6. c \in Conts
  BY DEF Conts
<1>7. Fits(c)'
  BY <1>1, <1>2, <1>3 DEF Fits, InPlain, InWrite, client
<1>8. Place'
  BY <1>3, <1>6, <1>7, ToRefresh
<1> QED BY <1>4, <1>5, <1>8 DEF FtwInv

\* The calls of the services keep the invariant.
LEMMA ServiceKeeps ==
  ASSUME FtwInv, Service, OneWrite
  PROVE  FtwInv'
<1>1. CASE CallAllocate
  <2>1. PICK n \in AllocSizes : Call("Allocate", FtwAllocate(n)) /\ UNCHANGED client
    BY <1>1 DEF CallAllocate
  <2>2. n = 1
    BY DEF OneWrite
  <2>3. todo' = RefreshThen(AllocateThen(<< >>)) /\ AllocateThen(<< >>) \in PlainConts
    BY <2>1, <2>2, ServicePrograms DEF Call, PlainConts
  <2> QED BY <2>1, <2>3, CallKeeps DEF Call
<1>2. CASE CallWrite
  <2>1. PICK b \in Blocks, v \in Values, p \in PrivateData :
          /\ Call("Write", <<Refresh, [do |-> "WriteBegin", private |-> p]>>)
          /\ request' = [blk |-> b, val |-> v] /\ result' = "none"
    BY <1>2 DEF CallWrite
  <2>2. WriteBeginWith(p) \in BeginConts
    BY FtwAssumption DEF BeginConts
  <2>3. todo' = RefreshThen(WriteBeginWith(p))
    BY <2>1, ServicePrograms DEF Call
  <2>4. request' \in Requests
    BY <2>1 DEF Requests
  <2> QED BY <2>1, <2>2, <2>3, <2>4, CallKeeps DEF Call
<1>3. CASE CallRestart
  <2>1. todo' = RefreshThen(RestartThen(<< >>)) /\ RestartThen(<< >>) \in PlainConts
    BY <1>3, ServicePrograms DEF CallRestart, Call, PlainConts
  <2> QED BY <1>3, <2>1, CallKeeps DEF CallRestart, Call
<1>4. CASE CallAbort
  <2>1. todo' = RefreshThen(AbortThen(<< >>)) /\ AbortThen(<< >>) \in PlainConts
    BY <1>4, ServicePrograms DEF CallAbort, Call, PlainConts
  <2> QED BY <1>4, <2>1, CallKeeps DEF CallAbort, Call
<1>5. CASE CallGetLastWrite
  <2>1. todo' = RefreshThen(LookOnly) /\ LookOnly \in PlainConts
    BY <1>5, ServicePrograms DEF CallGetLastWrite, Call, PlainConts
  <2> QED BY <1>5, <2>1, CallKeeps DEF CallGetLastWrite, Call
<1> QED BY <1>1, <1>2, <1>3, <1>4, <1>5 DEF Service

\* The start of InitFtwProtocol keeps the invariant, whatever was interrupted.
LEMMA PowerOnKeeps ==
  ASSUME FtwInv, PowerOn
  PROVE  FtwInv'
<1>1. Outside /\ request = NoRequest
  BY OffOutside DEF PowerOn, Outside
<1>2. TypeOK'
  BY Facts DEF PowerOn, TypeOK, flash, ptrs, client
<1>3. FlashOK'
  BY Facts DEF PowerOn, FlashOK, flash, ContentOK, Unfinished, Valid, Last, Cells
<1>4. todo' = RefreshThen(Boot2) /\ InBoot'
  BY <1>1, ServicePrograms DEF PowerOn, InBoot, client
<1>5. Boot2 \in Conts /\ Boot2 \in BootConts
  BY DEF Conts, BootConts
<1>6. ~(Boot2 \in {AbortThen(x) : x \in BootAborts})
  BY NotAbort
<1>7. Fits(Boot2)'
  BY <1>4, <1>5, <1>6 DEF Fits
<1>8. Place'
  BY <1>4, <1>5, <1>7, ToRefresh
<1> QED BY <1>2, <1>3, <1>8 DEF FtwInv

\* What an operation leaves behind that does not reach its end.
LEMMA TornKeeps ==
  ASSUME FtwInv, Torn \/ UNCHANGED flash
  PROVE  /\ work' \in WorkingBlock /\ spare' \in SpareBlock
         /\ target' \in [Blocks -> Values \cup {Garbage}]
         /\ FlashOK' /\ (Sound => UNCHANGED Contents)
<1>0. Meets
  BY InvMeets
<1>1. CASE UNCHANGED flash
  <2>1. FlashOK'
    BY <1>1, Facts DEF FlashOK, flash, ContentOK, Unfinished, Valid, Last, Cells
  <2>2. UNCHANGED Contents
    BY <1>1 DEF Contents, flash, Unfinished, Valid, Last, Cells
  <2> QED BY <1>1, <2>1, <2>2, Facts DEF flash, TypeOK
<1>2. ASSUME spare' \in SpareOK, UNCHANGED <<work, target>>, Sound => ~Held(Cells, {2})
      PROVE  /\ work' \in WorkingBlock /\ spare' \in SpareBlock
             /\ target' \in [Blocks -> Values \cup {Garbage}]
             /\ FlashOK' /\ (Sound => UNCHANGED Contents)
  <2>1. FlashOK'
    BY <1>2, Facts DEF FlashOK, ContentOK, Unfinished, Valid, Last, Cells
  <2>2. Cells' = Cells
    BY <1>2 DEF Cells
  <2>3. Sound => UNCHANGED Contents
    BY <1>2, <2>2, NoBackup
  <2> QED BY <1>2, <2>1, <2>3, Facts, SpareFacts
<1>3. CASE /\ At("EraseSpare") \/ At("WriteSpare")
           /\ \/ spare' = Wiped
              \/ /\ At("WriteSpare")
                 /\ spare' = Copy([Op.data.work EXCEPT !.cells = NoCells])
           /\ UNCHANGED <<work, target>>
  <2>1. Sound => ~Held(Cells, {2})
    BY <1>0, <1>3 DEF Meets
  <2>2. CASE spare' = Wiped
    BY <1>2, <1>3, <2>1, <2>2, SpareFacts
  <2>3. CASE At("WriteSpare") /\ spare' = Copy([Op.data.work EXCEPT !.cells = NoCells])
    <3>1. Op.data \in SpareOK
      BY <1>0, <2>3 DEF Meets
    <3>2. spare' \in SpareOK
      BY <2>3, <3>1, SpareFacts
    <3> QED BY <1>2, <1>3, <2>1, <3>2
  <2> QED BY <1>3, <2>2, <2>3
<1>4. ASSUME work' \in WorkingBlock, UNCHANGED <<spare, target>>, Cells' = Cells, Sound => Free(Cells)
      PROVE  /\ work' \in WorkingBlock /\ spare' \in SpareBlock
             /\ target' \in [Blocks -> Values \cup {Garbage}]
             /\ FlashOK' /\ (Sound => UNCHANGED Contents)
  <2>1. Sound => ~Held(Cells, {2})
    BY <1>4, UnfinishedFacts
  <2>2. ContentOK'
    BY <1>4, <2>1, UnfinishedFacts DEF ContentOK
  <2>3. FlashOK'
    BY <1>4, <2>2, Facts DEF FlashOK
  <2>4. Sound => UNCHANGED Contents
    BY <1>4, <2>1, NoBackup
  <2> QED BY <1>4, <2>3, <2>4, Facts, SpareFacts
<1>5. CASE At("EraseWork") /\ work' = [work EXCEPT !.sig = FALSE] /\ UNCHANGED <<spare, target>>
  <2>1. Sound => Free(Cells)
    BY <1>0, <1>5 DEF Meets
  <2>2. work' \in WorkingBlock /\ Cells' = Cells
    BY <1>5, Facts, WorkFacts DEF Cells
  <2> QED BY <1>4, <1>5, <2>1, <2>2
<1>6. CASE /\ At("WriteWork")
           /\ \E k \in 0..W : work' = [sig |-> TRUE, state |-> {}, cells |->
                                   [i \in Index |-> IF i < k THEN Op.cells[i] ELSE Erased]]
           /\ UNCHANGED <<spare, target>>
  <2>1. Op.cells = NoCells /\ work = BlankWork
    BY <1>0, <1>6 DEF Meets
  <2>2. PICK k \in 0..W : work' = [sig |-> TRUE, state |-> {}, cells |->
                                   [i \in Index |-> IF i < k THEN Op.cells[i] ELSE Erased]]
    BY <1>6
  <2>3. \A i \in Index : Op.cells[i] = Erased
    BY <2>1 DEF NoCells
  <2>4. [i \in Index |-> IF i < k THEN Op.cells[i] ELSE Erased] = NoCells
    BY <2>3 DEF NoCells
  <2>5. work' = [sig |-> TRUE, state |-> {}, cells |-> NoCells]
    BY <2>2, <2>4
  <2>6. work' \in WorkingBlock
    BY <2>5, WorkFacts
  <2>7. Cells' = NoCells /\ Cells = NoCells
    BY <2>1, <2>5 DEF Cells, BlankWork
  <2> QED BY <1>4, <1>6, <2>6, <2>7, EmptySpace
<1>7. CASE /\ At("EraseTarget") \/ At("WriteTarget")
           /\ target' = [target EXCEPT ![Op.blk] = Garbage]
           /\ UNCHANGED <<work, spare>>
  <2>1. PICK b : b = Op.blk
    OBVIOUS
  <2>2. b \in Blocks /\ (Sound => Unfinished(b))
    BY <1>0, <1>7, <2>1 DEF Meets
  <2>3. target' = [target EXCEPT ![b] = Garbage]
    BY <1>7, <2>1
  <2>4. target' \in [Blocks -> Values \cup {Garbage}] /\ \A d \in Blocks : d # b => target'[d] = target[d]
    BY <2>2, <2>3, Facts
  <2>5. \A d \in Blocks : Unfinished(d)' <=> Unfinished(d)
    BY <1>7 DEF Unfinished, Valid, Last, Cells
  <2>6. ContentOK'
    BY <1>7, <2>2, <2>4, <2>5, Facts DEF ContentOK, Valid, Cells
  <2>7. FlashOK'
    BY <1>7, <2>6, Facts DEF FlashOK, Cells
  <2>8. Sound => UNCHANGED Contents
    BY <1>7, <2>2, <2>3, TargetKeeps
  <2> QED BY <1>7, <2>4, <2>7, <2>8, Facts, SpareFacts
<1> QED BY <1>1, <1>3, <1>5, <1>6, <1>7 DEF Torn

\* The call that was under way is over.
LEMMA InterruptedFacts ==
  ASSUME FtwInv, Interrupted
  PROVE  request' = NoRequest /\ result' \in {"none", "success", "failed"}
BY Facts DEF Interrupted, TypeOK

\* A loss of power, at any step and inside any operation, keeps the invariant.
LEMMA PowerLossKeeps ==
  ASSUME FtwInv, PowerLoss
  PROVE  FtwInv'
<1>1. /\ work' \in WorkingBlock /\ spare' \in SpareBlock
      /\ target' \in [Blocks -> Values \cup {Garbage}] /\ FlashOK'
  BY TornKeeps DEF PowerLoss
<1>2. power' = "off" /\ todo' = << >> /\ request' = NoRequest /\ result' \in {"none", "success", "failed"}
  BY InterruptedFacts DEF PowerLoss
<1>3. FtwLastWriteHeader' \in Index /\ FtwLastWriteRecord' \in 1..(W - 1)
  BY FtwAssumption DEF PowerLoss, Index
<1>4. TypeOK'
  BY <1>1, <1>2, <1>3 DEF TypeOK
<1>5. Outside'
  BY <1>2 DEF Outside
<1> QED BY <1>1, <1>4, <1>5 DEF FtwInv, Place

\* So does an error of the flash, in a service.
LEMMA FvbErrorKeeps ==
  ASSUME FtwInv, FvbError
  PROVE  FtwInv'
<1>1. /\ work' \in WorkingBlock /\ spare' \in SpareBlock
      /\ target' \in [Blocks -> Values \cup {Garbage}] /\ FlashOK'
  BY TornKeeps DEF FvbError
<1>2. todo' = << >> /\ request' = NoRequest /\ result' \in {"none", "success", "failed"}
  BY InterruptedFacts DEF FvbError
<1>3. ~Sound /\ power' = "on" /\ UNCHANGED ptrs
  BY DEF FvbError, Sound
<1>4. TypeOK'
  BY <1>1, <1>2, <1>3, Facts DEF TypeOK, ptrs
<1>5. Outside'
  BY <1>2, <1>3 DEF Outside, Quiet, Vouched
<1> QED BY <1>1, <1>4, <1>5 DEF FtwInv, Place

\* The programs depend on the pointers alone.
LEMMA ProgramsKept ==
  ASSUME UNCHANGED <<FtwLastWriteHeader, FtwLastWriteRecord>>
  PROVE  \A y : /\ Copy4(y)' = Copy4(y) /\ Copy3(y)' = Copy3(y)
                /\ Alloc2(y)' = Alloc2(y) /\ Alloc1(y)' = Alloc1(y)
                /\ \A b, v : /\ Copy2(b, v, y)' = Copy2(b, v, y) /\ Copy1(b, v, y)' = Copy1(b, v, y)
                             /\ Write4(b, v, y)' = Write4(b, v, y) /\ Write3(b, v, y)' = Write3(b, v, y)
                             /\ Write2(b, v, y)' = Write2(b, v, y) /\ Write1(b, v, y)' = Write1(b, v, y)
<1>1. \A y : /\ Copy4(y)' = Copy4(y) /\ Copy3(y)' = Copy3(y)
             /\ Alloc2(y)' = Alloc2(y) /\ Alloc1(y)' = Alloc1(y)
  BY DEF Copy4, Copy3, Alloc2, Alloc1
<1>2. \A y, b, v : Copy2(b, v, y)' = Copy2(b, v, y) /\ Copy1(b, v, y)' = Copy1(b, v, y)
  BY <1>1 DEF Copy2, Copy1
<1>3. \A y, b, v : /\ Write4(b, v, y)' = Write4(b, v, y) /\ Write3(b, v, y)' = Write3(b, v, y)
                   /\ Write2(b, v, y)' = Write2(b, v, y) /\ Write1(b, v, y)' = Write1(b, v, y)
  BY <1>2 DEF Write4, Write3, Write2, Write1
<1> QED BY <1>1, <1>2, <1>3

\* Nothing happens.
LEMMA PlaceKept ==
  ASSUME FtwInv, UNCHANGED <<work, spare, target, power, todo, FtwLastWriteHeader,
                             FtwLastWriteRecord, request, result>>
  PROVE  Place'
<1>1. /\ Cells' = Cells /\ Last' = Last /\ UNCHANGED <<power, request, spare>>
      /\ (Valid' <=> Valid) /\ (Vouched' <=> Vouched) /\ (Quiet' <=> Quiet)
      /\ (Pointed' <=> Pointed) /\ (Settled' <=> Settled)
      /\ (InBoot' <=> InBoot) /\ (InPlain' <=> InPlain) /\ (InWrite' <=> InWrite)
      /\ LastRec' = LastRec
  BY Looks DEF flash, ptrs, client
<1>2. /\ \A c \in Fitting : c \in Fitting'
      /\ \A e \in PointConts : e \in PointConts'
      /\ \A f \in RestoreConts : f \in RestoreConts'
      /\ \A f \in FlushConts : f \in FlushConts'
  BY <1>1, ContsKept
<1>3. \A y : /\ Copy4(y)' = Copy4(y) /\ Copy3(y)' = Copy3(y)
             /\ Alloc2(y)' = Alloc2(y) /\ Alloc1(y)' = Alloc1(y)
             /\ \A b, v : /\ Copy2(b, v, y)' = Copy2(b, v, y) /\ Copy1(b, v, y)' = Copy1(b, v, y)
                          /\ Write4(b, v, y)' = Write4(b, v, y) /\ Write3(b, v, y)' = Write3(b, v, y)
                          /\ Write2(b, v, y)' = Write2(b, v, y) /\ Write1(b, v, y)' = Write1(b, v, y)
  BY ProgramsKept
<1>4. \A b, s : AtRecord(b, s)' <=> AtRecord(b, s)
  BY <1>1 DEF AtRecord
<1>5. \A b, v, y : Copies(b, v, y)' <=> Copies(b, v, y)
  BY <1>1 DEF Copies
<1>6. Outside => Outside'
  BY <1>1 DEF Outside
<1>7. Refreshing => Refreshing'
  BY <1>1, <1>2 DEF Refreshing
<1>8. Reclaiming => Reclaiming'
  BY <1>1, <1>2 DEF Reclaiming
<1>9. Flushing => Flushing'
  BY <1>1, <1>2 DEF Flushing
<1>10. Booting => Booting'
  BY <1>1 DEF Booting
<1>11. Aborting => Aborting'
  BY <1>1, <1>3 DEF Aborting
<1>12. Restarting => Restarting'
  BY <1>1 DEF Restarting
<1>13. Copying => Copying'
  BY <1>1, <1>3, <1>4, <1>5 DEF Copying
<1>14. Allocating => Allocating'
  BY <1>1, <1>3 DEF Allocating
<1>15. Writing => Writing'
  BY <1>1, <1>3, <1>4 DEF Writing
<1>16. Looking => Looking'
  BY <1>1 DEF Looking
<1> QED
  BY <1>6, <1>7, <1>8, <1>9, <1>10, <1>11, <1>12, <1>13, <1>14, <1>15, <1>16, Facts DEF Place

\* Every step keeps the invariant.
LEMMA NextKeeps ==
  ASSUME FtwInv, [Next]_vars, OneWrite
  PROVE  FtwInv'
<1>1. CASE UNCHANGED vars
  <2>1. UNCHANGED <<work, spare, target, power, todo, FtwLastWriteHeader, FtwLastWriteRecord, request, result>>
    BY <1>1 DEF vars, flash, ptrs, client
  <2>2. TypeOK' /\ FlashOK'
    BY <2>1, Stays DEF flash, ptrs, client
  <2>3. Place'
    BY <2>1, Facts, PlaceKept
  <2> QED BY <2>2, <2>3 DEF FtwInv
<1> QED BY <1>1, DriverKeeps, ServiceKeeps, PowerOnKeeps, PowerLossKeeps, FvbErrorKeeps DEF Next

-----------------------------------------------------------------------------
(* The safety properties *)

\* What the flash says of an interrupted write.
LEMMA PendingFacts ==
  ASSUME LayoutOK(Cells), NEW b \in Blocks
  PROVE  Pending(b) <=> Unfinished(b)
<1>0. Cells \in [Index -> Cell] /\ Last \in 0..W /\ W \in Nat
  BY LastFacts, FtwAssumption DEF LayoutOK, Last
<1>1. CASE \E s \in RecordStates : Held(Cells, s)
  <2>1. PICK s \in RecordStates : Held(Cells, s)
    BY <1>1
  <2>2. Last + 1 < W /\ Cells[Last + 1].state = s
    BY <1>0, <2>1, HeldFacts DEF Last
  <2>3. LastRecord(Cells, Last) = Last + 1
    BY <2>2, LastRecordFacts DEF Last
  <2>4. Pending(b) <=> /\ Valid /\ 2 \in s /\ 4 \notin s /\ Cells[Last + 1].blk = b
    BY <1>0, <2>2, <2>3 DEF Pending, Valid, Last, SPARE_COMPLETED, DEST_COMPLETED
  <2>5. Held(Cells, {2}) <=> s = {2}
    BY <1>0, <2>1, HeldOnce DEF RecordStates
  <2>6. (2 \in s /\ 4 \notin s) <=> s = {2}
    BY DEF RecordStates
  <2> QED BY <2>4, <2>5, <2>6 DEF Unfinished
<1>2. CASE Free(Cells)
  <2>1. ~Held(Cells, {2})
    BY <1>0, <1>2, FreeFacts DEF RecordStates
  <2>2. ~Pending(b)
    <3>1. CASE Last + 1 < W
      <4>1. LastRecord(Cells, Last) = Last + 1 /\ Cells[Last + 1] = Erased
        BY <1>0, <1>2, <3>1, LastRecordFacts, FreeFacts DEF Last
      <4> QED BY <4>1 DEF Pending, Last, Erased, SPARE_COMPLETED
    <3>2. CASE Last = W
      BY <1>0, <3>2 DEF Pending, Last
    <3>3. CASE Last + 1 = W
      <4>1. Cells[Last] = Erased
        BY <1>0, <1>2, <3>3, FreeFacts DEF Last
      <4>2. {i \in Index : /\ Last < i /\ i <= Last + Cells[Last].num
                           /\ DEST_COMPLETED \notin Cells[i].state} = {}
        BY <1>0, <3>3 DEF Index
      <4>3. LastRecord(Cells, Last) = Last + Cells[Last].num
        BY <4>2 DEF LastRecord
      <4>4. Cells[Last].num = W + 1
        BY <4>1 DEF Erased, Huge
      <4>5. ~(LastRecord(Cells, Last) < W)
        BY <1>0, <4>3, <4>4
      <4> QED BY <4>5 DEF Pending, Last
    <3> QED BY <1>0, <3>1, <3>2, <3>3
  <2> QED BY <2>1, <2>2 DEF Unfinished
<1> QED BY <1>1, <1>2 DEF LayoutOK

\* The invariant of the fault tolerant write driver holds, whatever fails, when
\* clients allocate one write at a time.
THEOREM FtwInvariant ==
  ASSUME OneWrite
  PROVE  Spec => []FtwInv
<1>1. Init => FtwInv
  BY InitHolds
<1>2. FtwInv /\ [Next]_vars => FtwInv'
  BY NextKeeps
<1> QED BY <1>1, <1>2, PTL DEF Spec

\* The flash, the pointers and the calls keep their types, whatever fails.
THEOREM FtwTypes ==
  ASSUME OneWrite
  PROVE  Spec => []TypeOK
<1>1. FtwInv => TypeOK
  BY DEF FtwInv
<1> QED BY <1>1, FtwInvariant, PTL

\* FtwAllocate returns EFI_SUCCESS only when the last header in flash is the new
\* one, with its record, whatever failed before.
THEOREM AllocationsHold ==
  ASSUME OneWrite
  PROVE  Spec => []SpaceAllocated
<1>1. FtwInv => SpaceAllocated
  <2> SUFFICES ASSUME FtwInv, At("AllocateDone")
               PROVE  LET h == LastHeader(Cells)
                      IN  /\ h + Op.num < W
                          /\ Cells[h].num = Op.num
                          /\ {HEADER_ALLOCATED, WRITES_ALLOCATED} \subseteq Cells[h].state
    BY DEF SpaceAllocated
  <2>1. Op.num = 1 /\ Allocated(Cells)
    BY InvMeets DEF Meets
  <2>2. Held(Cells, {}) /\ Cells[LastHeader(Cells)].state = {1, 2}
    BY <2>1 DEF Allocated
  <2>3. LastHeader(Cells) + 1 < W /\ Cells[LastHeader(Cells)].num = 1
    BY <2>2, Facts, HeldFacts DEF RecordStates
  <2> QED BY <2>1, <2>2, <2>3 DEF HEADER_ALLOCATED, WRITES_ALLOCATED
<1> QED BY <1>1, FtwInvariant, PTL

\* When InitFtwProtocol installs the protocol, the working block is valid and no
\* interrupted write is left over, whatever failed before: power in the services or in
\* InitFtwProtocol itself, flash operations, lookups of an FVB.
THEOREM BootsRecover ==
  ASSUME OneWrite
  PROVE  Spec => []BootRecovered
<1>1. FtwInv => BootRecovered
  <2> SUFFICES ASSUME FtwInv, At("Hook")
               PROVE  IsValidWorkSpace(work) /\ \A b \in Blocks : ~Pending(b)
    BY DEF BootRecovered
  <2>1. Valid /\ Free(Cells)
    BY InvMeets DEF Meets
  <2>2. ~Held(Cells, {2})
    BY <2>1, UnfinishedFacts
  <2>3. \A b \in Blocks : ~Pending(b)
    BY <2>2, Facts, PendingFacts DEF Unfinished
  <2> QED BY <2>1, <2>3 DEF Valid
<1> QED BY <1>1, FtwInvariant, PTL

\* Between two services the working block is valid and no write is left half done,
\* when the flash works: clients find the contents of their blocks in place.
THEOREM ClientsFindTheirBlocks ==
  ASSUME OneWrite, ~FvbErrors, ~LookupFails
  PROVE  Spec => []Recovered
<1>1. FtwInv => Recovered
  <2> SUFFICES ASSUME FtwInv, power = "on", todo = << >>
               PROVE  IsValidWorkSpace(work) /\ \A b \in Blocks : ~Pending(b)
    BY DEF Recovered
  <2>1. Sound /\ Quiet /\ Vouched
    BY Idle DEF Outside, Sound
  <2>2. Valid /\ (Free(Cells) \/ Held(Cells, {}))
    BY <2>1 DEF Quiet, Vouched, Allocated
  <2>3. ~Held(Cells, {2})
    <3>1. ASSUME Held(Cells, {}), Held(Cells, {2}) PROVE {} = {2}
      BY <3>1, Facts, HeldOnce DEF RecordStates
    <3> QED BY <2>2, <3>1, UnfinishedFacts
  <2>4. \A b \in Blocks : ~Pending(b)
    BY <2>3, Facts, PendingFacts DEF Unfinished
  <2> QED BY <2>2, <2>4 DEF Valid
<1> QED BY <1>1, FtwInvariant, PTL

\* FtwAllocate and FtwWrite write headers and records where the flash is erased,
\* when the flash works; and the state keeps its type.
THEOREM CellsWrittenErased ==
  ASSUME OneWrite, ~FvbErrors, ~LookupFails
  PROVE  Spec => []WritesErased
<1>1. FtwInv => WritesErased
  BY InvMeets DEF Meets, Sound, WritesErased, FtwInv
<1> QED BY <1>1, FtwInvariant, PTL

-----------------------------------------------------------------------------
(* The driver implements AtomicBlock *)

\* What a step may do to the contents of the blocks and to the client.
Starts ==
  /\ request = NoRequest /\ request' \in Requests /\ result' = "none" /\ UNCHANGED Contents
Succeeds ==
  /\ request \in Requests /\ Contents[request.blk] = request.val
  /\ request' = NoRequest /\ result' = "success" /\ UNCHANGED Contents
Fails ==
  /\ request \in Requests /\ request' = NoRequest /\ result' = "failed" /\ UNCHANGED Contents
AtomicStep ==
  UNCHANGED <<Contents, request, result>> \/ Starts \/ Commits \/ Succeeds \/ Fails

\* Contents depend on the flash alone.
LEMMA ContentsRead ==
  ASSUME UNCHANGED <<work, target>>, spare'.val = spare.val
  PROVE  UNCHANGED Contents
BY DEF Contents, Unfinished, Valid, Last, Cells

\* A flash operation changes the contents of no block, or commits the request.
LEMMA FlashAtomic ==
  ASSUME FtwInv, Sound, Driver, FlashStep
  PROVE  AtomicStep
<1>0. Meets /\ CellKeeps
  BY InvMeets, DriverKeeps
<1>1. Flash /\ UNCHANGED <<request, result>>
  BY DEF FlashStep, DoEraseSpare, DoWriteSpare, DoSpareBit, DoWorkBit, DoEraseWork, DoWriteWork,
         DoWriteCell, DoCellBit, DoEraseTarget, DoWriteTarget, Flash, client
<1>2. SUFFICES UNCHANGED Contents \/ Commits
  BY <1>1 DEF AtomicStep
<1>3. CASE DoEraseSpare \/ DoWriteSpare
  <2>1. ~Held(Cells, {2}) /\ UNCHANGED <<work, target>>
    BY <1>0, <1>3, Kinds DEF Meets, DoEraseSpare, DoWriteSpare
  <2>2. Cells' = Cells
    BY <2>1 DEF Cells
  <2> QED BY <2>1, <2>2, NoBackup
<1>4. CASE DoSpareBit
  <2>1. spare' = [spare EXCEPT !.work.state = @ \cup {WORKING_BLOCK_VALID}] /\ UNCHANGED <<work, target>>
    BY <1>0, <1>4, Kinds DEF Meets, DoSpareBit
  <2>2. spare'.val = spare.val
    BY <2>1, Facts, SpareBitFacts
  <2> QED BY <2>1, <2>2, ContentsRead
<1>5. ASSUME Free(Cells), UNCHANGED target, Cells' = Cells \/ Cells' = NoCells
      PROVE  UNCHANGED Contents
  <2>1. ~Held(Cells, {2})
    BY <1>5, UnfinishedFacts
  <2>2. ~Held(NoCells, {2})
    BY EmptySpace, FreeFacts DEF LayoutOK, RecordStates
  <2> QED BY <1>5, <2>1, <2>2, NoBackup
<1>6. CASE DoWorkBit
  <2>1. Free(Cells) /\ UNCHANGED target /\ work' = [work EXCEPT !.state = @ \cup {Op.bit}]
    BY <1>0, <1>6, Kinds DEF Meets, DoWorkBit
  <2>2. Cells' = Cells
    BY <2>1, Facts DEF Cells, WorkingBlock
  <2> QED BY <1>5, <2>1, <2>2
<1>7. CASE DoEraseWork
  <2>1. Free(Cells) /\ UNCHANGED target /\ work' = BlankWork
    BY <1>0, <1>7, Kinds DEF Meets, DoEraseWork
  <2>2. Cells' = NoCells
    BY <2>1 DEF Cells, BlankWork
  <2> QED BY <1>5, <2>1, <2>2
<1>8. CASE DoWriteWork
  <2>1. /\ work = BlankWork /\ UNCHANGED target
        /\ work' = [sig |-> TRUE, state |-> {}, cells |-> NoCells]
    BY <1>0, <1>8, Kinds DEF Meets, DoWriteWork
  <2>2. Cells' = NoCells /\ Cells = NoCells
    BY <2>1 DEF Cells, BlankWork
  <2> QED BY <1>5, <2>1, <2>2, EmptySpace
<1>9. CASE DoWriteCell \/ DoCellBit
  BY <1>0, <1>9, Kinds DEF CellKeeps
<1>10. CASE DoEraseTarget \/ DoWriteTarget
  <2>1. PICK b, v : b = Op.blk /\ v = IF DoEraseTarget THEN Garbage ELSE Op.val
    OBVIOUS
  <2>2. b \in Blocks /\ Unfinished(b)
    BY <1>0, <1>10, <2>1, Kinds DEF Meets
  <2>3. target' = [target EXCEPT ![b] = v] /\ UNCHANGED <<work, spare>>
    BY <1>10, <2>1 DEF DoEraseTarget, DoWriteTarget
  <2> QED BY <2>2, <2>3, TargetKeeps
<1> QED BY <1>3, <1>4, <1>6, <1>7, <1>8, <1>9, <1>10 DEF FlashStep

\* Neither do decisions; FtwWrite returns success when its contents are in place.
LEMMA DriverAtomic ==
  ASSUME FtwInv, Sound, Driver
  PROVE  AtomicStep
<1>0. Meets
  BY InvMeets
<1>1. CASE FlashStep
  BY <1>1, FlashAtomic
<1>2. CASE DriverStep
  <2>1. UNCHANGED flash
    BY <1>2 DEF DriverStep, PointStep, WorkSpaceRefresh, Allocate, AllocateDone, WriteBegin, WriteCheck,
       WriteDone, Restart, Abort, GetLastWrite, Validate, AbortFirst, AbortLast, CheckEmpty,
       RestartPending, Hook, Decide, Refused
  <2>2. UNCHANGED Contents
    BY <2>1, ContentsRead DEF flash
  <2>3. CASE WriteDone
    <3>1. request \in Requests /\ Free(Cells) /\ target[request.blk] = request.val
      BY <1>0, <2>3, Kinds DEF Meets
    <3>2. ~Held(Cells, {2}) /\ request.blk \in Blocks
      BY <3>1, UnfinishedFacts DEF Requests
    <3>3. Contents[request.blk] = request.val
      BY <3>1, <3>2 DEF Contents, Unfinished
    <3> QED BY <2>2, <2>3, <3>1, <3>3 DEF AtomicStep, Succeeds, WriteDone
  <2>4. CASE WriteBegin \/ WriteCheck
    <3>1. request \in Requests
      BY <1>0, <2>4, Kinds DEF Meets
    <3>2. UNCHANGED client \/ Refused
      BY <2>4 DEF WriteBegin, WriteCheck
    <3> QED BY <2>2, <3>1, <3>2 DEF AtomicStep, Fails, Refused, client
  <2>5. CASE UNCHANGED client
    BY <2>2, <2>5 DEF AtomicStep, client
  <2>6. WriteDone \/ WriteBegin \/ WriteCheck \/ UNCHANGED client
    BY <1>2 DEF DriverStep, PointStep, WorkSpaceRefresh, Allocate, AllocateDone,
       Restart, Abort, GetLastWrite, Validate, AbortFirst, AbortLast, CheckEmpty,
       RestartPending, Hook, Decide
  <2> QED BY <2>3, <2>4, <2>5, <2>6
<1> QED BY <1>1, <1>2 DEF Driver

\* Every step is one of AtomicBlock, or changes nothing that it speaks of.
LEMMA NextAtomic ==
  ASSUME FtwInv, Sound, [Next]_vars
  PROVE  AtomicStep
<1>1. CASE UNCHANGED vars
  BY <1>1, ContentsRead DEF AtomicStep, vars, flash, client
<1>2. CASE Driver
  BY <1>2, DriverAtomic
<1>3. CASE Service
  <2>1. /\ power = "on" /\ todo = << >> /\ UNCHANGED flash
        /\ UNCHANGED client \/ (request' \in Requests /\ result' = "none")
    BY <1>3 DEF Service, CallAllocate, CallWrite, CallRestart, CallAbort, CallGetLastWrite, Call, Requests
  <2>2. request = NoRequest /\ UNCHANGED Contents
    BY <2>1, Idle, ContentsRead DEF Outside, flash
  <2> QED BY <2>1, <2>2 DEF AtomicStep, Starts, client
<1>4. CASE PowerOn
  BY <1>4, ContentsRead DEF AtomicStep, PowerOn, flash, client
<1>5. CASE PowerLoss
  <2>1. UNCHANGED Contents
    BY <1>5, TornKeeps DEF PowerLoss
  <2>2. Interrupted /\ request \in Requests \cup {NoRequest}
    BY <1>5, Facts DEF PowerLoss, TypeOK, Requests
  <2> QED BY <2>1, <2>2 DEF AtomicStep, Fails, Interrupted
<1>6. ~FvbError
  BY DEF FvbError, Sound
<1> QED BY <1>1, <1>2, <1>3, <1>4, <1>5, <1>6 DEF Next

\* The contents that the refinement gives the blocks.
Mapped == [b \in Blocks |-> Logical(b)]

\* They are the contents that the invariant speaks of ...
LEMMA ContentMap == FtwInv => Mapped = Contents
BY Facts, PendingFacts DEF Mapped, Contents, Logical

\* ... also in the next state.
LEMMA ContentMapNext == FtwInv' => Mapped' = Contents'
<1>1. (FtwInv => Mapped = Contents)'
  BY ContentMap, PTL
<1> QED BY <1>1

\* The blocks hold their first contents.
LEMMA AtomicInit ==
  ASSUME FtwInv, Init
  PROVE  Atomic!Init
<1>1. Mapped = Contents
  BY ContentMap
<1>2. Cells = NoCells
  BY DEF Init, Cells, BlankWork
<1>3. ~Held(Cells, {2})
  BY <1>2, EmptySpace, FreeFacts DEF LayoutOK, RecordStates
<1>4. Contents \in [Blocks -> Values]
  BY <1>3, FtwAssumption DEF Contents, Unfinished, Init
<1>5. [b \in Blocks |-> Logical(b)] \in [Blocks -> Values]
  BY <1>1, <1>4 DEF Mapped
<1> QED BY <1>5 DEF Atomic!Init, Init

\* Every step implements a step of AtomicBlock or none.
LEMMA AtomicNext ==
  ASSUME FtwInv, FtwInv', Sound, [Next]_vars
  PROVE  [Atomic!Next]_(Atomic!vars)
<1>1. Mapped = Contents /\ Mapped' = Contents'
  BY ContentMap, ContentMapNext
<1>2. NoRequest \notin Requests
  BY Facts
<1>3. CASE UNCHANGED <<Contents, request, result>>
  BY <1>1, <1>3 DEF Mapped, Atomic!vars
<1>4. CASE Starts
  <2>1. PICK r \in Requests : r = request'
    BY <1>4 DEF Starts
  <2>2. Atomic!Start(r)
    BY <1>1, <1>4, <2>1 DEF Starts, Mapped, Atomic!Start
  <2>3. r \in Atomic!Request
    BY DEF Atomic!Request, Requests
  <2> QED BY <2>2, <2>3 DEF Atomic!Next
<1>5. CASE Commits
  <2>1. Atomic!Commit
    BY <1>1, <1>2, <1>5 DEF Commits, client, Mapped, Atomic!Commit
  <2> QED BY <2>1 DEF Atomic!Next
<1>6. CASE Succeeds
  <2>1. Atomic!Succeed
    BY <1>1, <1>2, <1>6 DEF Succeeds, Mapped, Atomic!Succeed
  <2> QED BY <2>1 DEF Atomic!Next
<1>7. CASE Fails
  <2>1. Atomic!Fail
    BY <1>1, <1>2, <1>7 DEF Fails, Mapped, Atomic!Fail
  <2> QED BY <2>1 DEF Atomic!Next
<1> QED BY <1>3, <1>4, <1>5, <1>6, <1>7, NextAtomic DEF AtomicStep

\* FtwWrite is atomic, when the flash works: wherever power is lost, and however
\* often, a block has its old or its new contents, and changes from one to the other
\* in one step, before FtwWrite returns success.  The driver implements AtomicBlock.
THEOREM WritesAreAtomic ==
  ASSUME OneWrite, ~FvbErrors, ~LookupFails
  PROVE  Spec => AtomicWrites
<1>1. Sound
  BY DEF Sound
<1>2. Init /\ FtwInv => Atomic!Init
  BY AtomicInit
<1>3. FtwInv /\ FtwInv' /\ [Next]_vars => [Atomic!Next]_(Atomic!vars)
  BY <1>1, AtomicNext
<1> QED BY <1>2, <1>3, FtwInvariant, PTL DEF Spec, AtomicWrites, Atomic!Spec
=============================================================================
