-------------------------- MODULE Variable_proofs --------------------------
(***************************************************************************)
(* Proofs about the variable store: its bookkeeping and its copy in memory *)
(* agree with flash; what flash holds is, wherever power is lost, what the *)
(* calls have brought about; an enumeration leads to each variable once.   *)
(***************************************************************************)
EXTENDS Variable, FiniteSetTheorems, SequenceTheorems, WellFoundedInduction, TLAPS

-----------------------------------------------------------------------------
(* Sequences and sets of positions *)

\* A set of numbers that is not empty has a least element: the first ADDED
\* variable FindVariableEx stops at.
LEMMA MinFacts ==
  ASSUME NEW S, S \subseteq Nat, S # {}
  PROVE  Min(S) \in S /\ \A y \in S : Min(S) <= y
<1> DEFINE R == OpToRel(<, Nat)
<1>1. PICK x \in S : \A y \in S : <<y, x>> \notin R
  <2> HIDE DEF R
  <2>1. IsWellFoundedOn(R, Nat)
    BY NatLessThanWellFounded DEF R
  <2> QED BY <2>1, WFMin
<1>2. ASSUME NEW y \in S
      PROVE  x <= y
  <2>1. x \in Nat /\ y \in Nat
    OBVIOUS
  <2>2. ~(y < x)
    BY <1>1, <2>1 DEF OpToRel
  <2> QED BY <2>1, <2>2
<1> QED BY <1>2 DEF Min

\* A bounded one has a greatest element: the last variable in transition.
LEMMA MaxFacts ==
  ASSUME NEW n \in Nat, NEW S, S \subseteq 1..n, S # {}
  PROVE  Max(S) \in S /\ \A y \in S : y <= Max(S)
<1> DEFINE U == {y \in Nat : \A x \in S : x <= y}
           m == Min(U)
<1>1. U \subseteq Nat /\ n \in U
  OBVIOUS
<1>2. m \in U /\ \A y \in U : m <= y
  <2> HIDE DEF U
  <2> QED BY <1>1, MinFacts
<1> HIDE DEF m
<1>3. m \in Nat /\ \A x \in S : x <= m
  BY <1>2
<1>4. m \in S
  <2> SUFFICES ASSUME m \notin S PROVE FALSE
    OBVIOUS
  <2>1. \A x \in S : x \in Nat /\ x >= 1 /\ x <= m - 1
    BY <1>3
  <2>2. PICK x \in S : TRUE
    OBVIOUS
  <2>4. m - 1 \in Nat
    BY <1>3, <2>1, <2>2
  <2>3. m - 1 \in U
    BY <2>1, <2>4
  <2> QED BY <1>2, <1>3, <2>3
<1>5. \A x, y \in S : x >= y <=> y <= x
  OBVIOUS
<1>6. \A y \in S : m >= y
  BY <1>3
<1>7. Max(S) \in S /\ \A y \in S : Max(S) >= y
  BY <1>4, <1>6 DEF Max
<1> QED BY <1>5, <1>7

\* LastOf is a position of the set, or 0 if there is none.
LEMMA LastOfFacts ==
  ASSUME NEW n \in Nat, NEW S, S \subseteq 1..n
  PROVE  IF S = {} THEN LastOf(S) = 0 ELSE LastOf(S) \in S /\ \A y \in S : y <= LastOf(S)
BY MaxFacts DEF LastOf

\* The positions of a store that have name and data.
Whole(s) == {i \in DOMAIN s : s[i].state # "header"}

\* A store takes one cell for each header and one for each name and data.
LEMMA SizeFacts ==
  ASSUME NEW s \in Seq(Entry)
  PROVE  /\ IsFiniteSet(Whole(s)) /\ Cardinality(Whole(s)) \in Nat
         /\ Cardinality(Whole(s)) <= Len(s)
         /\ SizeOf(s) = Len(s) + Cardinality(Whole(s))
         /\ SizeOf(s) \in Nat /\ Len(s) <= SizeOf(s)
<1>1. Len(s) \in Nat /\ Whole(s) \in SUBSET (1..Len(s))
  BY DEF Whole
<1>2. IsFiniteSet(1..Len(s)) /\ Cardinality(1..Len(s)) = Len(s)
  <2> DEFINE n == Len(s)
  <2> HIDE DEF n
  <2>1. n \in Int /\ 1 \in Int /\ n >= 0
    BY <1>1 DEF n
  <2>2. IsFiniteSet(1..n) /\ Cardinality(1..n) = IF 1 > n THEN 0 ELSE n - 1 + 1
    BY <2>1, FS_Interval
  <2> QED BY <2>1, <2>2 DEF n
<1>3. IsFiniteSet(Whole(s)) /\ Cardinality(Whole(s)) <= Len(s)
  BY <1>1, <1>2, FS_Subset
<1>4. Cardinality(Whole(s)) \in Nat
  BY <1>3, FS_CardinalityType
<1>5. SizeOf(s) = HeaderSize * Len(s) + (VariableSize - HeaderSize) * Cardinality(Whole(s))
  BY DEF SizeOf, Whole
<1>6. SizeOf(s) = Len(s) + Cardinality(Whole(s))
  BY <1>1, <1>4, <1>5 DEF HeaderSize, VariableSize
<1> QED BY <1>1, <1>3, <1>4, <1>6

\* An empty store takes no cells.
LEMMA SizeEmpty == SizeOf(<<>>) = 0
<1>1. Whole(<<>>) = {} /\ <<>> \in Seq(Entry) /\ Len(<<>>) = 0
  BY DEF Whole
<1>2. SizeOf(<<>>) = Len(<<>>) + Cardinality(Whole(<<>>))
  <2> DEFINE z == <<>>
  <2>1. z \in Seq(Entry)
    BY <1>1
  <2> HIDE DEF z
  <2>2. SizeOf(z) = Len(z) + Cardinality(Whole(z))
    BY <2>1, SizeFacts
  <2> QED BY <2>2 DEF z
<1>3. Cardinality(Whole(<<>>)) = 0
  BY <1>1, FS_EmptySet
<1> QED BY <1>1, <1>2, <1>3

\* A variable written behind the last one takes its cells.
LEMMA SizeAppend ==
  ASSUME NEW s \in Seq(Entry), NEW e \in Entry
  PROVE  SizeOf(Append(s, e)) = SizeOf(s) + IF e.state = "header" THEN 1 ELSE 2
<1> DEFINE t == Append(s, e)
           n == Len(s) + 1
<1>1. /\ t \in Seq(Entry) /\ Len(t) = n /\ t[n] = e /\ Len(s) \in Nat
      /\ \A i \in 1..Len(s) : t[i] = s[i]
  BY AppendProperties
<1> HIDE DEF t
<1>2. Whole(t) = IF e.state = "header" THEN Whole(s) ELSE Whole(s) \cup {n}
  <2>1. DOMAIN t = 1..n /\ DOMAIN s = 1..Len(s)
    BY <1>1
  <2> QED BY <1>1, <2>1 DEF Whole
<1>3. n \notin Whole(s)
  BY DEF Whole
<1> HIDE DEF n
<1>4. Cardinality(Whole(t)) = Cardinality(Whole(s)) + IF e.state = "header" THEN 0 ELSE 1
  <2>1. IsFiniteSet(Whole(s)) /\ Cardinality(Whole(s)) \in Nat
    BY SizeFacts
  <2>2. Cardinality(Whole(s) \cup {n}) = Cardinality(Whole(s)) + 1
    BY <1>3, <2>1, FS_AddElement
  <2> QED BY <1>2, <2>1, <2>2
<1>5. SizeOf(t) = Len(t) + Cardinality(Whole(t)) /\ SizeOf(s) = Len(s) + Cardinality(Whole(s))
  BY <1>1, SizeFacts
<1>6. Cardinality(Whole(s)) \in Nat
  BY SizeFacts
<1> QED BY <1>1, <1>4, <1>5, <1>6 DEF t, n

\* t is s with another state byte at i.
Restated(s, i, state) == [s EXCEPT ![i].state = state]

\* What a change of a state byte leaves alone.
LEMMA RestatedFacts ==
  ASSUME NEW s \in Seq(Entry), NEW i \in 1..Len(s), NEW state \in State
  PROVE  /\ Restated(s, i, state) \in Seq(Entry)
         /\ Len(Restated(s, i, state)) = Len(s)
         /\ \A j \in 1..Len(s) : /\ Restated(s, i, state)[j].name = s[j].name
                                 /\ Restated(s, i, state)[j].val = s[j].val
                                 /\ Restated(s, i, state)[j].state = IF j = i THEN state ELSE s[j].state
<1> DEFINE e == [s[i] EXCEPT !.state = state]
<1>1. s[i] \in Entry
  OBVIOUS
<1>2. e \in Entry /\ e.name = s[i].name /\ e.val = s[i].val /\ e.state = state
  BY <1>1 DEF Entry
<1>3. Restated(s, i, state) = [s EXCEPT ![i] = e]
  BY DEF Restated
<1> HIDE DEF e
<1>4. /\ [s EXCEPT ![i] = e] \in Seq(Entry)
      /\ Len([s EXCEPT ![i] = e]) = Len(s)
      /\ \A j \in 1..Len(s) : [s EXCEPT ![i] = e][j] = IF j = i THEN e ELSE s[j]
  BY <1>2, ExceptSeq
<1> QED BY <1>2, <1>3, <1>4

\* A change of the state byte of a variable with name and data changes no size.
LEMMA SizeRestated ==
  ASSUME NEW s \in Seq(Entry), NEW i \in 1..Len(s), NEW state \in State,
         s[i].state # "header", state # "header"
  PROVE  SizeOf(Restated(s, i, state)) = SizeOf(s)
<1> DEFINE t == Restated(s, i, state)
<1>1. /\ t \in Seq(Entry) /\ Len(t) = Len(s)
      /\ \A j \in 1..Len(s) : t[j].state = IF j = i THEN state ELSE s[j].state
  BY RestatedFacts
<1> HIDE DEF t
<1>2. Whole(t) = Whole(s)
  <2>1. DOMAIN t = 1..Len(s) /\ DOMAIN s = 1..Len(s)
    BY <1>1
  <2> QED BY <1>1, <2>1 DEF Whole
<1> QED BY <1>1, <1>2, SizeFacts DEF t

\* The last entry of a store, written over.
LEMMA LastRewritten ==
  ASSUME NEW s \in Seq(Entry), NEW e \in Entry
  PROVE  /\ \A x \in State : [Append(s, e) EXCEPT ![Len(Append(s, e))].state = x]
                               = Append(s, [e EXCEPT !.state = x])
         /\ \A x \in Values \cup {NoVal} : [Append(s, e) EXCEPT ![Len(Append(s, e))].val = x]
                               = Append(s, [e EXCEPT !.val = x])
<1> DEFINE t == Append(s, e)
           n == Len(s) + 1
<1>1. /\ t \in Seq(Entry) /\ Len(t) = n /\ t[n] = e /\ Len(s) \in Nat
      /\ \A i \in 1..Len(s) : t[i] = s[i]
  BY AppendProperties
<1> HIDE DEF t
<1>2. ASSUME NEW f \in Entry
      PROVE  [t EXCEPT ![n] = f] = Append(s, f)
  <2> DEFINE u == [t EXCEPT ![n] = f]
             w == Append(s, f)
  <2>1. n \in 1..Len(t)
    BY <1>1
  <2>2. /\ u \in Seq(Entry) /\ Len(u) = n
        /\ \A j \in 1..n : u[j] = IF j = n THEN f ELSE t[j]
    <3> HIDE DEF n
    <3> QED BY <1>1, <2>1, ExceptSeq
  <2>3. /\ w \in Seq(Entry) /\ Len(w) = n /\ w[n] = f
        /\ \A i \in 1..Len(s) : w[i] = s[i]
    BY AppendProperties
  <2> HIDE DEF u, w
  <2>4. \A j \in 1..n : u[j] = w[j]
    BY <1>1, <2>2, <2>3
  <2>5. u = w
    BY <2>2, <2>3, <2>4, SeqEqual
  <2> QED BY <2>5 DEF u, w
<1>3. ASSUME NEW x \in State
      PROVE  [t EXCEPT ![Len(t)].state = x] = Append(s, [e EXCEPT !.state = x])
  <2> DEFINE f == [e EXCEPT !.state = x]
  <2>1. f \in Entry
    BY DEF Entry
  <2>2. [t EXCEPT ![Len(t)].state = x] = [t EXCEPT ![n] = f]
    BY <1>1
  <2> HIDE DEF f
  <2>3. [t EXCEPT ![n] = f] = Append(s, f)
    BY <1>2, <2>1
  <2> QED BY <2>2, <2>3 DEF f
<1>4. ASSUME NEW x \in Values \cup {NoVal}
      PROVE  [t EXCEPT ![Len(t)].val = x] = Append(s, [e EXCEPT !.val = x])
  <2> DEFINE f == [e EXCEPT !.val = x]
  <2>1. f \in Entry
    BY DEF Entry
  <2>2. [t EXCEPT ![Len(t)].val = x] = [t EXCEPT ![n] = f]
    BY <1>1
  <2> HIDE DEF f
  <2>3. [t EXCEPT ![n] = f] = Append(s, f)
    BY <1>2, <2>1
  <2> QED BY <2>2, <2>3 DEF f
<1> QED BY <1>3, <1>4 DEF t

-----------------------------------------------------------------------------
(* Reclaim *)

\* Positions in order: the number of positions up to i counts them.
Rank(I, i) == Cardinality({j \in I : j <= i})

\* Every position has a rank of its own, and every rank is taken.
LEMMA RankFacts ==
  ASSUME NEW n \in Nat, NEW I \in SUBSET (1..n)
  PROVE  /\ IsFiniteSet(I) /\ Cardinality(I) \in Nat
         /\ \A i \in I : Rank(I, i) \in 1..Cardinality(I)
         /\ \A i, j \in I : Rank(I, i) = Rank(I, j) => i = j
         /\ \A k \in 1..Cardinality(I) : \E i \in I : Rank(I, i) = k
<1>1. IsFiniteSet(I) /\ Cardinality(I) \in Nat
  <2>1. IsFiniteSet(1..n)
    BY FS_Interval
  <2> QED BY <2>1, FS_Subset, FS_CardinalityType
<1> DEFINE Upto(i) == {j \in I : j <= i}
           c == Cardinality(I)
<1>2. ASSUME NEW i \in I
      PROVE  IsFiniteSet(Upto(i)) /\ Rank(I, i) = Cardinality(Upto(i)) /\ Rank(I, i) \in 1..c
  <2>1. Upto(i) \in SUBSET I /\ i \in Upto(i)
    OBVIOUS
  <2>2. Rank(I, i) = Cardinality(Upto(i))
    BY DEF Rank
  <2> HIDE DEF Upto
  <2>3. IsFiniteSet(Upto(i)) /\ Cardinality(Upto(i)) <= c
    BY <1>1, <2>1, FS_Subset
  <2>4. Cardinality(Upto(i)) \in Nat /\ Cardinality(Upto(i)) # 0
    BY <2>1, <2>3, FS_CardinalityType, FS_EmptySet
  <2> QED BY <1>1, <2>2, <2>3, <2>4
<1>3. ASSUME NEW i \in I, NEW j \in I, i <= j, Rank(I, i) = Rank(I, j)
      PROVE  i = j
  <2>0. \A x \in I : x \in Nat
    OBVIOUS
  <2>1. Upto(i) \in SUBSET Upto(j) /\ j \in Upto(j)
    <3>1. \A x \in I : x <= i => x <= j
      BY <1>3, <2>0
    <3>2. j <= j
      BY <2>0
    <3> QED BY <3>1, <3>2
  <2>2. Cardinality(Upto(i)) = Cardinality(Upto(j)) /\ IsFiniteSet(Upto(j))
    BY <1>2, <1>3
  <2>3. Upto(i) = Upto(j)
    <3> HIDE DEF Upto
    <3> QED BY <2>1, <2>2, FS_Subset
  <2>4. j <= i
    BY <2>1, <2>3
  <2> QED BY <1>3, <2>4
<1>4. ASSUME NEW i \in I, NEW j \in I, Rank(I, i) = Rank(I, j)
      PROVE  i = j
  <2>1. i <= j \/ j <= i
    OBVIOUS
  <2> QED BY <1>3, <1>4, <2>1
<1> HIDE DEF Upto
<1>5. ASSUME NEW k \in 1..c
      PROVE  \E i \in I : Rank(I, i) = k
  <2> DEFINE r == [i \in I |-> Rank(I, i)]
  <2>1. r \in [I -> 1..c]
    BY <1>2
  <2>2. \A i, j \in I : r[i] = r[j] => i = j
    BY <1>4
  <2>3. \A i \in I : r[i] = Rank(I, i)
    OBVIOUS
  <2> HIDE DEF r
  <2>4. r \in Injection(I, 1..c)
    BY <2>1, <2>2 DEF Injection, IsInjective
  <2>5. IsFiniteSet(1..c) /\ Cardinality(1..c) = c
    <3>1. c \in Int /\ 1 \in Int /\ c >= 0
      BY <1>1
    <3> HIDE DEF c
    <3>2. IsFiniteSet(1..c) /\ Cardinality(1..c) = IF 1 > c THEN 0 ELSE c - 1 + 1
      BY <3>1, FS_Interval
    <3> QED BY <3>1, <3>2
  <2>6. r \in Surjection(I, 1..c)
    BY <2>4, <2>5, FS_Injection
  <2> QED BY <2>3, <2>6 DEF Surjection
<1> QED BY <1>1, <1>2, <1>4, <1>5

\* Pick copies each of the chosen variables once.
LEMMA PickFacts ==
  ASSUME NEW s \in Seq(Entry), NEW I \in SUBSET (1..Len(s))
  PROVE  /\ IsFiniteSet(I) /\ Cardinality(I) \in Nat
         /\ Pick(s, I) \in Seq(Entry) /\ Len(Pick(s, I)) = Cardinality(I)
         /\ \E f \in Bijection(1..Cardinality(I), I) :
              \A k \in 1..Cardinality(I) : Pick(s, I)[k] = s[f[k]]
<1> DEFINE c == Cardinality(I)
           nth(k) == CHOOSE i \in I : Rank(I, i) = k
           f == [k \in 1..c |-> nth(k)]
<1>1. /\ IsFiniteSet(I) /\ c \in Nat
      /\ \A i \in I : Rank(I, i) \in 1..c
      /\ \A i, j \in I : Rank(I, i) = Rank(I, j) => i = j
      /\ \A k \in 1..c : \E i \in I : Rank(I, i) = k
  <2>1. Len(s) \in Nat
    OBVIOUS
  <2> QED BY <2>1, RankFacts
<1> HIDE DEF c
<1>2. \A k \in 1..c : nth(k) \in I /\ Rank(I, nth(k)) = k
  BY <1>1
<1>3. Pick(s, I) = [k \in 1..c |-> s[nth(k)]]
  BY DEF Pick, Rank, c
<1> HIDE DEF nth
<1>4. f \in [1..c -> I] /\ \A k \in 1..c : f[k] = nth(k)
  BY <1>2
<1> HIDE DEF f
<1>5. \A k \in 1..c : s[nth(k)] \in Entry
  <2>1. \A i \in I : s[i] \in Entry
    OBVIOUS
  <2> QED BY <1>2, <2>1
<1>6. Pick(s, I) \in Seq(Entry) /\ Len(Pick(s, I)) = c /\ \A k \in 1..c : Pick(s, I)[k] = s[f[k]]
  <2> DEFINE P == [k \in 1..c |-> s[nth(k)]]
  <2>1. P \in Seq(Entry)
    BY <1>1, <1>5, IsASeq
  <2>2. Len(P) = c
    BY <1>1
  <2>3. \A k \in 1..c : P[k] = s[f[k]]
    BY <1>4
  <2> QED BY <1>3, <2>1, <2>2, <2>3
<1>7. f \in Bijection(1..c, I)
  <2>1. \A k, l \in 1..c : f[k] = f[l] => k = l
    BY <1>2, <1>4
  <2>2. ASSUME NEW i \in I
        PROVE  \E k \in 1..c : f[k] = i
    <3>1. PICK k \in 1..c : k = Rank(I, i)
      BY <1>1
    <3>2. nth(k) \in I /\ Rank(I, nth(k)) = Rank(I, i)
      BY <1>2, <3>1
    <3>3. nth(k) = i
      BY <1>1, <3>2
    <3> QED BY <1>4, <3>3
  <2> QED BY <1>4, <2>1, <2>2 DEF Bijection, Injection, Surjection, IsInjective
<1> QED BY <1>1, <1>6, <1>7 DEF c

\* The variables Reclaim copies: the ADDED ones but the one being updated ...
KeptAdded(s, c) == {i \in DOMAIN s : i # c /\ s[i].state = "added"}

\* ... and the first in transition of a name that is not among them.
InTransition(s, c, d) ==
  {i \in DOMAIN s : /\ s[i].state = "inDeleted" /\ i \notin {c, d}
                    /\ \A j \in KeptAdded(s, c) : s[j].name # s[i].name}
KeptTransition(s, c, d) ==
  {i \in InTransition(s, c, d) : \A j \in InTransition(s, c, d) : j < i => s[j].name # s[i].name}
Kept(s, c, d) == KeptAdded(s, c) \cup KeptTransition(s, c, d)

\* Reclaim copies each of them once, as an ADDED variable, and nothing else.
LEMMA LiveFacts ==
  ASSUME NEW s \in Seq(Entry), NEW c, NEW d
  PROVE  LET live == LiveVariables(s, c, d)
         IN  /\ live \in Seq(Entry) /\ Len(live) = Cardinality(Kept(s, c, d))
             /\ \E f \in Bijection(1..Len(live), Kept(s, c, d)) :
                  \A k \in 1..Len(live) : live[k] = [s[f[k]] EXCEPT !.state = "added"]
<1> DEFINE I == KeptAdded(s, c)
           J == KeptTransition(s, c, d)
           a == Cardinality(I)
           b == Cardinality(J)
           P == Pick(s, I)
           Q == Pick(s, J)
           R == [k \in DOMAIN Q |-> [Q[k] EXCEPT !.state = "added"]]
           live == LiveVariables(s, c, d)
<1>1. live = P \o R
  BY DEF LiveVariables, KeptAdded, KeptTransition, InTransition
<1>2. /\ I \in SUBSET (1..Len(s)) /\ J \in SUBSET (1..Len(s)) /\ I \cap J = {}
      /\ I \cup J = Kept(s, c, d)
      /\ \A i \in I : s[i].state = "added"
  BY DEF KeptAdded, KeptTransition, InTransition, Kept
<1>3. /\ IsFiniteSet(I) /\ a \in Nat
      /\ P \in Seq(Entry) /\ Len(P) = a
      /\ \E f \in Bijection(1..a, I) : \A k \in 1..a : P[k] = s[f[k]]
  <2> HIDE DEF I
  <2> QED BY <1>2, PickFacts
<1>4. /\ IsFiniteSet(J) /\ b \in Nat
      /\ Q \in Seq(Entry) /\ Len(Q) = b
      /\ \E f \in Bijection(1..b, J) : \A k \in 1..b : Q[k] = s[f[k]]
  <2> HIDE DEF J
  <2> QED BY <1>2, PickFacts
<1> HIDE DEF I, J, P, Q, live
<1>5. PICK f \in Bijection(1..a, I) : \A k \in 1..a : P[k] = s[f[k]]
  BY <1>3
<1>6. PICK g \in Bijection(1..b, J) : \A k \in 1..b : Q[k] = s[g[k]]
  BY <1>4
<1>7. a + b = Cardinality(Kept(s, c, d))
  <2>1. Cardinality(I \cup J) = a + b - Cardinality(I \cap J)
    BY <1>3, <1>4, FS_Union
  <2>2. Cardinality(I \cap J) = 0
    BY <1>2, FS_EmptySet
  <2>3. Cardinality(Kept(s, c, d)) = a + b - Cardinality(I \cap J)
    BY <1>2, <2>1
  <2> HIDE DEF a, b
  <2> QED BY <1>3, <1>4, <2>2, <2>3
<1> HIDE DEF a, b
<1>8. /\ R \in Seq(Entry) /\ Len(R) = b
      /\ \A k \in 1..b : R[k] = [s[g[k]] EXCEPT !.state = "added"]
  <2>1. DOMAIN Q = 1..b /\ \A k \in 1..b : Q[k] \in Entry
    BY <1>4
  <2>2. \A k \in 1..b : [Q[k] EXCEPT !.state = "added"] \in Entry
    BY <2>1 DEF Entry, State
  <2>3. R = [k \in 1..b |-> [Q[k] EXCEPT !.state = "added"]]
    BY <2>1
  <2> HIDE DEF R
  <2>4. R \in Seq(Entry) /\ Len(R) = b
    <3> DEFINE e(k) == [Q[k] EXCEPT !.state = "added"]
    <3>1. \A k \in 1..b : e(k) \in Entry
      BY <2>2
    <3> HIDE DEF e
    <3>2. [k \in 1..b |-> e(k)] \in Seq(Entry) /\ Len([k \in 1..b |-> e(k)]) = b
      BY <1>4, <3>1
    <3> QED BY <2>3, <3>2 DEF e
  <2> QED BY <1>6, <2>3, <2>4
<1>9. \A k \in 1..a : P[k] = [s[f[k]] EXCEPT !.state = "added"]
  <2>1. \A k \in 1..a : f[k] \in I /\ P[k] \in Entry
    BY <1>3 DEF Bijection, Injection
  <2>2. ASSUME NEW k \in 1..a PROVE P[k].state = "added"
    <3>1. P[k] = s[f[k]] /\ f[k] \in I
      BY <1>5, <2>1
    <3> QED BY <1>2, <3>1
  <2>3. \A e \in Entry : e.state = "added" => e = [e EXCEPT !.state = "added"]
    BY DEF Entry
  <2>4. \A k \in 1..a : P[k] = [P[k] EXCEPT !.state = "added"]
    BY <2>1, <2>2, <2>3
  <2> QED BY <1>5, <2>4
<1> HIDE DEF R
<1>10. /\ live \in Seq(Entry) /\ Len(live) = a + b
       /\ \A k \in 1..(a + b) : live[k] = IF k <= a THEN P[k] ELSE R[k - a]
  <2>1. P \in Seq(Entry) /\ R \in Seq(Entry) /\ Len(P) = a /\ Len(R) = b
    BY <1>3, <1>8
  <2>2. /\ P \o R \in Seq(Entry) /\ Len(P \o R) = Len(P) + Len(R)
        /\ \A k \in 1..(Len(P) + Len(R)) :
             (P \o R)[k] = IF k <= Len(P) THEN P[k] ELSE R[k - Len(P)]
    BY <2>1, ConcatProperties
  <2> QED BY <1>1, <2>1, <2>2
<1> DEFINE h == [k \in 1..(a + b) |-> IF k <= a THEN f[k] ELSE g[k - a]]
<1>11. \A k \in 1..(a + b) : /\ k <= a => k \in 1..a
                             /\ ~(k <= a) => k - a \in 1..b
  BY <1>3, <1>4
<1>12. \A k \in 1..(a + b) : live[k] = [s[h[k]] EXCEPT !.state = "added"]
  BY <1>8, <1>9, <1>10, <1>11
<1>13. h \in Bijection(1..(a + b), I \cup J)
  <2>0. /\ \A k \in 1..a : f[k] \in I
        /\ \A k \in 1..b : g[k] \in J
        /\ \A k, l \in 1..a : f[k] = f[l] => k = l
        /\ \A k, l \in 1..b : g[k] = g[l] => k = l
        /\ \A i \in I : \E k \in 1..a : f[k] = i
        /\ \A i \in J : \E k \in 1..b : g[k] = i
    <3>1. f \in Injection(1..a, I) /\ f \in Surjection(1..a, I)
      BY DEF Bijection
    <3>2. g \in Injection(1..b, J) /\ g \in Surjection(1..b, J)
      BY DEF Bijection
    <3> QED BY <3>1, <3>2 DEF Injection, Surjection, IsInjective
  <2>1. h \in [1..(a + b) -> I \cup J]
    BY <1>11, <2>0
  <2>2. ASSUME NEW k \in 1..(a + b), NEW l \in 1..(a + b), h[k] = h[l]
        PROVE  k = l
    <3>1. /\ h[k] = IF k <= a THEN f[k] ELSE g[k - a]
          /\ h[l] = IF l <= a THEN f[l] ELSE g[l - a]
      OBVIOUS
    <3> HIDE DEF h
    <3>2. CASE k <= a /\ l <= a
      BY <1>11, <2>0, <2>2, <3>1, <3>2
    <3>3. CASE k <= a /\ ~(l <= a)
      BY <1>2, <1>11, <2>0, <2>2, <3>1, <3>3
    <3>4. CASE ~(k <= a) /\ l <= a
      BY <1>2, <1>11, <2>0, <2>2, <3>1, <3>4
    <3>5. CASE ~(k <= a) /\ ~(l <= a)
      <4>1. k - a = l - a
        <5>1. k - a \in 1..b /\ l - a \in 1..b
          BY <1>11, <3>5
        <5>2. g[k - a] = g[l - a]
          BY <2>2, <3>1, <3>5
        <5> QED BY <2>0, <5>1, <5>2
      <4> QED BY <1>3, <4>1
    <3> QED BY <3>2, <3>3, <3>4, <3>5
  <2>3. \A i \in I \cup J : \E k \in 1..(a + b) : h[k] = i
    <3>1. ASSUME NEW i \in I PROVE \E k \in 1..(a + b) : h[k] = i
      <4>1. PICK k \in 1..a : f[k] = i
        BY <2>0
      <4>2. k \in 1..(a + b) /\ k <= a
        BY <1>3, <1>4
      <4> QED BY <4>1, <4>2
    <3>2. ASSUME NEW i \in J PROVE \E k \in 1..(a + b) : h[k] = i
      <4>1. PICK k \in 1..b : g[k] = i
        BY <2>0
      <4>2. a + k \in 1..(a + b) /\ ~(a + k <= a) /\ (a + k) - a = k
        BY <1>3, <1>4
      <4> QED BY <4>1, <4>2
    <3> QED BY <3>1, <3>2
  <2> HIDE DEF h
  <2> QED BY <2>1, <2>2, <2>3 DEF Bijection, Injection, Surjection, IsInjective
<1> HIDE DEF h
<1>14. Len(live) = Cardinality(Kept(s, c, d)) /\ h \in Bijection(1..Len(live), Kept(s, c, d))
  BY <1>2, <1>7, <1>10, <1>13
<1>15. \A k \in 1..Len(live) : live[k] = [s[h[k]] EXCEPT !.state = "added"]
  BY <1>10, <1>12
<1>16. \E w \in Bijection(1..Len(live), Kept(s, c, d)) :
         \A k \in 1..Len(live) : live[k] = [s[w[k]] EXCEPT !.state = "added"]
  BY <1>14, <1>15
<1> QED BY <1>10, <1>14, <1>16 DEF live

\* The reclaimed store is no larger than the old one.
LEMMA LiveSize ==
  ASSUME NEW s \in Seq(Entry), NEW c, NEW d
  PROVE  SizeOf(LiveVariables(s, c, d)) <= SizeOf(s)
<1> DEFINE live == LiveVariables(s, c, d)
<1>1. live \in Seq(Entry) /\ Len(live) = Cardinality(Kept(s, c, d))
  BY LiveFacts
<1> HIDE DEF live
<1>2. Kept(s, c, d) \in SUBSET Whole(s)
  BY DEF Kept, KeptAdded, KeptTransition, InTransition, Whole
<1>3. /\ IsFiniteSet(Whole(s)) /\ Cardinality(Whole(s)) \in Nat
      /\ Cardinality(Whole(s)) <= Len(s)
      /\ SizeOf(s) = Len(s) + Cardinality(Whole(s))
  BY SizeFacts
<1>4. Cardinality(Kept(s, c, d)) <= Cardinality(Whole(s))
  BY <1>2, <1>3, FS_Subset
<1>5. /\ Cardinality(Whole(live)) <= Len(live) /\ Cardinality(Whole(live)) \in Nat
      /\ SizeOf(live) = Len(live) + Cardinality(Whole(live))
  BY <1>1, SizeFacts
<1>6. Len(live) \in Nat /\ Len(s) \in Nat
  BY <1>1
<1> QED BY <1>1, <1>3, <1>4, <1>5, <1>6 DEF live

-----------------------------------------------------------------------------
(* FindVariableEx *)

\* The variables of a name that count: the complete ones and those in transition.
Added(s, n) == InState(s, n, "added")
Trans(s, n) == InState(s, n, "inDeleted")

\* They are positions of the store.
LEMMA PositionFacts ==
  ASSUME NEW s \in Seq(Entry), NEW n
  PROVE  /\ Added(s, n) \subseteq 1..Len(s) /\ Trans(s, n) \subseteq 1..Len(s)
         /\ \A i \in Added(s, n) : s[i].name = n /\ s[i].state = "added"
         /\ \A i \in Trans(s, n) : s[i].name = n /\ s[i].state = "inDeleted"
         /\ Len(s) \in Nat /\ \A i \in 1..Len(s) : s[i] \in Entry
BY DEF Added, Trans, InState

\* What FindVariableEx returns, given an ADDED variable of the name or none.
LEMMA FindFacts ==
  ASSUME NEW s \in Seq(Entry), NEW n
  PROVE  LET c == FindVariableEx(s, n).CurrPtr
             d == FindVariableEx(s, n).InDeletedTransitionPtr
         IN  /\ Added(s, n) # {} =>
                  /\ c \in Added(s, n)
                  /\ IF {i \in Trans(s, n) : i < c} = {} THEN d = 0
                     ELSE d \in Trans(s, n) /\ d < c
             /\ Added(s, n) = {} =>
                  /\ IF Trans(s, n) = {} THEN c = 0
                     ELSE c \in Trans(s, n) /\ \A i \in Trans(s, n) : i <= c
                  /\ d = 0
<1>1. /\ Added(s, n) \subseteq 1..Len(s) /\ Trans(s, n) \subseteq 1..Len(s) /\ Len(s) \in Nat
      /\ Added(s, n) \subseteq Nat
  BY PositionFacts
<1>2. CASE Added(s, n) # {}
  <2> DEFINE c == Min(Added(s, n))
             S == {i \in Trans(s, n) : i < c}
  <2>1. FindVariableEx(s, n) = [CurrPtr |-> c, InDeletedTransitionPtr |-> LastOf(S)]
    BY <1>2 DEF FindVariableEx, Added, Trans
  <2>2. c \in Added(s, n)
    BY <1>1, <1>2, MinFacts
  <2>3. S \subseteq 1..Len(s)
    BY <1>1
  <2>4. S \subseteq Trans(s, n) /\ \A i \in S : i < c
    OBVIOUS
  <2>5. IF S = {} THEN LastOf(S) = 0 ELSE LastOf(S) \in S
    <3> HIDE DEF S
    <3> QED BY <1>1, <2>3, LastOfFacts
  <2>6. FindVariableEx(s, n).CurrPtr = c /\ FindVariableEx(s, n).InDeletedTransitionPtr = LastOf(S)
    BY <2>1
  <2>7. IF S = {} THEN LastOf(S) = 0 ELSE LastOf(S) \in Trans(s, n) /\ LastOf(S) < c
    <3> HIDE DEF S
    <3> QED BY <2>4, <2>5
  <2> HIDE DEF c
  <2> QED BY <1>2, <2>2, <2>6, <2>7
<1>3. CASE Added(s, n) = {}
  <2> DEFINE S == Trans(s, n)
  <2>1. FindVariableEx(s, n) = [CurrPtr |-> LastOf(S), InDeletedTransitionPtr |-> 0]
    BY <1>3 DEF FindVariableEx, Added, Trans
  <2>2. IF S = {} THEN LastOf(S) = 0 ELSE LastOf(S) \in S /\ \A i \in S : i <= LastOf(S)
    <3> HIDE DEF S
    <3>1. S \subseteq 1..Len(s)
      BY <1>1 DEF S
    <3> QED BY <1>1, <3>1, LastOfFacts
  <2> QED BY <1>3, <2>1, <2>2
<1> QED BY <1>2, <1>3

\* The pointers point to variables of the name, with name and data; the second
\* is there only with an ADDED first.
LEMMA FindPointers ==
  ASSUME NEW s \in Seq(Entry), NEW n
  PROVE  LET c == FindVariableEx(s, n).CurrPtr
             d == FindVariableEx(s, n).InDeletedTransitionPtr
         IN  /\ c \in 0..Len(s) /\ d \in 0..Len(s)
             /\ c # 0 => s[c].name = n /\ s[c].state \in {"added", "inDeleted"}
             /\ d # 0 => /\ s[d].name = n /\ s[d].state = "inDeleted"
                         /\ c # 0 /\ s[c].state = "added"
<1> DEFINE c == FindVariableEx(s, n).CurrPtr
           d == FindVariableEx(s, n).InDeletedTransitionPtr
<1>1. /\ Added(s, n) # {} =>
           /\ c \in Added(s, n)
           /\ d = 0 \/ d \in Trans(s, n)
      /\ Added(s, n) = {} =>
           /\ c = 0 \/ c \in Trans(s, n)
           /\ d = 0
  BY FindFacts
<1> HIDE DEF c, d
<1>2. /\ Added(s, n) \subseteq 1..Len(s) /\ Trans(s, n) \subseteq 1..Len(s) /\ Len(s) \in Nat
      /\ \A i \in Added(s, n) : s[i].name = n /\ s[i].state = "added"
      /\ \A i \in Trans(s, n) : s[i].name = n /\ s[i].state = "inDeleted"
  BY PositionFacts
<1>3. CASE Added(s, n) # {}
  <2>1. c \in 1..Len(s) /\ s[c].name = n /\ s[c].state = "added"
    BY <1>1, <1>2, <1>3
  <2>2. d = 0 \/ (d \in 1..Len(s) /\ s[d].name = n /\ s[d].state = "inDeleted")
    BY <1>1, <1>2, <1>3
  <2> QED BY <1>2, <2>1, <2>2 DEF c, d
<1>4. CASE Added(s, n) = {}
  <2>1. c = 0 \/ (c \in 1..Len(s) /\ s[c].name = n /\ s[c].state = "inDeleted")
    BY <1>1, <1>2, <1>4
  <2>2. d = 0
    BY <1>1, <1>4
  <2> QED BY <1>2, <2>1, <2>2 DEF c, d
<1> QED BY <1>3, <1>4

\* GetVariable returns data, or NoVal.
LEMMA GetType ==
  ASSUME NEW s \in Seq(Entry), NEW n
  PROVE  GetVariable(s, n) \in Values \cup {NoVal}
<1> DEFINE c == FindVariableEx(s, n).CurrPtr
<1>1. c \in 0..Len(s) /\ Len(s) \in Nat
  BY FindPointers
<1>2. GetVariable(s, n) = IF c = 0 THEN NoVal ELSE s[c].val
  BY DEF GetVariable
<1> HIDE DEF c
<1>3. c # 0 => s[c] \in Entry
  BY <1>1
<1> QED BY <1>2, <1>3 DEF Entry

-----------------------------------------------------------------------------
(* What the flash reads *)

\* A damaged header keeps its sizes and its state byte.
LEMMA AsReadFacts ==
  ASSUME flash \in Seq(Entry)
  PROVE  /\ AsRead \in Seq(Entry) /\ Len(AsRead) = Len(flash)
         /\ \A i \in 1..Len(flash) :
              /\ AsRead[i].state = flash[i].state /\ AsRead[i].val = flash[i].val
              /\ AsRead[i].name = IF i \in garbled THEN NoName ELSE flash[i].name
         /\ SizeOf(AsRead) = SizeOf(flash)
         /\ garbled = {} => AsRead = flash
<1> DEFINE n == Len(flash)
           t == AsRead
<1>1. n \in Nat /\ DOMAIN flash = 1..n /\ \A i \in 1..n : flash[i] \in Entry
  OBVIOUS
<1>2. t = [i \in 1..n |-> IF i \in garbled THEN [flash[i] EXCEPT !.name = NoName] ELSE flash[i]]
  BY <1>1 DEF AsRead
<1>3. \A e \in Entry : /\ [e EXCEPT !.name = NoName] \in Entry
                       /\ [e EXCEPT !.name = NoName].state = e.state
                       /\ [e EXCEPT !.name = NoName].val = e.val
                       /\ [e EXCEPT !.name = NoName].name = NoName
  BY DEF Entry
<1> HIDE DEF n, t
<1>4. /\ DOMAIN t = 1..n
      /\ \A i \in 1..n : t[i] = IF i \in garbled THEN [flash[i] EXCEPT !.name = NoName] ELSE flash[i]
  BY <1>2
<1>5. \A i \in 1..n : /\ t[i] \in Entry /\ t[i].state = flash[i].state /\ t[i].val = flash[i].val
                      /\ t[i].name = IF i \in garbled THEN NoName ELSE flash[i].name
  <2> SUFFICES ASSUME NEW i \in 1..n
               PROVE  /\ t[i] \in Entry /\ t[i].state = flash[i].state /\ t[i].val = flash[i].val
                      /\ t[i].name = IF i \in garbled THEN NoName ELSE flash[i].name
    OBVIOUS
  <2>1. PICK e \in Entry : e = flash[i]
    BY <1>1
  <2>2. t[i] = IF i \in garbled THEN [e EXCEPT !.name = NoName] ELSE e
    BY <1>4, <2>1
  <2> QED BY <1>3, <2>1, <2>2
<1>6. t \in Seq(Entry) /\ Len(t) = n
  <2>1. t \in [1..n -> Entry]
    BY <1>2, <1>4, <1>5
  <2>2. t \in Seq(Entry)
    BY <1>1, <2>1
  <2> QED BY <1>1, <1>4, <2>2
<1>7. SizeOf(t) = SizeOf(flash)
  <2>1. Whole(t) = Whole(flash)
    BY <1>1, <1>4, <1>5 DEF Whole
  <2>2. /\ SizeOf(t) = Len(t) + Cardinality(Whole(t))
        /\ SizeOf(flash) = Len(flash) + Cardinality(Whole(flash))
    BY <1>6, SizeFacts
  <2> QED BY <1>6, <2>1, <2>2 DEF n
<1>8. garbled = {} => t = flash
  <2> SUFFICES ASSUME garbled = {} PROVE t = flash
    OBVIOUS
  <2>1. \A i \in 1..n : t[i] = flash[i]
    BY <1>4
  <2>2. Len(t) = Len(flash) /\ \A i \in 1..Len(t) : t[i] = flash[i]
    BY <1>6, <2>1 DEF n
  <2> QED BY <1>6, <2>2, SeqEqual
<1> QED BY <1>5, <1>6, <1>7, <1>8 DEF n, t

\* The part of a store that was copied takes no more cells than the store.
LEMMA PrefixFacts ==
  ASSUME NEW s \in Seq(Entry), NEW k \in 0..Len(s)
  PROVE  /\ SubSeq(s, 1, k) \in Seq(Entry) /\ Len(SubSeq(s, 1, k)) = k
         /\ \A i \in 1..k : SubSeq(s, 1, k)[i] = s[i]
         /\ SizeOf(SubSeq(s, 1, k)) <= SizeOf(s)
<1> DEFINE t == SubSeq(s, 1, k)
<1>1. Len(s) \in Nat /\ k \in Nat /\ k <= Len(s) /\ DOMAIN s = 1..Len(s)
  OBVIOUS
<1>2. t \in Seq(Entry) /\ Len(t) = k /\ \A i \in 1..k : t[i] = s[i]
  <2>1. t = [i \in 1..k |-> s[i]]
    BY <1>1
  <2>2. \A i \in 1..k : s[i] \in Entry
    BY <1>1
  <2>3. t \in [1..k -> Entry]
    BY <2>1, <2>2
  <2>4. t \in Seq(Entry)
    BY <1>1, <2>3
  <2>5. DOMAIN t = 1..k
    BY <2>1
  <2> QED BY <1>1, <2>1, <2>4, <2>5
<1> HIDE DEF t
<1>3. Whole(t) \in SUBSET Whole(s)
  BY <1>1, <1>2 DEF Whole
<1>4. Cardinality(Whole(t)) <= Cardinality(Whole(s))
  <2>1. IsFiniteSet(Whole(s))
    BY SizeFacts
  <2> QED BY <1>3, <2>1, FS_Subset
<1>5. /\ SizeOf(t) = Len(t) + Cardinality(Whole(t)) /\ Cardinality(Whole(t)) \in Nat
      /\ SizeOf(s) = Len(s) + Cardinality(Whole(s)) /\ Cardinality(Whole(s)) \in Nat
  BY <1>2, SizeFacts
<1> QED BY <1>1, <1>2, <1>4, <1>5 DEF t

-----------------------------------------------------------------------------
(* Memory and flash *)

\* Between the header of a new variable and its last state byte, flash is one
\* variable ahead of the copy in memory.
Writing == {"writeState", "writeData", "writeAdded"}
Places == {"idle", "mark", "room", "writeHeader", "deleteTransition", "delete"} \cup Writing

\* The variable that is being written, as far as it has got.
Written ==
  [state |-> IF pc = "writeState" THEN "header" ELSE "headerValid",
   name |-> op.name,
   val |-> IF pc = "writeAdded" THEN op.val ELSE NoVal]

\* Calls are made, and return, only while the write service is there.
PhaseOK ==
  /\ pc \in Places
  /\ pc # "idle" => phase \in {"boot", "runtime"} /\ status = "none" /\ op.name \in Names
  /\ phase \in {"off", "read"} => status = "none"

\* Only a name that is updated in an endangered store is at risk, and headers are
\* damaged, for the time of a boot, only of such names.
RiskOK ==
  /\ pc # "idle" /\ Endangered => op.name \in unsafe
  /\ \A i \in garbled : flash[i].name \in unsafe
  /\ phase \in {"off", "read"} => garbled = {}

\* The copy in memory is the flash, as programmed, without the variable that is
\* being written, for which there is room.
SyncOK ==
  phase # "off" =>
    /\ LastVariableOffset = SizeOf(cache) /\ CommonVariableTotalSize = SizeOf(cache)
    /\ flash = IF pc \in Writing THEN Append(cache, Written) ELSE cache
    /\ pc \in Writing \cup {"writeHeader"} => SizeOf(cache) + VariableSize <= Space

\* i is a variable of the name, with name and data.
IsCopy(s, n, i) == i \in 1..Len(s) /\ s[i].name = n /\ s[i].state # "header"

\* In a call the pointers point to variables of the name, and the places that
\* use a pointer are reached only with one.
PtrsOK ==
  pc # "idle" =>
    /\ op.CurrPtr # 0 => IsCopy(cache, op.name, op.CurrPtr)
    /\ op.InDeletedTransitionPtr # 0 => IsCopy(cache, op.name, op.InDeletedTransitionPtr)
    /\ pc \in {"mark", "deleteTransition", "delete"} => op.CurrPtr # 0
    /\ pc = "deleteTransition" => op.InDeletedTransitionPtr # 0

MemoryInv == TypeOK /\ PhaseOK /\ RiskOK /\ SyncOK /\ PtrsOK

\* The type of the arguments and pointers of a call, and of contents.
OpType == [name : Names \cup {NoName}, val : Values \cup {NoVal}, old : Values \cup {NoVal},
           CurrPtr : 0..Space, InDeletedTransitionPtr : 0..Space]
ContentsType == [Names -> Values \cup {NoVal}]

\* An empty store satisfies all of it.
LEMMA MemoryInit == Init => MemoryInv
<1> SUFFICES ASSUME Init PROVE MemoryInv
  OBVIOUS
<1>2. TypeOK
  <2>1. <<>> \in Seq(Entry)
    OBVIOUS
  <2>2. NoOp \in OpType
    BY ConstantsAssumption DEF NoOp, OpType
  <2>3. /\ SizeOf(flash) = 0 /\ flash \in Seq(Entry) /\ cache \in Seq(Entry)
        /\ SizeOf(spare) = 0 /\ spare \in Seq(Entry)
    BY <2>1, SizeEmpty DEF Init
  <2>4. 0 \in 0..Space /\ 0 <= Space
    BY ConstantsAssumption
  <2>5. committed \in [Names -> Values \cup {NoVal}] /\ spared \in [Names -> Values \cup {NoVal}]
    BY DEF Init
  <2> QED BY <2>2, <2>3, <2>4, <2>5 DEF TypeOK, Init, OpType
<1>3. RiskOK
  BY DEF RiskOK, Init
<1> QED BY <1>2, <1>3 DEF MemoryInv, Init, PhaseOK, SyncOK, PtrsOK, Places

\* A store that comes out of Reclaim has its type and fits.
LEMMA LiveType ==
  ASSUME MemoryInv, NEW c, NEW d
  PROVE  /\ LiveVariables(AsRead, c, d) \in Seq(Entry)
         /\ SizeOf(LiveVariables(AsRead, c, d)) \in Nat
         /\ SizeOf(LiveVariables(AsRead, c, d)) <= Space
<1>0. flash \in Seq(Entry) /\ SizeOf(flash) <= Space /\ Space \in Nat
  BY ConstantsAssumption DEF MemoryInv, TypeOK
<1> DEFINE s == AsRead
           live == LiveVariables(AsRead, c, d)
<1>1. s \in Seq(Entry) /\ SizeOf(s) <= Space /\ Space \in Nat
  BY <1>0, AsReadFacts
<1>a. live = LiveVariables(s, c, d)
  OBVIOUS
<1> HIDE DEF s, live
<1>2. live \in Seq(Entry) /\ SizeOf(live) <= SizeOf(s)
  BY <1>1, <1>a, LiveFacts, LiveSize
<1>3. SizeOf(live) \in Nat /\ SizeOf(s) \in Nat
  BY <1>1, <1>2, SizeFacts
<1> QED BY <1>1, <1>2, <1>3 DEF live

\* Where no variable is being written, memory and flash agree.
LEMMA InSync ==
  ASSUME MemoryInv, phase # "off", pc \notin Writing
  PROVE  /\ cache = flash /\ flash \in Seq(Entry)
         /\ SizeOf(flash) \in Nat /\ SizeOf(flash) <= Space /\ Space \in Nat
         /\ LastVariableOffset = SizeOf(flash) /\ CommonVariableTotalSize = SizeOf(flash)
<1>1. /\ cache = flash /\ flash \in Seq(Entry) /\ SizeOf(flash) <= Space
      /\ LastVariableOffset = SizeOf(flash) /\ CommonVariableTotalSize = SizeOf(flash)
  BY DEF MemoryInv, SyncOK, TypeOK
<1>2. SizeOf(flash) \in Nat
  BY <1>1, SizeFacts
<1> QED BY <1>1, <1>2, ConstantsAssumption

\* What the flash may read after a step between calls, and what the step leaves of
\* the other variables.
TypesOfRest ==
  /\ tail \in {"free", "torn", "over"}
  /\ ftw \in {"done", "spare", "half"} /\ spare \in Seq(Entry) /\ SizeOf(spare) <= Space
  /\ Reclaimed \in BOOLEAN /\ phase \in {"off", "read", "boot", "runtime"}
  /\ op \in OpType /\ status \in {"none", "success", "error", "aborted"}
  /\ committed \in ContentsType /\ spared \in ContentsType
  /\ doubled \subseteq Names /\ unsafe \subseteq Names

\* The store is read anew, between calls: flash, memory and totals agree.
LEMMA MemoryReread ==
  ASSUME NEW s \in Seq(Entry), SizeOf(s) <= Space, Reread(s), pc' = "idle",
         TypesOfRest', phase' \in {"off", "read"} => status' = "none"
  PROVE  MemoryInv'
<1>1. SizeOf(s) \in 0..Space
  <2>1. SizeOf(s) \in Nat
    BY SizeFacts
  <2> QED BY <2>1, ConstantsAssumption
<1>2. /\ flash' = s /\ garbled' = {} /\ cache' = s
      /\ LastVariableOffset' = SizeOf(s) /\ CommonVariableTotalSize' = SizeOf(s)
  BY DEF Reread
<1>3. TypeOK'
  BY <1>1, <1>2 DEF TypeOK, TypesOfRest, OpType, ContentsType
<1>4. PhaseOK' /\ RiskOK' /\ PtrsOK'
  BY <1>2 DEF PhaseOK, RiskOK, PtrsOK, Places
<1>5. SyncOK'
  BY <1>2 DEF SyncOK, Writing
<1> QED BY <1>3, <1>4, <1>5 DEF MemoryInv

\* The fault tolerant write, whether it succeeds or fails.
FtwWrite(s, contents) ==
  (FtwVariableSpace(s) /\ committed' = contents) \/ FtwVariableSpaceError(s, contents)

\* After it the flash reads some store that fits, in memory too.
LEMMA FtwOutcome ==
  ASSUME MemoryInv, NEW s \in Seq(Entry), SizeOf(s) <= Space, NEW contents \in ContentsType,
         FtwWrite(s, contents)
  PROVE  /\ \E t \in Seq(Entry) : SizeOf(t) <= Space /\ Reread(t)
         /\ tail' \in {"free", "torn", "over"} /\ ftw' \in {"done", "spare", "half"}
         /\ spare' \in Seq(Entry) /\ SizeOf(spare') <= Space
         /\ spared' \in ContentsType /\ committed' \in ContentsType
<1>1. /\ tail \in {"free", "torn", "over"} /\ ftw \in {"done", "spare", "half"}
      /\ spare \in Seq(Entry) /\ SizeOf(spare) <= Space
      /\ spared \in ContentsType /\ committed \in ContentsType
  BY DEF MemoryInv, TypeOK, ContentsType
<1>2. AsRead \in Seq(Entry) /\ SizeOf(AsRead) <= Space
  <2>1. flash \in Seq(Entry) /\ SizeOf(flash) <= Space
    BY DEF MemoryInv, TypeOK
  <2> QED BY <2>1, AsReadFacts
<1>3. \A k \in 0..Len(s) : SubSeq(s, 1, k) \in Seq(Entry) /\ SizeOf(SubSeq(s, 1, k)) <= Space
  <2> SUFFICES ASSUME NEW k \in 0..Len(s)
               PROVE  SubSeq(s, 1, k) \in Seq(Entry) /\ SizeOf(SubSeq(s, 1, k)) <= Space
    OBVIOUS
  <2> DEFINE t == SubSeq(s, 1, k)
  <2>1. t \in Seq(Entry) /\ SizeOf(t) <= SizeOf(s)
    BY PrefixFacts
  <2> HIDE DEF t
  <2>2. SizeOf(t) \in Nat /\ SizeOf(s) \in Nat /\ Space \in Nat
    BY <2>1, SizeFacts, ConstantsAssumption
  <2>3. t \in Seq(Entry) /\ SizeOf(t) <= Space
    BY <2>1, <2>2
  <2> QED BY <2>3 DEF t
<1>4. \/ Reread(s) \/ Reread(AsRead) \/ \E k \in 0..Len(s) : Reread(SubSeq(s, 1, k))
  BY DEF FtwWrite, FtwVariableSpace, FtwVariableSpaceError
<1>5. \E t \in Seq(Entry) : SizeOf(t) <= Space /\ Reread(t)
  BY <1>2, <1>3, <1>4
<1>6. /\ tail' \in {tail, "free", "torn"} /\ ftw' \in {ftw, "spare", "half"}
      /\ spare' \in {spare, s} /\ spared' \in {spared, contents} /\ committed' \in {committed, contents}
  BY DEF FtwWrite, FtwVariableSpace, FtwVariableSpaceError, block
<1> QED BY <1>1, <1>5, <1>6

\* The store is parsed, or the spare block in its place.
LEMMA MemoryCommonInitialize ==
  ASSUME MemoryInv, CommonInitialize
  PROVE  MemoryInv'
<1> DEFINE s == IF ftw = "done" THEN flash ELSE spare
<1>1. s \in Seq(Entry) /\ SizeOf(s) <= Space
  BY DEF MemoryInv, TypeOK
<1>2. Reread(s)
  BY DEF CommonInitialize
<1>3. pc' = "idle" /\ status' = "none" /\ phase' = "read"
  BY DEF MemoryInv, PhaseOK, CommonInitialize
<1>4. TypesOfRest'
  <2>1. committed' \in ContentsType /\ spared' \in ContentsType
    BY DEF MemoryInv, TypeOK, CommonInitialize, ContentsType
  <2>2. spare' \in Seq(Entry) /\ SizeOf(spare') <= Space
    <3>1. spare' = <<>> /\ <<>> \in Seq(Entry)
      BY DEF CommonInitialize
    <3> QED BY <3>1, SizeEmpty, ConstantsAssumption
  <2> QED BY <1>3, <2>1, <2>2 DEF MemoryInv, TypeOK, CommonInitialize, TypesOfRest, OpType
<1> HIDE DEF s
<1> QED BY <1>1, <1>2, <1>3, <1>4, MemoryReread

\* The write service starts, or ReclaimForOS is called: a Reclaim, that works or not,
\* or none.
LEMMA MemoryReclaim ==
  ASSUME MemoryInv, WriteServiceInitialize \/ ReclaimForOS
  PROVE  MemoryInv'
<1> DEFINE live == LiveVariables(AsRead, 0, 0)
<1>1. /\ pc = "idle" /\ pc' = "idle" /\ phase \in {"read", "boot"} /\ phase' = "boot"
      /\ UNCHANGED <<op, status, doubled, unsafe>> /\ Reclaimed' \in BOOLEAN
  BY DEF MemoryInv, TypeOK, PhaseOK, WriteServiceInitialize, ReclaimForOS
<1>2. \/ FtwWrite(live, committed)
      \/ UNCHANGED <<flash, garbled, tail, cache, LastVariableOffset, CommonVariableTotalSize,
                     block, committed>>
  BY DEF WriteServiceInitialize, ReclaimForOS, FtwWrite
<1>3. live \in Seq(Entry) /\ SizeOf(live) <= Space
  BY LiveType
<1>4. CASE FtwWrite(live, committed)
  <2>1. committed \in ContentsType
    BY DEF MemoryInv, TypeOK, ContentsType
  <2>2. /\ \E t \in Seq(Entry) : SizeOf(t) <= Space /\ Reread(t)
        /\ tail' \in {"free", "torn", "over"} /\ ftw' \in {"done", "spare", "half"}
        /\ spare' \in Seq(Entry) /\ SizeOf(spare') <= Space
        /\ spared' \in ContentsType /\ committed' \in ContentsType
    <3> HIDE DEF live
    <3> QED BY <1>3, <1>4, <2>1, FtwOutcome
  <2>3. TypesOfRest'
    BY <1>1, <2>2 DEF TypesOfRest, MemoryInv, TypeOK, OpType
  <2> QED BY <1>1, <2>2, <2>3, MemoryReread
<1>5. CASE UNCHANGED <<flash, garbled, tail, cache, LastVariableOffset, CommonVariableTotalSize,
                       block, committed>>
  <2>1. TypeOK'
    BY <1>1, <1>5 DEF MemoryInv, TypeOK, block
  <2>2. PhaseOK' /\ RiskOK' /\ PtrsOK'
    BY <1>1, <1>5 DEF MemoryInv, PhaseOK, RiskOK, PtrsOK, block
  <2>3. SyncOK'
    BY <1>1, <1>5 DEF MemoryInv, SyncOK, Writing
  <2> QED BY <2>1, <2>2, <2>3 DEF MemoryInv
<1> QED BY <1>2, <1>4, <1>5

\* The firmware leaves boot services, or loses power.
LEMMA MemoryPhases ==
  ASSUME MemoryInv, ExitBootServices \/ PowerLoss
  PROVE  MemoryInv'
<1>1. CASE ExitBootServices
  <2>1. TypeOK'
    BY <1>1 DEF MemoryInv, TypeOK, ExitBootServices, memory, block
  <2>2. PhaseOK'
    BY <1>1 DEF MemoryInv, PhaseOK, ExitBootServices, memory
  <2>3. SyncOK' /\ PtrsOK' /\ RiskOK'
    BY <1>1 DEF MemoryInv, SyncOK, PtrsOK, RiskOK, ExitBootServices, memory, Writing
  <2> QED BY <2>1, <2>2, <2>3 DEF MemoryInv
<1>2. CASE PowerLoss
  <2>1. /\ pc' = "idle" /\ phase' = "off" /\ status' = "none" /\ garbled' = {}
        /\ flash' = AsRead /\ tail' \in {"torn", "free"} /\ op' = NoOp
        /\ UNCHANGED <<block, committed, unsafe>>
    BY <1>2 DEF PowerLoss
  <2>2. TypeOK'
    <3>1. NoOp \in OpType
      BY ConstantsAssumption DEF NoOp, OpType
    <3>2. AsRead \in Seq(Entry) /\ SizeOf(AsRead) <= Space
      <4>1. flash \in Seq(Entry) /\ SizeOf(flash) <= Space
        BY DEF MemoryInv, TypeOK
      <4> QED BY <4>1, AsReadFacts
    <3>4. Doubled(AsRead) \subseteq Names /\ <<>> \in Seq(Entry) /\ 0 \in 0..Space
      BY ConstantsAssumption DEF Doubled
    <3> QED BY <1>2, <2>1, <3>1, <3>2, <3>4 DEF MemoryInv, TypeOK, PowerLoss, OpType, block
  <2>3. PhaseOK' /\ SyncOK' /\ PtrsOK' /\ RiskOK'
    BY <2>1 DEF PhaseOK, SyncOK, PtrsOK, RiskOK, Places
  <2> QED BY <2>2, <2>3 DEF MemoryInv
<1> QED BY <1>1, <1>2

\* A step that leaves the flash as endangered as it was, and the damaged headers
\* with their names, puts no other name at risk.
LEMMA RiskKept ==
  ASSUME RiskOK, UNCHANGED <<garbled, tail, ftw, unsafe, phase>>,
         pc' # "idle" => pc # "idle" /\ op'.name = op.name,
         \A i \in garbled : flash'[i].name = flash[i].name
  PROVE  RiskOK'
<1>1. pc' # "idle" /\ Endangered' => op'.name \in unsafe'
  BY DEF RiskOK, Endangered
<1>2. \A i \in garbled' : flash'[i].name \in unsafe'
  BY DEF RiskOK
<1>3. phase' \in {"off", "read"} => garbled' = {}
  BY DEF RiskOK
<1> QED BY <1>1, <1>2, <1>3 DEF RiskOK

\* SetVariable looks the variable up and goes to its first step.
LEMMA MemorySetVariable ==
  ASSUME MemoryInv, NEW n \in Names, NEW v \in Values \cup {NoVal}, SetVariable(n, v)
  PROVE  MemoryInv'
<1> DEFINE c == FindVariableEx(cache, n).CurrPtr
           d == FindVariableEx(cache, n).InDeletedTransitionPtr
           old == GetVariable(cache, n)
<1>1. /\ phase \in {"boot", "runtime"} /\ pc = "idle" /\ pc \notin Writing
      /\ op' = [name |-> n, val |-> v, old |-> old, CurrPtr |-> c, InDeletedTransitionPtr |-> d]
      /\ pc' = IF v = old THEN "idle"
               ELSE IF v # NoVal THEN IF c # 0 THEN "mark" ELSE "room"
               ELSE IF d # 0 THEN "deleteTransition" ELSE "delete"
      /\ status' = IF v # old THEN "none" ELSE IF v = NoVal THEN "error" ELSE "success"
      /\ unsafe' = IF pc' # "idle" /\ Endangered THEN unsafe \cup {n} ELSE unsafe
      /\ UNCHANGED <<flash, garbled, tail, memory, block, phase, committed, doubled>>
  BY DEF SetVariable, Writing
<1>2. /\ cache = flash /\ flash \in Seq(Entry) /\ SizeOf(flash) <= Space /\ Space \in Nat
      /\ SizeOf(flash) \in Nat
  BY <1>1, InSync
<1>3. Len(cache) \in Nat /\ Len(cache) <= Space
  <2>1. Len(flash) <= SizeOf(flash) /\ Len(flash) \in Nat
    BY <1>2, SizeFacts
  <2> QED BY <1>2, <2>1
<1>4. old \in Values \cup {NoVal}
  BY <1>2, GetType
<1>5. /\ c \in 0..Len(cache) /\ d \in 0..Len(cache)
      /\ c # 0 => IsCopy(cache, n, c)
      /\ d # 0 => IsCopy(cache, n, d) /\ c # 0
  <2>1. /\ c \in 0..Len(cache) /\ d \in 0..Len(cache)
        /\ c # 0 => cache[c].name = n /\ cache[c].state \in {"added", "inDeleted"}
        /\ d # 0 => /\ cache[d].name = n /\ cache[d].state = "inDeleted"
                    /\ c # 0
    BY <1>2, FindPointers
  <2> HIDE DEF c, d
  <2> QED BY <1>3, <2>1 DEF IsCopy
<1>6. c = 0 => old = NoVal
  BY DEF GetVariable
<1> HIDE DEF c, d, old
<1>7. c \in 0..Space /\ d \in 0..Space
  BY <1>2, <1>3, <1>5
<1>8. TypeOK'
  <2>1. op' \in OpType
    BY <1>1, <1>4, <1>7 DEF OpType
  <2>2. status' \in {"none", "success", "error", "aborted"}
    BY <1>1
  <2>3. unsafe' \subseteq Names
    BY <1>1 DEF MemoryInv, TypeOK
  <2> QED BY <1>1, <2>1, <2>2, <2>3 DEF MemoryInv, TypeOK, memory, block, OpType
<1>9. pc' \in {"idle", "mark", "room", "deleteTransition", "delete"} /\ (pc' # "idle" => v # old)
  BY <1>1
<1>10. PhaseOK'
  BY <1>1, <1>9 DEF MemoryInv, PhaseOK, Places
<1>13. RiskOK'
  <2>1. op'.name = n /\ unsafe \subseteq unsafe' /\ (Endangered' <=> Endangered)
    BY <1>1 DEF Endangered, block
  <2>2. pc' # "idle" /\ Endangered' => op'.name \in unsafe'
    BY <1>1, <2>1
  <2>3. \A i \in garbled' : flash'[i].name \in unsafe'
    BY <1>1, <2>1 DEF MemoryInv, RiskOK
  <2> QED BY <1>1, <2>2, <2>3 DEF RiskOK
<1>11. SyncOK'
  BY <1>1, <1>9 DEF MemoryInv, SyncOK, Writing, memory
<1>12. PtrsOK'
  <2>1. /\ op'.CurrPtr = c /\ op'.InDeletedTransitionPtr = d /\ op'.name = n
        /\ cache' = cache
    BY <1>1 DEF memory
  <2>2. pc' \in {"mark", "deleteTransition", "delete"} => c # 0
    BY <1>1, <1>5, <1>6
  <2>3. pc' = "deleteTransition" => d # 0
    BY <1>1
  <2> QED BY <1>5, <2>1, <2>2, <2>3 DEF PtrsOK
<1> QED BY <1>8, <1>10, <1>11, <1>12, <1>13 DEF MemoryInv

\* A call returns.
LEMMA ReturnFacts ==
  ASSUME MemoryInv, NEW x \in {"success", "error", "aborted"}, Return(x)
  PROVE  /\ pc' = "idle" /\ status' = x /\ doubled' = doubled \cup Doubled(flash')
         /\ op' \in OpType /\ op'.name = op.name /\ op'.val = op.val /\ op'.old = op.old
         /\ status' \in {"none", "success", "error", "aborted"} /\ doubled' \subseteq Names
<1>1. op \in OpType /\ doubled \subseteq Names
  BY DEF MemoryInv, TypeOK, OpType
<1>2. /\ pc' = "idle" /\ status' = x /\ doubled' = doubled \cup Doubled(flash')
      /\ op' = [op EXCEPT !.CurrPtr = 0, !.InDeletedTransitionPtr = 0]
  BY DEF Return
<1>3. 0 \in 0..Space
  BY ConstantsAssumption
<1>4. op' \in OpType /\ op'.name = op.name /\ op'.val = op.val /\ op'.old = op.old
  BY <1>1, <1>2, <1>3 DEF OpType
<1>5. doubled' \subseteq Names
  BY <1>1, <1>2 DEF Doubled
<1> QED BY <1>2, <1>4, <1>5

\* The state byte of a variable with name and data changes in flash and memory.
LEMMA SetStateFacts ==
  ASSUME MemoryInv, phase # "off", pc \notin Writing, NEW i, NEW n, IsCopy(cache, n, i),
         NEW state \in State, state # "header", SetState(i, state)
  PROVE  /\ flash' = Restated(flash, i, state) /\ cache' = flash' /\ i \in 1..Len(flash)
         /\ flash' \in Seq(Entry) /\ SizeOf(flash') <= Space
         /\ LastVariableOffset' = SizeOf(cache') /\ CommonVariableTotalSize' = SizeOf(cache')
         /\ LastVariableOffset' \in 0..Space /\ CommonVariableTotalSize' \in 0..Space
         /\ \A m, j : IsCopy(cache, m, j) => IsCopy(cache', m, j)
         /\ \A j \in garbled : flash'[j].name = flash[j].name
<1>1. /\ cache = flash /\ flash \in Seq(Entry)
      /\ SizeOf(flash) \in Nat /\ SizeOf(flash) <= Space /\ Space \in Nat
      /\ LastVariableOffset = SizeOf(flash) /\ CommonVariableTotalSize = SizeOf(flash)
  BY InSync
<1>2. i \in 1..Len(flash) /\ flash[i].state # "header"
  BY <1>1 DEF IsCopy
<1>3. flash' = Restated(flash, i, state) /\ cache' = flash'
  BY <1>1 DEF SetState, Restated
<1> DEFINE t == Restated(flash, i, state)
<1>4. /\ t \in Seq(Entry) /\ Len(t) = Len(flash)
      /\ \A j \in 1..Len(flash) : /\ t[j].name = flash[j].name
                                  /\ t[j].state = IF j = i THEN state ELSE flash[j].state
  BY <1>1, <1>2, RestatedFacts
<1>5. SizeOf(t) = SizeOf(flash)
  BY <1>1, <1>2, SizeRestated
<1>6. LastVariableOffset' = LastVariableOffset /\ CommonVariableTotalSize' = CommonVariableTotalSize
  BY DEF SetState
<1> HIDE DEF t
<1>7. \A m, j : IsCopy(flash, m, j) => IsCopy(t, m, j)
  BY <1>4 DEF IsCopy
<1>8. garbled \subseteq 1..Len(flash)
  BY <1>1 DEF MemoryInv, TypeOK
<1> QED BY <1>1, <1>2, <1>3, <1>4, <1>5, <1>6, <1>7, <1>8 DEF t

\* The old variable is marked, or the older copy deleted.
LEMMA MemorySetState ==
  ASSUME MemoryInv, MarkInDeletedTransition \/ DeleteInDeletedTransition
  PROVE  MemoryInv'
<1>1. PICK i \in 0..Space, state \in State, next \in {"room", "delete"} :
        /\ IsCopy(cache, op.name, i) /\ state # "header"
        /\ SetState(i, state) /\ Continue(next) /\ UNCHANGED <<op, committed>>
        /\ next = "delete" => op.CurrPtr # 0
        /\ pc \in {"mark", "deleteTransition"}
  <2>0. op.CurrPtr \in 0..Space /\ op.InDeletedTransitionPtr \in 0..Space
    BY DEF MemoryInv, TypeOK
  <2>1. CASE MarkInDeletedTransition
    <3>1. IsCopy(cache, op.name, op.CurrPtr)
      BY <2>1 DEF MemoryInv, PtrsOK, MarkInDeletedTransition
    <3> QED BY <2>0, <2>1, <3>1 DEF MarkInDeletedTransition, State
  <2>2. CASE DeleteInDeletedTransition
    <3>1. IsCopy(cache, op.name, op.InDeletedTransitionPtr) /\ op.CurrPtr # 0
      BY <2>2 DEF MemoryInv, PtrsOK, DeleteInDeletedTransition
    <3> QED BY <2>0, <2>2, <3>1 DEF DeleteInDeletedTransition, State
  <2> QED BY <2>1, <2>2
<1>2. phase \in {"boot", "runtime"} /\ pc \notin Writing
  BY <1>1 DEF MemoryInv, PhaseOK, Writing
<1>3. /\ cache' = flash'
      /\ flash' \in Seq(Entry) /\ SizeOf(flash') <= Space
      /\ LastVariableOffset' = SizeOf(cache') /\ CommonVariableTotalSize' = SizeOf(cache')
      /\ LastVariableOffset' \in 0..Space /\ CommonVariableTotalSize' \in 0..Space
      /\ \A m, j : IsCopy(cache, m, j) => IsCopy(cache', m, j)
      /\ \A j \in garbled : flash'[j].name = flash[j].name
      /\ DOMAIN flash' = DOMAIN flash
  <2>1. flash \in Seq(Entry) /\ flash' = Restated(flash, i, state)
    BY <1>1, <1>2, SetStateFacts DEF MemoryInv, TypeOK
  <2>2. DOMAIN flash' = DOMAIN flash
    BY <2>1 DEF Restated
  <2> QED BY <1>1, <1>2, <2>2, SetStateFacts
<1>4. /\ pc' = next
      /\ UNCHANGED <<garbled, tail, block, Reclaimed, phase, op, committed, status, doubled, unsafe>>
  BY <1>1 DEF SetState, Continue
<1>5. TypeOK'
  BY <1>3, <1>4 DEF MemoryInv, TypeOK, block
<1>9. RiskOK'
  BY <1>1, <1>3, <1>4, RiskKept DEF MemoryInv, block
<1>6. PhaseOK'
  BY <1>1, <1>2, <1>4 DEF MemoryInv, PhaseOK, Places
<1>7. SyncOK'
  BY <1>3, <1>4 DEF SyncOK, Writing
<1>8. PtrsOK'
  BY <1>1, <1>3, <1>4 DEF MemoryInv, PtrsOK
<1> QED BY <1>5, <1>6, <1>7, <1>8, <1>9 DEF MemoryInv

\* The old variable is deleted, and the call returns.
LEMMA MemoryDeleteOld ==
  ASSUME MemoryInv, DeleteOld
  PROVE  MemoryInv'
<1>1. /\ pc = "delete" /\ phase \in {"boot", "runtime"} /\ pc \notin Writing
      /\ IsCopy(cache, op.name, op.CurrPtr)
  BY DEF MemoryInv, PhaseOK, PtrsOK, DeleteOld, Writing
<1>2. /\ cache' = flash'
      /\ flash' \in Seq(Entry) /\ SizeOf(flash') <= Space
      /\ LastVariableOffset' = SizeOf(cache') /\ CommonVariableTotalSize' = SizeOf(cache')
      /\ LastVariableOffset' \in 0..Space /\ CommonVariableTotalSize' \in 0..Space
      /\ \A j \in garbled : flash'[j].name = flash[j].name
      /\ DOMAIN flash' = DOMAIN flash
  <2>1. "deleted" \in State /\ SetState(op.CurrPtr, "deleted")
    BY DEF State, DeleteOld
  <2>2. flash \in Seq(Entry) /\ flash' = Restated(flash, op.CurrPtr, "deleted")
    BY <1>1, <2>1, SetStateFacts DEF MemoryInv, TypeOK
  <2>3. DOMAIN flash' = DOMAIN flash
    BY <2>2 DEF Restated
  <2> QED BY <1>1, <2>1, <2>3, SetStateFacts
<1>3. /\ pc' = "idle" /\ status' = "success"
      /\ op' \in OpType /\ doubled' \subseteq Names
  <2>1. Return("success")
    BY DEF DeleteOld
  <2> QED BY <2>1, ReturnFacts
<1>4. UNCHANGED <<garbled, tail, block, Reclaimed, phase, unsafe>> /\ committed' = [committed EXCEPT ![op.name] = op.val]
  BY DEF DeleteOld, SetState
<1>5. TypeOK'
  <2>1. committed' \in [Names -> Values \cup {NoVal}]
    BY <1>4 DEF MemoryInv, TypeOK
  <2> QED BY <1>2, <1>3, <1>4, <2>1 DEF MemoryInv, TypeOK, OpType, block
<1>6. PhaseOK'
  BY <1>1, <1>3, <1>4 DEF MemoryInv, PhaseOK, Places
<1>7. SyncOK' /\ PtrsOK'
  BY <1>2, <1>3 DEF SyncOK, PtrsOK, Writing
<1>8. RiskOK'
  BY <1>2, <1>3, <1>4, RiskKept DEF MemoryInv, block
<1> QED BY <1>5, <1>6, <1>7, <1>8 DEF MemoryInv

\* The check for room, with or without it at runtime.
LEMMA MemoryRoom ==
  ASSUME MemoryInv, HasRoom \/ OutOfResourcesAtRuntime
  PROVE  MemoryInv'
<1>1. /\ pc = "room" /\ phase \in {"boot", "runtime"} /\ pc \notin Writing
      /\ UNCHANGED <<flash, garbled, tail, cache, LastVariableOffset, CommonVariableTotalSize,
                     Reclaimed, ftw, spare, spared, phase, committed, unsafe>>
  BY DEF MemoryInv, PhaseOK, HasRoom, OutOfResourcesAtRuntime, Writing, memory, block
<1>2. cache = flash /\ CommonVariableTotalSize = SizeOf(cache) /\ SizeOf(cache) \in Nat
  BY <1>1, InSync
<1>3. CASE HasRoom
  <2>1. pc' = "writeHeader" /\ UNCHANGED <<op, status, doubled>>
    BY <1>3 DEF HasRoom, Continue
  <2>2. SizeOf(cache) + VariableSize <= Space
    BY <1>2, <1>3, ConstantsAssumption DEF HasRoom, NoRoom, VariableSize
  <2>3. TypeOK'
    BY <1>1, <2>1 DEF MemoryInv, TypeOK
  <2>4. PhaseOK'
    BY <1>1, <2>1 DEF MemoryInv, PhaseOK, Places
  <2>5. SyncOK'
    BY <1>1, <2>1, <2>2 DEF MemoryInv, SyncOK, Writing
  <2>6. PtrsOK' /\ RiskOK'
    BY <1>1, <2>1, RiskKept DEF MemoryInv, PtrsOK
  <2> QED BY <2>3, <2>4, <2>5, <2>6 DEF MemoryInv
<1>4. CASE OutOfResourcesAtRuntime
  <2>1. /\ pc' = "idle" /\ status' = "error"
        /\ op' \in OpType /\ doubled' \subseteq Names
    <3>1. Return("error")
      BY <1>4 DEF OutOfResourcesAtRuntime
    <3> QED BY <3>1, ReturnFacts
  <2>2. TypeOK'
    BY <1>1, <2>1 DEF MemoryInv, TypeOK, OpType
  <2>3. PhaseOK'
    BY <1>1, <2>1 DEF MemoryInv, PhaseOK, Places
  <2>4. SyncOK' /\ PtrsOK'
    BY <1>1, <2>1 DEF MemoryInv, SyncOK, PtrsOK, Writing
  <2>5. RiskOK'
    BY <1>1, <2>1, RiskKept DEF MemoryInv
  <2> QED BY <2>2, <2>3, <2>4, <2>5 DEF MemoryInv
<1> QED BY <1>3, <1>4

\* The new variable, once it is complete.
Fresh == [state |-> "added", name |-> op.name, val |-> op.val]

\* Reclaim makes the new variable part of the store, fails, or finds no room.
LEMMA MemoryReclaimAndAdd ==
  ASSUME MemoryInv, ReclaimAndAdd
  PROVE  MemoryInv'
<1> DEFINE live == LiveVariables(AsRead, op.CurrPtr, op.InDeletedTransitionPtr)
           contents == [committed EXCEPT ![op.name] = op.val]
<1>1. /\ pc = "room" /\ phase = "boot" /\ pc \notin Writing /\ op.name \in Names
      /\ UNCHANGED <<Reclaimed, phase, unsafe>>
  BY DEF MemoryInv, PhaseOK, ReclaimAndAdd, Writing
<1>2. /\ cache = flash /\ flash \in Seq(Entry) /\ SizeOf(flash) <= Space
      /\ LastVariableOffset = SizeOf(flash) /\ CommonVariableTotalSize = SizeOf(flash)
  BY <1>1, InSync
<1>3. live \in Seq(Entry) /\ SizeOf(live) \in Nat
  BY LiveType
<1>4. op.val \in Values \cup {NoVal} /\ committed \in ContentsType
  BY DEF MemoryInv, TypeOK, ContentsType
<1>5. PICK x \in {"success", "error", "aborted"} :
        /\ Return(x)
        /\ \/ /\ SizeOf(live) + VariableSize <= Space
              /\ FtwWrite(Append(live, Fresh), contents)
           \/ /\ Reread(AsRead)
              /\ UNCHANGED <<tail, ftw, spare, spared, committed>>
  <2>1. SizeOf(AsRead) = SizeOf(flash)
    BY <1>2, AsReadFacts
  <2> QED BY <1>2, <2>1 DEF ReclaimAndAdd, FtwWrite, Fresh, Reread, block
<1>6. /\ \E t \in Seq(Entry) : SizeOf(t) <= Space /\ Reread(t)
      /\ tail' \in {"free", "torn", "over"} /\ ftw' \in {"done", "spare", "half"}
      /\ spare' \in Seq(Entry) /\ SizeOf(spare') <= Space
      /\ spared' \in ContentsType /\ committed' \in ContentsType
  <2>1. CASE /\ SizeOf(live) + VariableSize <= Space
             /\ FtwWrite(Append(live, Fresh), contents)
    <3> DEFINE t == Append(live, Fresh)
    <3>1. Fresh \in Entry
      BY <1>1, <1>4 DEF Fresh, Entry, State
    <3>2. t \in Seq(Entry) /\ SizeOf(t) = SizeOf(live) + 2
      <4> HIDE DEF live
      <4>1. t \in Seq(Entry)
        BY <1>3, <3>1, AppendProperties
      <4>2. SizeOf(t) = SizeOf(live) + IF Fresh.state = "header" THEN 1 ELSE 2
        BY <1>3, <3>1, SizeAppend
      <4>3. Fresh.state # "header"
        BY DEF Fresh
      <4> QED BY <4>1, <4>2, <4>3
    <3>3. SizeOf(t) <= Space
      <4> HIDE DEF t, live
      <4> QED BY <1>3, <2>1, <3>2 DEF VariableSize
    <3>4. contents \in ContentsType
      BY <1>1, <1>4 DEF ContentsType
    <3>5. FtwWrite(t, contents)
      BY <2>1
    <3> HIDE DEF t, contents
    <3> QED BY <3>2, <3>3, <3>4, <3>5, FtwOutcome
  <2>2. CASE Reread(AsRead) /\ UNCHANGED <<tail, ftw, spare, spared, committed>>
    <3>1. AsRead \in Seq(Entry) /\ SizeOf(AsRead) <= Space
      BY <1>2, AsReadFacts
    <3> QED BY <2>2, <3>1 DEF MemoryInv, TypeOK, ContentsType
  <2> QED BY <1>5, <2>1, <2>2
<1>7. /\ pc' = "idle" /\ op' \in OpType /\ doubled' \subseteq Names
      /\ status' \in {"none", "success", "error", "aborted"}
  BY <1>5, ReturnFacts
<1>8. TypesOfRest'
  BY <1>1, <1>6, <1>7 DEF TypesOfRest, MemoryInv, TypeOK
<1> QED BY <1>1, <1>6, <1>7, <1>8, MemoryReread

\* Steps 1 to 3 of writing a variable: flash holds it as far as it has got.
LEMMA MemoryWriting ==
  ASSUME MemoryInv, WriteHeader \/ WriteHeaderValid \/ WriteData
  PROVE  /\ MemoryInv'
         /\ cache' = cache /\ flash' = Append(cache, Written') /\ Written' \in Entry
         /\ Written'.state \in {"header", "headerValid"}
<1>1. /\ pc \in {"writeHeader", "writeState", "writeData"} /\ phase \in {"boot", "runtime"}
      /\ UNCHANGED <<cache, LastVariableOffset, CommonVariableTotalSize, Reclaimed, ftw, spare,
                     spared, phase, op, committed, status, doubled, unsafe>>
      /\ pc = "writeHeader" => pc' = "writeState"
      /\ pc = "writeState" => pc' = "writeData"
      /\ pc = "writeData" => pc' = "writeAdded"
  BY DEF MemoryInv, PhaseOK, WriteHeader, WriteHeaderValid, WriteData, Continue, memory, block
<1>2. /\ cache \in Seq(Entry) /\ op.name \in Names /\ op.val \in Values \cup {NoVal}
      /\ LastVariableOffset = SizeOf(cache) /\ CommonVariableTotalSize = SizeOf(cache)
      /\ SizeOf(cache) + VariableSize <= Space
      /\ flash = IF pc \in Writing THEN Append(cache, Written) ELSE cache
  BY <1>1 DEF MemoryInv, TypeOK, SyncOK, PhaseOK, Writing
<1>3. Written \in Entry /\ Written' \in Entry /\ Written'.state \in {"header", "headerValid"}
  BY <1>1, <1>2 DEF Written, Entry, State
<1>4. flash' = Append(cache, Written')
  <2>1. CASE WriteHeader
    <3>1. flash = cache
      BY <1>2, <2>1 DEF WriteHeader, Writing
    <3>2. Written' = [state |-> "header", name |-> op.name, val |-> NoVal]
      BY <1>1, <2>1 DEF WriteHeader, Written
    <3> QED BY <2>1, <3>1, <3>2 DEF WriteHeader
  <2>2. CASE WriteHeaderValid
    <3>1. flash = Append(cache, Written) /\ pc = "writeState"
      BY <1>2, <2>2 DEF WriteHeaderValid, Writing
    <3>2. Written' = [Written EXCEPT !.state = "headerValid"]
      BY <1>1, <3>1 DEF Written
    <3>3. flash' = [flash EXCEPT ![Len(flash)].state = "headerValid"]
      BY <2>2 DEF WriteHeaderValid
    <3>4. [Append(cache, Written) EXCEPT ![Len(Append(cache, Written))].state = "headerValid"]
            = Append(cache, [Written EXCEPT !.state = "headerValid"])
      <4>1. "headerValid" \in State
        BY DEF State
      <4> QED BY <1>2, <1>3, <4>1, LastRewritten
    <3> QED BY <3>1, <3>2, <3>3, <3>4
  <2>3. CASE WriteData
    <3>1. flash = Append(cache, Written) /\ pc = "writeData"
      BY <1>2, <2>3 DEF WriteData, Writing
    <3>2. Written' = [Written EXCEPT !.val = op.val]
      BY <1>1, <3>1 DEF Written
    <3>3. flash' = [flash EXCEPT ![Len(flash)].val = op.val]
      BY <2>3 DEF WriteData
    <3>4. [Append(cache, Written) EXCEPT ![Len(Append(cache, Written))].val = op.val]
            = Append(cache, [Written EXCEPT !.val = op.val])
      <4> DEFINE e == Written
      <4> HIDE DEF e
      <4>1. \A x \in Values \cup {NoVal} :
              [Append(cache, e) EXCEPT ![Len(Append(cache, e))].val = x]
                = Append(cache, [e EXCEPT !.val = x])
        <5>1. e \in Entry
          BY <1>3 DEF e
        <5> QED BY <1>2, <5>1, LastRewritten
      <4> QED BY <1>2, <4>1 DEF e
    <3> QED BY <3>1, <3>2, <3>3, <3>4
  <2> QED BY <2>1, <2>2, <2>3
<1>5. flash' \in Seq(Entry) /\ SizeOf(flash') <= Space
  <2> DEFINE e == Written'
  <2>1. e \in Entry
    BY <1>3
  <2>2. flash' = Append(cache, e)
    BY <1>4
  <2> HIDE DEF e
  <2>3. Append(cache, e) \in Seq(Entry)
    BY <1>2, <2>1, AppendProperties
  <2>4. SizeOf(Append(cache, e)) = SizeOf(cache) + IF e.state = "header" THEN 1 ELSE 2
    BY <1>2, <2>1, SizeAppend
  <2>5. SizeOf(cache) \in Nat
    BY <1>2, SizeFacts
  <2> QED BY <1>2, <2>2, <2>3, <2>4, <2>5, ConstantsAssumption DEF VariableSize
<1>6. pc' \in Writing
  BY <1>1 DEF Writing
<1>11. /\ garbled' \subseteq DOMAIN flash' /\ \A i \in garbled' : flash'[i].name \in unsafe
       /\ tail' \in {"free", "torn", "over"} /\ (tail' # "free" => tail # "free")
  <2> DEFINE e == Written'
             k == Len(cache) + 1
  <2>1. e \in Entry /\ flash' = Append(cache, e) /\ e.name = op.name
    BY <1>1, <1>3, <1>4 DEF Written
  <2>2. Written \in Entry /\ Written.name = op.name
    BY <1>3 DEF Written
  <2>3. pc \notin Writing => pc = "writeHeader" /\ flash = cache
    BY <1>1, <1>2 DEF Writing
  <2> HIDE DEF e
  <2>4. DOMAIN flash' = (1..Len(cache)) \cup {k} /\ Len(cache) \in Nat /\ DOMAIN cache = 1..Len(cache)
    BY <1>2, <2>1, AppendProperties
  <2>5. flash'[k].name = op.name /\ \A i \in 1..Len(cache) : flash'[i] = cache[i]
    BY <1>2, <2>1, AppendProperties
  <2>6. pc \in Writing => /\ DOMAIN flash = (1..Len(cache)) \cup {k}
                         /\ flash[k].name = op.name /\ \A i \in 1..Len(cache) : flash[i] = cache[i]
    <3> SUFFICES ASSUME pc \in Writing
                 PROVE  /\ DOMAIN flash = (1..Len(cache)) \cup {k}
                        /\ flash[k].name = op.name /\ \A i \in 1..Len(cache) : flash[i] = cache[i]
      OBVIOUS
    <3>1. flash = Append(cache, Written)
      BY <1>2
    <3> QED BY <1>2, <2>2, <2>4, <3>1, AppendProperties
  <2>7. DOMAIN flash \subseteq DOMAIN flash' /\ \A i \in DOMAIN flash : flash'[i].name = flash[i].name
    BY <2>3, <2>4, <2>5, <2>6
  <2>8. garbled \subseteq DOMAIN flash /\ (\A i \in garbled : flash[i].name \in unsafe)
        /\ tail \in {"free", "torn", "over"}
    BY DEF MemoryInv, TypeOK, RiskOK
  <2>9. CASE garbled' = garbled /\ (tail' = tail \/ (tail = "torn" /\ tail' = "over"))
    BY <2>7, <2>8, <2>9
  <2>10. CASE tail = "torn" /\ garbled' = garbled \cup {k} /\ tail' = "over" /\ pc = "writeHeader"
    <3>1. op.name \in unsafe
      BY <2>10 DEF MemoryInv, RiskOK, Endangered
    <3>2. k \in DOMAIN flash' /\ flash'[k].name \in unsafe
      BY <2>4, <2>5, <3>1
    <3> QED BY <2>7, <2>8, <2>10, <3>2
  <2>11. pc = "writeHeader" => flash = cache
    BY <2>3 DEF Writing
  <2> QED BY <2>9, <2>10, <2>11 DEF WriteHeader, WriteHeaderValid, WriteData
<1>12. RiskOK'
  <2>1. Endangered' => Endangered
    BY <1>1, <1>11 DEF Endangered
  <2>2. pc' # "idle" /\ Endangered' => op'.name \in unsafe'
    BY <1>1, <2>1 DEF MemoryInv, RiskOK
  <2> QED BY <1>1, <1>11, <2>2 DEF RiskOK
<1>7. TypeOK'
  BY <1>1, <1>5, <1>11 DEF MemoryInv, TypeOK
<1>8. PhaseOK'
  BY <1>1, <1>6 DEF MemoryInv, PhaseOK, Places, Writing
<1>9. SyncOK'
  BY <1>1, <1>2, <1>4, <1>6 DEF SyncOK
<1>10. PtrsOK'
  BY <1>1 DEF MemoryInv, PtrsOK
<1> QED BY <1>1, <1>3, <1>4, <1>7, <1>8, <1>9, <1>10, <1>12 DEF MemoryInv

\* Step 4: the variable is complete, in flash and in memory.
LEMMA MemoryWriteAdded ==
  ASSUME MemoryInv, WriteAdded
  PROVE  /\ MemoryInv'
         /\ cache' = Append(cache, Fresh) /\ flash' = Append(cache, Fresh) /\ Fresh \in Entry
<1>1. /\ pc = "writeAdded" /\ pc \in Writing /\ phase \in {"boot", "runtime"}
      /\ UNCHANGED <<garbled, tail, Reclaimed, ftw, spare, spared, phase, unsafe>>
      /\ committed' = [committed EXCEPT ![op.name] = op.val]
      /\ LastVariableOffset' = LastVariableOffset + VariableSize
      /\ CommonVariableTotalSize' = CommonVariableTotalSize + VariableSize
      /\ cache' = Append(cache, Fresh)
  BY DEF MemoryInv, PhaseOK, WriteAdded, Writing, Fresh, block
<1>2. /\ cache \in Seq(Entry) /\ op.name \in Names /\ op.val \in Values \cup {NoVal}
      /\ LastVariableOffset = SizeOf(cache) /\ CommonVariableTotalSize = SizeOf(cache)
      /\ SizeOf(cache) + VariableSize <= Space
      /\ flash = Append(cache, Written)
  BY <1>1 DEF MemoryInv, TypeOK, SyncOK, PhaseOK
<1>3. Written \in Entry /\ Fresh \in Entry /\ Fresh.state # "header"
  BY <1>1, <1>2 DEF Written, Entry, State, Fresh
<1>4. flash' = Append(cache, Fresh)
  <2>1. Fresh = [Written EXCEPT !.state = "added"]
    BY <1>1 DEF Written, Fresh
  <2>2. flash' = [flash EXCEPT ![Len(flash)].state = "added"]
    BY DEF WriteAdded
  <2>3. [Append(cache, Written) EXCEPT ![Len(Append(cache, Written))].state = "added"]
          = Append(cache, [Written EXCEPT !.state = "added"])
    <3>1. "added" \in State
      BY DEF State
    <3> QED BY <1>2, <1>3, <3>1, LastRewritten
  <2> QED BY <1>2, <2>1, <2>2, <2>3
<1>5. /\ Append(cache, Fresh) \in Seq(Entry) /\ SizeOf(Append(cache, Fresh)) = SizeOf(cache) + 2
      /\ Len(Append(cache, Fresh)) = Len(cache) + 1
      /\ \A i \in 1..Len(cache) : Append(cache, Fresh)[i] = cache[i]
  <2>1. SizeOf(Append(cache, Fresh)) = SizeOf(cache) + IF Fresh.state = "header" THEN 1 ELSE 2
    BY <1>2, <1>3, SizeAppend
  <2>2. /\ Append(cache, Fresh) \in Seq(Entry)
        /\ Len(Append(cache, Fresh)) = Len(cache) + 1
        /\ \A i \in 1..Len(cache) : Append(cache, Fresh)[i] = cache[i]
    BY <1>2, <1>3, AppendProperties
  <2> QED BY <1>3, <2>1, <2>2
<1>6. SizeOf(cache) \in Nat /\ Space \in Nat
  BY <1>2, SizeFacts, ConstantsAssumption
<1>7. /\ SizeOf(cache') <= Space /\ LastVariableOffset' = SizeOf(cache')
      /\ CommonVariableTotalSize' = SizeOf(cache') /\ SizeOf(cache') \in 0..Space
  BY <1>1, <1>2, <1>5, <1>6 DEF VariableSize
<1>8. committed' \in [Names -> Values \cup {NoVal}]
  BY <1>1, <1>2 DEF MemoryInv, TypeOK
<1>11. garbled \subseteq DOMAIN flash' /\ \A i \in garbled : flash'[i].name = flash[i].name
  <2>1. /\ DOMAIN flash = (1..Len(cache)) \cup {Len(cache) + 1}
        /\ flash[Len(cache) + 1] = Written /\ \A i \in 1..Len(cache) : flash[i] = cache[i]
    BY <1>2, <1>3, AppendProperties
  <2>2. /\ DOMAIN flash' = (1..Len(cache)) \cup {Len(cache) + 1}
        /\ flash'[Len(cache) + 1] = Fresh /\ \A i \in 1..Len(cache) : flash'[i] = cache[i]
    BY <1>2, <1>3, <1>4, AppendProperties
  <2>3. Written.name = Fresh.name
    BY DEF Written, Fresh
  <2>4. garbled \subseteq DOMAIN flash
    BY DEF MemoryInv, TypeOK
  <2> QED BY <2>1, <2>2, <2>3, <2>4
<1>9. CASE op.CurrPtr = 0
  <2>1. /\ pc' = "idle" /\ status' = "success"
        /\ op' \in OpType /\ doubled' \subseteq Names
    <3>1. Return("success")
      BY <1>9 DEF WriteAdded
    <3> QED BY <3>1, ReturnFacts
  <2>2. TypeOK'
    BY <1>1, <1>4, <1>5, <1>7, <1>8, <1>11, <2>1 DEF MemoryInv, TypeOK, OpType
  <2>3. PhaseOK'
    BY <1>1, <2>1 DEF MemoryInv, PhaseOK, Places
  <2>4. SyncOK' /\ PtrsOK'
    BY <1>1, <1>4, <1>7, <2>1 DEF SyncOK, PtrsOK, Writing
  <2>5. RiskOK'
    BY <1>1, <1>11, <2>1, RiskKept DEF MemoryInv
  <2> QED BY <1>1, <1>3, <1>4, <2>2, <2>3, <2>4, <2>5 DEF MemoryInv
<1>10. CASE op.CurrPtr # 0
  <2>1. /\ pc' = IF op.InDeletedTransitionPtr # 0 THEN "deleteTransition" ELSE "delete"
        /\ UNCHANGED <<op, status, doubled>>
    BY <1>10 DEF WriteAdded, Continue
  <2>2. TypeOK'
    BY <1>1, <1>4, <1>5, <1>7, <1>8, <1>11, <2>1 DEF MemoryInv, TypeOK
  <2>3. PhaseOK'
    BY <1>1, <2>1 DEF MemoryInv, PhaseOK, Places
  <2>4. SyncOK'
    BY <1>1, <1>4, <1>7, <2>1 DEF SyncOK, Writing
  <2>5. \A n, i : IsCopy(cache, n, i) => IsCopy(cache', n, i)
    <3>1. Len(cache) \in Nat
      BY <1>2
    <3> QED BY <1>1, <1>5, <3>1 DEF IsCopy
  <2>6. PtrsOK'
    BY <1>1, <1>10, <2>1, <2>5 DEF MemoryInv, PtrsOK
  <2>7. RiskOK'
    BY <1>1, <1>11, <2>1, RiskKept DEF MemoryInv, Writing
  <2> QED BY <1>1, <1>3, <1>4, <2>2, <2>3, <2>4, <2>6, <2>7 DEF MemoryInv
<1> QED BY <1>9, <1>10

\* Every step keeps memory and flash together.
LEMMA MemoryNext == MemoryInv /\ [Next]_vars => MemoryInv'
<1> SUFFICES ASSUME MemoryInv, [Next]_vars PROVE MemoryInv'
  OBVIOUS
<1>1. CASE CommonInitialize
  BY <1>1, MemoryCommonInitialize
<1>2. CASE WriteServiceInitialize \/ ReclaimForOS
  BY <1>2, MemoryReclaim
<1>4. CASE ExitBootServices \/ PowerLoss
  BY <1>4, MemoryPhases
<1>5. ASSUME NEW n \in Names, NEW v \in Values \cup {NoVal}, SetVariable(n, v)
      PROVE  MemoryInv'
  BY <1>5, MemorySetVariable
<1>6. CASE MarkInDeletedTransition \/ DeleteInDeletedTransition
  BY <1>6, MemorySetState
<1>7. CASE HasRoom \/ OutOfResourcesAtRuntime
  BY <1>7, MemoryRoom
<1>8. CASE ReclaimAndAdd
  BY <1>8, MemoryReclaimAndAdd
<1>9. CASE WriteHeader \/ WriteHeaderValid \/ WriteData
  BY <1>9, MemoryWriting
<1>10. CASE WriteAdded
  BY <1>10, MemoryWriteAdded
<1>11. CASE DeleteOld
  BY <1>11, MemoryDeleteOld
<1>12. CASE UNCHANGED vars
  <2> USE <1>12 DEF vars, memory, block
  <2>1. TypeOK' /\ PhaseOK'
    BY DEF MemoryInv, TypeOK, PhaseOK
  <2>2. RiskOK' /\ PtrsOK'
    BY DEF MemoryInv, RiskOK, Endangered, PtrsOK
  <2>3. SyncOK'
    BY DEF MemoryInv, SyncOK, Written
  <2> QED BY <2>1, <2>2, <2>3 DEF MemoryInv
<1> QED BY <1>1, <1>2, <1>4, <1>5, <1>6, <1>7, <1>8, <1>9, <1>10, <1>11, <1>12 DEF Next

\* The bookkeeping of the store, in every state.
THEOREM MemoryInvariant == Spec => []MemoryInv
BY MemoryInit, MemoryNext, PTL DEF Spec

\* The variables have their types, and neither the store nor its bookkeeping
\* goes beyond the space for common variables.
THEOREM TypeCorrect == Spec => []TypeOK
<1>1. MemoryInv => TypeOK
  BY DEF MemoryInv
<1> QED BY <1>1, MemoryInvariant, PTL

\* Between calls the copy in memory is what the flash reads, but for variables
\* updated over a torn header, and the totals are its size: also after an update or
\* a Reclaim that failed.
THEOREM MemoryInSync == Spec => []CacheInSync
<1>1. MemoryInv => CacheInSync
  <2> SUFFICES ASSUME MemoryInv, phase \in {"boot", "runtime"}, ~InCall
               PROVE  /\ DOMAIN cache = DOMAIN AsRead
                      /\ \A i \in DOMAIN cache : cache[i] = AsRead[i] \/ cache[i].name \in unsafe
                      /\ LastVariableOffset = SizeOf(AsRead) /\ CommonVariableTotalSize = SizeOf(AsRead)
    BY DEF CacheInSync
  <2>1. pc \notin Writing /\ phase # "off"
    BY DEF InCall, Writing
  <2>2. /\ cache = flash /\ flash \in Seq(Entry)
        /\ LastVariableOffset = SizeOf(flash) /\ CommonVariableTotalSize = SizeOf(flash)
    BY <2>1, InSync
  <2>3. SizeOf(AsRead) = SizeOf(flash)
    BY <2>2, AsReadFacts
  <2>4. DOMAIN AsRead = DOMAIN flash /\ \A i \in DOMAIN flash : i \notin garbled => AsRead[i] = flash[i]
    BY DEF AsRead
  <2>5. \A i \in garbled : flash[i].name \in unsafe
    BY DEF MemoryInv, RiskOK
  <2> QED BY <2>2, <2>3, <2>4, <2>5
<1> QED BY <1>1, MemoryInvariant, PTL

-----------------------------------------------------------------------------
(* What the store says of a name *)

\* Outside a call there is at most one complete variable of the name and at most
\* one in transition, which is older; the first of these that there is holds v.
Settled(s, n, v) ==
  /\ \A i, j \in Added(s, n) : i = j
  /\ \A i, j \in Trans(s, n) : i = j
  /\ \A i \in Trans(s, n), j \in Added(s, n) : i < j
  /\ \A i \in Added(s, n) : s[i].val = v
  /\ Added(s, n) = {} => \A i \in Trans(s, n) : s[i].val = v
  /\ Added(s, n) = {} /\ Trans(s, n) = {} => v = NoVal

\* FindVariableEx has found c, and the older copy d, if that is not 0.
Found(s, n, c, d, v) ==
  /\ Settled(s, n, v)
  /\ Added(s, n) \cup Trans(s, n) = {c, d} \ {0}
  /\ c # 0
  /\ d # 0 => c \in Added(s, n) /\ d \in Trans(s, n)

\* c is in transition, and the new variable not complete yet.
Replaced(s, n, c, d, v) ==
  /\ Added(s, n) = {} /\ Trans(s, n) = {c, d} \ {0}
  /\ d # 0 => c # 0 /\ d < c
  /\ c = 0 => v = NoVal
  /\ c # 0 => s[c].val = v

\* The new variable is complete, and c and d are still in transition.
Superseded(s, n, c, d, v) ==
  /\ c # 0 /\ c # d
  /\ Trans(s, n) = {c, d} \ {0}
  /\ \E k \in 1..Len(s) : Added(s, n) = {k} /\ c < k /\ d < k /\ s[k].val = v

\* What the store says of the name of a call, at each place of the call, where v
\* is what the calls have brought about so far.
InCallOK(s, n, p, o, v) ==
  LET c == o.CurrPtr
      d == o.InDeletedTransitionPtr
  IN  /\ p = "mark" => Found(s, n, c, d, v) /\ o.val # NoVal /\ o.old = v
      /\ p \in {"room", "writeHeader"} \cup Writing =>
           Replaced(s, n, c, d, v) /\ o.val # NoVal /\ o.old = v
      /\ p = "deleteTransition" =>
           IF o.val = NoVal THEN Found(s, n, c, d, v) ELSE Superseded(s, n, c, d, v) /\ v = o.val
      /\ p = "delete" =>
           IF o.val = NoVal THEN Found(s, n, c, 0, v) ELSE Superseded(s, n, c, 0, v) /\ v = o.val

\* ... and of every name.
NameOK(s, n, p, o, v) ==
  IF p # "idle" /\ n = o.name THEN InCallOK(s, n, p, o, v) ELSE Settled(s, n, v)

ValuesOK == ftw # "half" => \A n \in Sound : NameOK(flash, n, pc, op, committed[n])

\* What a spare block that waits for the next boot says of a name, and that it
\* differs from what the calls have brought about in one update at most.
SpareOK ==
  ftw # "done" =>
    /\ \A n \in Sound : Settled(spare, n, spared[n])
    /\ \A m, n \in {x \in Sound : spared[x] # committed[x]} : m = n

\* What a call has returned is what it has brought about.
StatusOK ==
  op.name \in Sound /\ ftw # "half" =>
    /\ status = "success" => committed[op.name] = op.val
    /\ status = "error" => committed[op.name] = op.old
    /\ status = "aborted" => committed[op.name] \in {op.old, op.val}

ValueInv == ValuesOK /\ SpareOK /\ StatusOK

\* Two stores that say the same of a name.
Same(s, t, n) ==
  /\ Added(s, n) = Added(t, n) /\ Trans(s, n) = Trans(t, n)
  /\ \A i \in Added(s, n) \cup Trans(s, n) : s[i].val = t[i].val

\* They are settled alike, and alike in a call before the new variable is complete.
LEMMA SameFacts ==
  ASSUME NEW s, NEW t, NEW n, Same(s, t, n), NEW v
  PROVE  /\ Settled(s, n, v) => Settled(t, n, v)
         /\ Settled(t, n, v) => Settled(s, n, v)
         /\ \A c, d : Replaced(s, n, c, d, v) => Replaced(t, n, c, d, v)
         /\ \A c, d : Replaced(t, n, c, d, v) => Replaced(s, n, c, d, v)
<1>1. Settled(s, n, v) => Settled(t, n, v)
  BY DEF Same, Settled
<1>2. Settled(t, n, v) => Settled(s, n, v)
  BY DEF Same, Settled
<1>3. ASSUME NEW c, NEW d, Replaced(s, n, c, d, v)
      PROVE  Replaced(t, n, c, d, v)
  <2>1. c # 0 => c \in Trans(s, n)
    BY <1>3 DEF Replaced
  <2> QED BY <1>3, <2>1 DEF Same, Replaced
<1>4. ASSUME NEW c, NEW d, Replaced(t, n, c, d, v)
      PROVE  Replaced(s, n, c, d, v)
  <2>1. c # 0 => c \in Trans(t, n)
    BY <1>4 DEF Replaced
  <2> QED BY <1>4, <2>1 DEF Same, Replaced
<1> QED BY <1>1, <1>2, <1>3, <1>4

\* A change of a state byte concerns one name ...
LEMMA RestatedOthers ==
  ASSUME NEW s \in Seq(Entry), NEW i \in 1..Len(s), NEW state \in State, NEW m, m # s[i].name
  PROVE  Same(s, Restated(s, i, state), m)
<1> DEFINE t == Restated(s, i, state)
<1>1. /\ t \in Seq(Entry) /\ Len(t) = Len(s)
      /\ \A j \in 1..Len(s) : /\ t[j].name = s[j].name /\ t[j].val = s[j].val
                              /\ t[j].state = IF j = i THEN state ELSE s[j].state
  BY RestatedFacts
<1> HIDE DEF t
<1>2. DOMAIN t = 1..Len(s) /\ DOMAIN s = 1..Len(s)
  BY <1>1
<1>3. Added(s, m) = Added(t, m) /\ Trans(s, m) = Trans(t, m)
  BY <1>1, <1>2 DEF Added, Trans, InState
<1>4. Added(s, m) \cup Trans(s, m) \subseteq 1..Len(s)
  BY PositionFacts
<1>5. Same(s, t, m)
  BY <1>1, <1>3, <1>4 DEF Same
<1> QED BY <1>5 DEF t

\* ... and there it moves the variable from one set to the other, or out of both.
LEMMA RestatedName ==
  ASSUME NEW s \in Seq(Entry), NEW i \in 1..Len(s), NEW n, s[i].name = n,
         NEW state \in {"inDeleted", "deleted"}
  PROVE  /\ Added(Restated(s, i, state), n) = Added(s, n) \ {i}
         /\ state = "inDeleted" => Trans(Restated(s, i, state), n) = Trans(s, n) \cup {i}
         /\ state = "deleted" => Trans(Restated(s, i, state), n) = Trans(s, n) \ {i}
         /\ \A j \in 1..Len(s) : Restated(s, i, state)[j].val = s[j].val
         /\ Len(Restated(s, i, state)) = Len(s)
<1> DEFINE t == Restated(s, i, state)
<1>1. /\ t \in Seq(Entry) /\ Len(t) = Len(s)
      /\ \A j \in 1..Len(s) : /\ t[j].name = s[j].name /\ t[j].val = s[j].val
                              /\ t[j].state = IF j = i THEN state ELSE s[j].state
  <2>1. state \in State
    BY DEF State
  <2> QED BY <2>1, RestatedFacts
<1> HIDE DEF t
<1>2. DOMAIN t = 1..Len(s) /\ DOMAIN s = 1..Len(s)
  BY <1>1
<1>3. /\ Added(t, n) = Added(s, n) \ {i}
      /\ state = "inDeleted" => Trans(t, n) = Trans(s, n) \cup {i}
      /\ state = "deleted" => Trans(t, n) = Trans(s, n) \ {i}
  BY <1>1, <1>2 DEF Added, Trans, InState
<1> QED BY <1>1, <1>3 DEF t

\* A variable written behind the last one concerns its name, and that only when
\* it is complete.
LEMMA AppendSets ==
  ASSUME NEW s \in Seq(Entry), NEW e \in Entry, e.state # "inDeleted"
  PROVE  LET t == Append(s, e)
         IN  /\ \A m : m # e.name => Same(s, t, m)
             /\ e.state # "added" => \A m : Same(s, t, m)
             /\ e.state = "added" => /\ Added(t, e.name) = Added(s, e.name) \cup {Len(s) + 1}
                                     /\ Trans(t, e.name) = Trans(s, e.name)
             /\ t[Len(s) + 1] = e /\ Len(t) = Len(s) + 1 /\ t \in Seq(Entry)
<1> DEFINE t == Append(s, e)
           k == Len(s) + 1
<1>1. /\ t \in Seq(Entry) /\ Len(t) = k /\ t[k] = e /\ Len(s) \in Nat
      /\ \A i \in 1..Len(s) : t[i] = s[i]
  BY AppendProperties
<1> HIDE DEF t
<1>2. DOMAIN t = (1..Len(s)) \cup {k} /\ DOMAIN s = 1..Len(s) /\ k \notin 1..Len(s)
  BY <1>1
<1> HIDE DEF k
<1>3. \A m, x : InState(t, m, x) = IF e.name = m /\ e.state = x THEN InState(s, m, x) \cup {k}
                                   ELSE InState(s, m, x)
  BY <1>1, <1>2 DEF InState
<1>4. ASSUME NEW m, m # e.name \/ e.state # "added"
      PROVE  Same(s, t, m)
  <2>1. Added(s, m) = Added(t, m) /\ Trans(s, m) = Trans(t, m)
    BY <1>3, <1>4 DEF Added, Trans
  <2>2. Added(s, m) \cup Trans(s, m) \subseteq 1..Len(s)
    BY PositionFacts
  <2> QED BY <1>1, <2>1, <2>2 DEF Same
<1>5. e.state = "added" => /\ Added(t, e.name) = Added(s, e.name) \cup {k}
                           /\ Trans(t, e.name) = Trans(s, e.name)
  BY <1>3 DEF Added, Trans
<1> QED BY <1>1, <1>4, <1>5 DEF t, k

\* The variables of one name that Reclaim copies.
KeptOf(s, c, d, n) == {i \in Kept(s, c, d) : s[i].name = n}

\* What the reclaimed store says of a name.
LEMMA LiveNames ==
  ASSUME NEW s \in Seq(Entry), NEW c, NEW d, NEW n
  PROVE  LET live == LiveVariables(s, c, d)
         IN  /\ Trans(live, n) = {}
             /\ (\A i, j \in KeptOf(s, c, d, n) : i = j) => \A k, l \in Added(live, n) : k = l
             /\ \A k \in Added(live, n) : \E i \in KeptOf(s, c, d, n) : live[k].val = s[i].val
             /\ KeptOf(s, c, d, n) # {} => Added(live, n) # {}
<1> DEFINE live == LiveVariables(s, c, d)
           K == Kept(s, c, d)
           O == KeptOf(s, c, d, n)
<1>1. live \in Seq(Entry) /\ \E f \in Bijection(1..Len(live), K) :
        \A k \in 1..Len(live) : live[k] = [s[f[k]] EXCEPT !.state = "added"]
  BY LiveFacts
<1>2. K \subseteq 1..Len(s) /\ \A i \in 1..Len(s) : s[i] \in Entry
  BY DEF Kept, KeptAdded, KeptTransition, InTransition
<1>3. \A i : i \in O <=> i \in K /\ s[i].name = n
  BY DEF KeptOf
<1> HIDE DEF live, K, O
<1>4. PICK f \in Bijection(1..Len(live), K) :
        \A k \in 1..Len(live) : live[k] = [s[f[k]] EXCEPT !.state = "added"]
  BY <1>1
<1>5. /\ \A k \in 1..Len(live) : f[k] \in K
      /\ \A k, l \in 1..Len(live) : f[k] = f[l] => k = l
      /\ \A i \in K : \E k \in 1..Len(live) : f[k] = i
  BY DEF Bijection, Injection, Surjection, IsInjective
<1>6. \A k \in 1..Len(live) : /\ live[k].state = "added"
                              /\ live[k].name = s[f[k]].name /\ live[k].val = s[f[k]].val
  <2>1. \A e \in Entry : /\ [e EXCEPT !.state = "added"].state = "added"
                         /\ [e EXCEPT !.state = "added"].name = e.name
                         /\ [e EXCEPT !.state = "added"].val = e.val
    BY DEF Entry
  <2>2. \A k \in 1..Len(live) : s[f[k]] \in Entry
    BY <1>2, <1>5
  <2>3. ASSUME NEW k \in 1..Len(live)
        PROVE  /\ live[k].state = "added"
               /\ live[k].name = s[f[k]].name /\ live[k].val = s[f[k]].val
    <3>1. PICK e \in Entry : e = s[f[k]]
      BY <2>2
    <3>2. live[k] = [e EXCEPT !.state = "added"]
      BY <1>4, <3>1
    <3> QED BY <2>1, <3>1, <3>2
  <2> QED BY <2>3
<1>7. DOMAIN live = 1..Len(live)
  BY <1>1
<1>8. Trans(live, n) = {}
  BY <1>6, <1>7 DEF Trans, InState
<1>9. \A k : k \in Added(live, n) <=> k \in 1..Len(live) /\ f[k] \in O
  BY <1>3, <1>5, <1>6, <1>7 DEF Added, InState
<1>10. (\A i, j \in O : i = j) => \A k, l \in Added(live, n) : k = l
  BY <1>5, <1>9
<1>11. \A k \in Added(live, n) : \E i \in O : live[k].val = s[i].val
  BY <1>6, <1>9
<1>12. O # {} => Added(live, n) # {}
  BY <1>3, <1>5, <1>9
<1> QED BY <1>8, <1>10, <1>11, <1>12 DEF live, O

\* A name that is not being updated keeps its value over a Reclaim.
LEMMA LiveSettled ==
  ASSUME NEW s \in Seq(Entry), NEW c, NEW d, NEW n, NEW v, Settled(s, n, v),
         c \notin Added(s, n) \cup Trans(s, n), d \notin Added(s, n) \cup Trans(s, n)
  PROVE  Settled(LiveVariables(s, c, d), n, v)
<1> DEFINE live == LiveVariables(s, c, d)
           O == KeptOf(s, c, d, n)
<1>1. DOMAIN s = 1..Len(s)
  OBVIOUS
<1>2. Added(s, n) # {} => O = Added(s, n)
  <2> SUFFICES ASSUME Added(s, n) # {} PROVE O = Added(s, n)
    OBVIOUS
  <2>1. \A i : i \in KeptAdded(s, c) /\ s[i].name = n <=> i \in Added(s, n)
    BY DEF KeptAdded, Added, InState
  <2>2. \A i \in InTransition(s, c, d) : s[i].name # n
    BY <2>1 DEF InTransition
  <2> QED BY <2>1, <2>2 DEF KeptOf, Kept, KeptTransition
<1>3. Added(s, n) = {} => O = Trans(s, n)
  <2> SUFFICES ASSUME Added(s, n) = {} PROVE O = Trans(s, n)
    OBVIOUS
  <2>1. \A i \in KeptAdded(s, c) : s[i].name # n
    BY DEF KeptAdded, Added, InState
  <2>2. \A i : i \in InTransition(s, c, d) /\ s[i].name = n <=> i \in Trans(s, n)
    BY <2>1 DEF InTransition, Trans, InState
  <2>3. \A i, j \in Trans(s, n) : i = j
    BY DEF Settled
  <2>4. \A i \in Trans(s, n) : i \in Nat /\ ~(i < i) /\ s[i].name = n
    BY PositionFacts
  <2>5. \A i \in Trans(s, n), j \in InTransition(s, c, d) : j < i => s[j].name # s[i].name
    BY <2>2, <2>3, <2>4
  <2>6. \A i : i \in KeptTransition(s, c, d) /\ s[i].name = n <=> i \in Trans(s, n)
    BY <2>2, <2>5 DEF KeptTransition
  <2> QED BY <2>1, <2>6 DEF KeptOf, Kept
<1> HIDE DEF O
<1>4. (\A i, j \in O : i = j) /\ (\A i \in O : s[i].val = v) /\ (O = {} => v = NoVal)
  BY <1>2, <1>3 DEF Settled
<1>5. /\ Trans(live, n) = {}
      /\ (\A i, j \in O : i = j) => \A k, l \in Added(live, n) : k = l
      /\ \A k \in Added(live, n) : \E i \in O : live[k].val = s[i].val
      /\ O # {} => Added(live, n) # {}
  BY LiveNames DEF O
<1> HIDE DEF live
<1>6. Settled(live, n, v)
  BY <1>4, <1>5 DEF Settled
<1> QED BY <1>6 DEF live

\* Nothing of the name that is being updated is left by a Reclaim: the caller
\* adds its new variable.
LEMMA LiveReplaced ==
  ASSUME NEW s \in Seq(Entry), NEW c, NEW d, NEW n, NEW v, Replaced(s, n, c, d, v)
  PROVE  Added(LiveVariables(s, c, d), n) = {} /\ Trans(LiveVariables(s, c, d), n) = {}
<1>1. \A i \in KeptAdded(s, c) : s[i].name # n
  BY DEF KeptAdded, Added, InState, Replaced
<1>2. \A i \in InTransition(s, c, d) : s[i].name # n
  BY DEF InTransition, Trans, InState, Replaced
<1>3. KeptOf(s, c, d, n) = {}
  BY <1>1, <1>2 DEF KeptOf, Kept, KeptTransition
<1> QED BY <1>3, LiveNames

-----------------------------------------------------------------------------
(* FindVariableEx and the forms *)

\* Every form says what GetVariable returns.
LEMMA GetFacts ==
  ASSUME NEW s \in Seq(Entry), NEW n, NEW v
  PROVE  /\ Settled(s, n, v) => GetVariable(s, n) = v
         /\ \A c, d : Replaced(s, n, c, d, v) => GetVariable(s, n) = v
         /\ \A c, d : Superseded(s, n, c, d, v) => GetVariable(s, n) = v
<1> DEFINE p == FindVariableEx(s, n).CurrPtr
<1>1. /\ Added(s, n) # {} => p \in Added(s, n)
      /\ Added(s, n) = {} => IF Trans(s, n) = {} THEN p = 0
                             ELSE p \in Trans(s, n) /\ \A i \in Trans(s, n) : i <= p
  BY FindFacts
<1>2. GetVariable(s, n) = IF p = 0 THEN NoVal ELSE s[p].val
  BY DEF GetVariable
<1> HIDE DEF p
<1>3. \A i \in Added(s, n) \cup Trans(s, n) : i # 0 /\ i \in Nat
  BY PositionFacts
<1>4. Settled(s, n, v) => GetVariable(s, n) = v
  BY <1>1, <1>2, <1>3 DEF Settled
<1>5. ASSUME NEW c, NEW d, Replaced(s, n, c, d, v)
      PROVE  GetVariable(s, n) = v
  <2>1. Added(s, n) = {} /\ Trans(s, n) = {c, d} \ {0}
    BY <1>5 DEF Replaced
  <2>2. CASE c = 0
    <3>1. d = 0 /\ v = NoVal
      BY <1>5, <2>2 DEF Replaced
    <3>2. p = 0
      BY <1>1, <2>1, <2>2, <3>1
    <3> QED BY <1>2, <3>1, <3>2
  <2>3. CASE c # 0
    <3>1. c \in Trans(s, n) /\ (d # 0 => d \in Trans(s, n) /\ d < c)
      BY <1>5, <2>1, <2>3 DEF Replaced
    <3>2. p \in {c, d} /\ p # 0 /\ c <= p
      BY <1>1, <2>1, <3>1
    <3>3. p = c
      BY <1>3, <3>1, <3>2
    <3>4. s[c].val = v
      BY <1>5, <2>3 DEF Replaced
    <3> QED BY <1>2, <2>3, <3>3, <3>4
  <2> QED BY <2>2, <2>3
<1>6. ASSUME NEW c, NEW d, Superseded(s, n, c, d, v)
      PROVE  GetVariable(s, n) = v
  <2>1. PICK k \in 1..Len(s) : Added(s, n) = {k} /\ s[k].val = v
    BY <1>6 DEF Superseded
  <2>2. p = k /\ p # 0
    BY <1>1, <1>3, <2>1
  <2> QED BY <1>2, <2>1, <2>2
<1> QED BY <1>4, <1>5, <1>6

\* It returns the same of two stores that say the same.
LEMMA SameGet ==
  ASSUME NEW s \in Seq(Entry), NEW t \in Seq(Entry), NEW n, Same(s, t, n)
  PROVE  GetVariable(t, n) = GetVariable(s, n)
<1> DEFINE p == FindVariableEx(s, n).CurrPtr
<1>1. InState(s, n, "added") = InState(t, n, "added") /\ InState(s, n, "inDeleted") = InState(t, n, "inDeleted")
  BY DEF Same, Added, Trans
<1>2. FindVariableEx(t, n) = FindVariableEx(s, n)
  BY <1>1 DEF FindVariableEx
<1>3. /\ GetVariable(s, n) = IF p = 0 THEN NoVal ELSE s[p].val
      /\ GetVariable(t, n) = IF p = 0 THEN NoVal ELSE t[p].val
  BY <1>2 DEF GetVariable
<1>4. p # 0 => p \in Added(s, n) \cup Trans(s, n)
  BY FindFacts
<1> HIDE DEF p
<1> QED BY <1>3, <1>4 DEF Same

\* What FindVariableEx finds of a settled name.
LEMMA FindSettled ==
  ASSUME NEW s \in Seq(Entry), NEW n, NEW v, Settled(s, n, v)
  PROVE  LET c == FindVariableEx(s, n).CurrPtr
             d == FindVariableEx(s, n).InDeletedTransitionPtr
         IN  IF c = 0 THEN d = 0 /\ Replaced(s, n, c, d, v) ELSE Found(s, n, c, d, v)
<1> DEFINE c == FindVariableEx(s, n).CurrPtr
           d == FindVariableEx(s, n).InDeletedTransitionPtr
<1>1. /\ Added(s, n) # {} =>
           /\ c \in Added(s, n)
           /\ IF {i \in Trans(s, n) : i < c} = {} THEN d = 0
              ELSE d \in Trans(s, n) /\ d < c
      /\ Added(s, n) = {} =>
           /\ IF Trans(s, n) = {} THEN c = 0
              ELSE c \in Trans(s, n)
           /\ d = 0
  BY FindFacts
<1> HIDE DEF c, d
<1>2. \A i \in Added(s, n) \cup Trans(s, n) : i # 0
  BY PositionFacts
<1>3. CASE Added(s, n) # {}
  <2>1. c \in Added(s, n) /\ Added(s, n) = {c} /\ c # 0
    BY <1>1, <1>2, <1>3 DEF Settled
  <2>2. CASE Trans(s, n) = {}
    <3>1. d = 0
      BY <1>1, <1>3, <2>2
    <3>2. Added(s, n) \cup Trans(s, n) = {c, d} \ {0}
      BY <2>1, <2>2, <3>1
    <3>3. Found(s, n, c, d, v)
      BY <2>1, <3>1, <3>2 DEF Found
    <3> QED BY <2>1, <3>3 DEF c, d
  <2>3. CASE Trans(s, n) # {}
    <3>1. \A i \in Trans(s, n) : i < c
      BY <2>1 DEF Settled
    <3>2. d \in Trans(s, n)
      BY <1>1, <1>3, <2>3, <3>1
    <3>3. Trans(s, n) = {d} /\ d # 0
      BY <1>2, <3>2 DEF Settled
    <3>4. Added(s, n) \cup Trans(s, n) = {c, d} \ {0}
      BY <2>1, <3>3
    <3>5. Found(s, n, c, d, v)
      BY <2>1, <3>2, <3>4 DEF Found
    <3> QED BY <2>1, <3>5 DEF c, d
  <2> QED BY <2>2, <2>3
<1>4. CASE Added(s, n) = {}
  <2>1. d = 0
    BY <1>1, <1>4
  <2>2. CASE Trans(s, n) = {}
    <3>1. c = 0
      BY <1>1, <1>4, <2>2
    <3>2. v = NoVal
      BY <1>4, <2>2 DEF Settled
    <3>3. Replaced(s, n, c, d, v)
      BY <1>4, <2>1, <2>2, <3>1, <3>2 DEF Replaced
    <3> QED BY <2>1, <3>1, <3>3 DEF c, d
  <2>3. CASE Trans(s, n) # {}
    <3>1. c \in Trans(s, n) /\ c # 0
      BY <1>1, <1>2, <1>4, <2>3
    <3>2. Trans(s, n) = {c}
      BY <3>1 DEF Settled
    <3>3. Found(s, n, c, d, v)
      BY <1>4, <2>1, <3>1, <3>2 DEF Found
    <3> QED BY <3>1, <3>3 DEF c, d
  <2> QED BY <2>2, <2>3
<1> QED BY <1>3, <1>4

\* A name that is not left with two copies in transition has at most one.
LEMMA NotDoubled ==
  ASSUME NEW s \in Seq(Entry), NEW n \in Names, n \notin Doubled(s)
  PROVE  \A i, j \in Trans(s, n) : i = j
<1> SUFFICES ASSUME NEW i \in Trans(s, n), NEW j \in Trans(s, n), i # j
             PROVE  FALSE
  OBVIOUS
<1>1. Trans(s, n) \in SUBSET (1..Len(s)) /\ Len(s) \in Nat
  BY PositionFacts
<1>2. IsFiniteSet(Trans(s, n))
  <2>1. IsFiniteSet(1..Len(s))
    BY <1>1, FS_Interval
  <2> QED BY <1>1, <2>1, FS_Subset
<1>3. Cardinality(Trans(s, n)) \in Nat
  BY <1>2, FS_CardinalityType
<1>4. Cardinality({i}) = 1 /\ IsFiniteSet({i})
  BY FS_Singleton
<1>5. Cardinality({i} \cup {j}) = 2
  <2>1. Cardinality({i} \cup {j}) = IF j \in {i} THEN Cardinality({i}) ELSE Cardinality({i}) + 1
    BY <1>4, FS_AddElement
  <2>2. j \notin {i}
    OBVIOUS
  <2>3. Cardinality({i} \cup {j}) = Cardinality({i}) + 1
    BY <2>1, <2>2
  <2> DEFINE one == Cardinality({i})
             two == Cardinality({i} \cup {j})
  <2>4. one = 1 /\ two = one + 1
    BY <1>4, <2>3
  <2> HIDE DEF one, two
  <2>5. two = 2
    BY ONLY <2>4
  <2> QED BY <2>5 DEF two
<1>6. Cardinality({i} \cup {j}) <= Cardinality(Trans(s, n))
  <2>1. {i} \cup {j} \in SUBSET Trans(s, n)
    OBVIOUS
  <2> QED BY <1>2, <2>1, FS_Subset
<1>7. ~(Cardinality(Trans(s, n)) > 1)
  BY DEF Doubled, Trans
<1> DEFINE a == Cardinality({i} \cup {j})
           b == Cardinality(Trans(s, n))
<1>8. a = 2 /\ b \in Nat /\ a <= b /\ ~(b > 1)
  BY ONLY <1>3, <1>5, <1>6, <1>7 DEF a, b
<1> HIDE DEF a, b
<1> QED BY ONLY <1>8

\* A call that ends early, with the store as it is, leaves the name settled
\* unless it leaves two copies in transition.
LEMMA CallSettles ==
  ASSUME NEW s \in Seq(Entry), NEW n \in Names, n \notin Doubled(s),
         NEW p \in Places, p # "idle", NEW o, NEW v, InCallOK(s, n, p, o, v)
  PROVE  Settled(s, n, v)
<1>0. /\ \A i, j \in Trans(s, n) : i = j
      /\ \A i \in Trans(s, n) : i \in Nat
  BY NotDoubled, PositionFacts
<1>1. \A c, d : Found(s, n, c, d, v) => Settled(s, n, v)
  BY DEF Found
<1>2. ASSUME NEW c, NEW d, Replaced(s, n, c, d, v)
      PROVE  Settled(s, n, v)
  <2>1. Added(s, n) = {} /\ Trans(s, n) = {c, d} \ {0}
    BY <1>2 DEF Replaced
  <2>2. d = 0
    <3> SUFFICES ASSUME d # 0 PROVE FALSE
      OBVIOUS
    <3>1. c \in Trans(s, n) /\ d \in Trans(s, n) /\ d < c
      BY <1>2, <2>1 DEF Replaced
    <3> QED BY <1>0, <3>1
  <2>3. \A i \in Trans(s, n) : i = c /\ c # 0
    BY <2>1, <2>2
  <2>4. Trans(s, n) = {} => c = 0
    BY <2>1
  <2> QED BY <1>0, <1>2, <2>1, <2>3, <2>4 DEF Settled, Replaced
<1>3. ASSUME NEW c, NEW d, Superseded(s, n, c, d, v)
      PROVE  Settled(s, n, v)
  <2>1. PICK k \in 1..Len(s) : Added(s, n) = {k} /\ c < k /\ d < k /\ s[k].val = v
    BY <1>3 DEF Superseded
  <2>2. \A i \in Trans(s, n) : i < k
    BY <1>3, <2>1 DEF Superseded
  <2> QED BY <1>0, <2>1, <2>2 DEF Settled
<1> QED BY <1>1, <1>2, <1>3 DEF InCallOK, Places

\* The old variable is marked.
LEMMA MarkForm ==
  ASSUME NEW s \in Seq(Entry), NEW c \in 1..Len(s), NEW d, NEW n, NEW v,
         s[c].name = n, Found(s, n, c, d, v)
  PROVE  Replaced(Restated(s, c, "inDeleted"), n, c, d, v)
<1> DEFINE t == Restated(s, c, "inDeleted")
<1>1. /\ Added(t, n) = Added(s, n) \ {c} /\ Trans(t, n) = Trans(s, n) \cup {c}
      /\ t[c].val = s[c].val
  BY RestatedName
<1> HIDE DEF t
<1>2. /\ c # 0 /\ Added(s, n) \cup Trans(s, n) = {c, d} \ {0} /\ Settled(s, n, v)
      /\ d # 0 => c \in Added(s, n) /\ d \in Trans(s, n)
  BY DEF Found
<1>3. Added(s, n) \cap Trans(s, n) = {}
  BY DEF Added, Trans, InState
<1>4. Added(t, n) = {} /\ Trans(t, n) = {c, d} \ {0}
  <2>1. CASE d = 0
    BY <1>1, <1>2, <2>1
  <2>2. CASE d # 0
    BY <1>1, <1>2, <1>3, <2>2 DEF Settled
  <2> QED BY <2>1, <2>2
<1>5. d # 0 => d < c
  BY <1>2 DEF Settled
<1>6. s[c].val = v
  <2>1. CASE c \in Added(s, n)
    BY <1>2, <2>1 DEF Settled
  <2>2. CASE c \notin Added(s, n)
    <3>1. d = 0 /\ c \in Trans(s, n) /\ Added(s, n) = {}
      BY <1>2, <2>2
    <3> QED BY <1>2, <3>1 DEF Settled
  <2> QED BY <2>1, <2>2
<1>7. Replaced(t, n, c, d, v)
  BY <1>1, <1>2, <1>4, <1>5, <1>6 DEF Replaced
<1> QED BY <1>7 DEF t

\* The older copy is deleted, before a new variable is written or after.
LEMMA DropOlder ==
  ASSUME NEW s \in Seq(Entry), NEW c, NEW d \in 1..Len(s), NEW n, NEW v, s[d].name = n
  PROVE  /\ Found(s, n, c, d, v) => Found(Restated(s, d, "deleted"), n, c, 0, v)
         /\ Superseded(s, n, c, d, v) => Superseded(Restated(s, d, "deleted"), n, c, 0, v)
<1> DEFINE t == Restated(s, d, "deleted")
<1>1. /\ Added(t, n) = Added(s, n) \ {d} /\ Trans(t, n) = Trans(s, n) \ {d}
      /\ Len(t) = Len(s) /\ \A j \in 1..Len(s) : t[j].val = s[j].val
  BY RestatedName
<1> HIDE DEF t
<1>2. Added(s, n) \subseteq 1..Len(s) /\ Trans(s, n) \subseteq 1..Len(s) /\ d # 0 /\ d \in Nat
  BY PositionFacts
<1>3. Added(s, n) \cap Trans(s, n) = {}
  BY DEF Added, Trans, InState
<1>4. ASSUME Found(s, n, c, d, v)
      PROVE  Found(t, n, c, 0, v)
  <2>1. /\ Settled(s, n, v) /\ Added(s, n) \cup Trans(s, n) = {c, d} /\ c # 0
        /\ c \in Added(s, n) /\ d \in Trans(s, n)
    BY <1>2, <1>4 DEF Found
  <2>2. Added(s, n) = {c} /\ Trans(s, n) = {d} /\ c # d /\ s[c].val = v
    BY <1>3, <2>1 DEF Settled
  <2>3. Added(t, n) = {c} /\ Trans(t, n) = {}
    BY <1>1, <2>2
  <2>4. t[c].val = v
    BY <1>1, <1>2, <2>1, <2>2
  <2>5. Settled(t, n, v)
    BY <2>3, <2>4 DEF Settled
  <2> QED BY <2>1, <2>3, <2>5 DEF Found
<1>5. ASSUME Superseded(s, n, c, d, v)
      PROVE  Superseded(t, n, c, 0, v)
  <2>1. PICK k \in 1..Len(s) : Added(s, n) = {k} /\ c < k /\ d < k /\ s[k].val = v
    BY <1>5 DEF Superseded
  <2>2. c # 0 /\ c # d /\ Trans(s, n) = {c, d}
    BY <1>2, <1>5 DEF Superseded
  <2>3. Trans(t, n) = {c, 0} \ {0} /\ Added(t, n) = {k} /\ 0 < k /\ t[k].val = v /\ k \in 1..Len(t)
    BY <1>1, <1>2, <2>1, <2>2
  <2> QED BY <2>1, <2>2, <2>3 DEF Superseded
<1> QED BY <1>4, <1>5 DEF t

\* The old variable is deleted, to delete it or because there is a new one.
LEMMA DropOld ==
  ASSUME NEW s \in Seq(Entry), NEW c \in 1..Len(s), NEW n, NEW v, s[c].name = n
  PROVE  /\ Found(s, n, c, 0, v) => Settled(Restated(s, c, "deleted"), n, NoVal)
         /\ Superseded(s, n, c, 0, v) => Settled(Restated(s, c, "deleted"), n, v)
<1> DEFINE t == Restated(s, c, "deleted")
<1>1. /\ Added(t, n) = Added(s, n) \ {c} /\ Trans(t, n) = Trans(s, n) \ {c}
      /\ Len(t) = Len(s) /\ \A j \in 1..Len(s) : t[j].val = s[j].val
  BY RestatedName
<1> HIDE DEF t
<1>2. c # 0 /\ c \in Nat
  OBVIOUS
<1>3. ASSUME Found(s, n, c, 0, v)
      PROVE  Settled(t, n, NoVal)
  <2>1. Added(t, n) = {} /\ Trans(t, n) = {}
    BY <1>1, <1>3 DEF Found
  <2> QED BY <2>1 DEF Settled
<1>4. ASSUME Superseded(s, n, c, 0, v)
      PROVE  Settled(t, n, v)
  <2>1. PICK k \in 1..Len(s) : Added(s, n) = {k} /\ c < k /\ s[k].val = v
    BY <1>4 DEF Superseded
  <2>2. Trans(s, n) = {c}
    BY <1>2, <1>4 DEF Superseded
  <2>3. k # c
    BY <1>2, <2>1
  <2>4. Added(t, n) = {k} /\ Trans(t, n) = {} /\ t[k].val = v
    BY <1>1, <2>1, <2>2, <2>3
  <2> QED BY <2>4 DEF Settled
<1> QED BY <1>3, <1>4 DEF t

\* The new variable is complete.
LEMMA AddForm ==
  ASSUME NEW s \in Seq(Entry), NEW e \in Entry, e.state = "added", NEW c, NEW d, NEW v,
         Replaced(s, e.name, c, d, v)
  PROVE  /\ c = 0 => Settled(Append(s, e), e.name, e.val)
         /\ c # 0 => Superseded(Append(s, e), e.name, c, d, e.val)
<1> DEFINE t == Append(s, e)
           n == e.name
           k == Len(s) + 1
<1>1. /\ Added(t, n) = Added(s, n) \cup {k} /\ Trans(t, n) = Trans(s, n)
      /\ t[k] = e /\ Len(t) = k
  BY AppendSets
<1>2. /\ Added(s, n) = {} /\ Trans(s, n) = {c, d} \ {0}
      /\ d # 0 => c # 0 /\ d < c
  BY DEF Replaced
<1>3. /\ Trans(s, n) \subseteq 1..Len(s) /\ Len(s) \in Nat
  BY PositionFacts
<1> HIDE DEF t, n
<1>4. k \in 1..Len(t) /\ \A i \in 1..Len(s) : i < k
  BY <1>1, <1>3
<1>5. 0 < k
  BY <1>3
<1> HIDE DEF k
<1>6. ASSUME c = 0
      PROVE  Settled(t, n, e.val)
  <2>1. Trans(t, n) = {} /\ Added(t, n) = {k}
    BY <1>1, <1>2, <1>6
  <2> QED BY <1>1, <2>1 DEF Settled
<1>7. ASSUME c # 0
      PROVE  Superseded(t, n, c, d, e.val)
  <2>1. c \in Trans(s, n) /\ (d # 0 => d \in Trans(s, n))
    BY <1>2, <1>7
  <2>2. c < k /\ d < k
    BY <1>3, <1>4, <1>5, <2>1
  <2>3. c # d
    BY <1>2, <1>3, <1>7, <2>1
  <2>4. Added(t, n) = {k} /\ Trans(t, n) = {c, d} \ {0}
    BY <1>1, <1>2
  <2> QED BY <1>1, <1>4, <1>7, <2>2, <2>3, <2>4 DEF Superseded
<1> QED BY <1>6, <1>7 DEF t, n

\* A new variable of a name that was not there.
LEMMA AddToLive ==
  ASSUME NEW s \in Seq(Entry), NEW e \in Entry, e.state = "added",
         Added(s, e.name) = {}, Trans(s, e.name) = {}
  PROVE  Settled(Append(s, e), e.name, e.val)
<1> DEFINE t == Append(s, e)
           k == Len(s) + 1
<1>1. Added(t, e.name) = {k} /\ Trans(t, e.name) = {} /\ t[k] = e
  BY AppendSets
<1> HIDE DEF t, k
<1>2. Settled(t, e.name, e.val)
  BY <1>1 DEF Settled
<1> QED BY <1>2 DEF t

-----------------------------------------------------------------------------
(* The values through every step *)

\* Nothing has been stored, and nothing is there.
LEMMA ValueInit == Init => ValueInv
<1> SUFFICES ASSUME Init PROVE ValueInv
  OBVIOUS
<1>1. ASSUME NEW n \in Names
      PROVE  Settled(flash, n, committed[n])
  <2>1. Added(flash, n) = {} /\ Trans(flash, n) = {}
    BY DEF Init, Added, Trans, InState
  <2>2. committed[n] = NoVal
    BY DEF Init
  <2> QED BY <2>1, <2>2 DEF Settled
<1>2. ValuesOK
  BY <1>1 DEF ValuesOK, NameOK, Init, Sound
<1>3. StatusOK /\ SpareOK
  BY DEF StatusOK, SpareOK, Init
<1> QED BY <1>2, <1>3 DEF ValueInv

\* Outside a call every name is settled.
LEMMA IdleSettled ==
  ASSUME ValueInv, pc = "idle", ftw # "half", NEW n \in Sound
  PROVE  Settled(flash, n, committed[n])
BY DEF ValueInv, ValuesOK, NameOK

\* In a call, so are the others.
LEMMA OthersSettled ==
  ASSUME ValueInv, ftw # "half", NEW n \in Sound, n # op.name
  PROVE  Settled(flash, n, committed[n])
BY DEF ValueInv, ValuesOK, NameOK

\* Of a name that is not at risk the flash reads what was programmed.
LEMMA ReadSame ==
  ASSUME MemoryInv, NEW n \in Names, n \notin unsafe
  PROVE  Same(flash, AsRead, n) /\ AsRead \in Seq(Entry)
<1> DEFINE t == AsRead
<1>1. flash \in Seq(Entry) /\ \A i \in garbled : flash[i].name # n
  BY DEF MemoryInv, TypeOK, RiskOK
<1>2. /\ t \in Seq(Entry) /\ Len(t) = Len(flash)
      /\ \A i \in 1..Len(flash) :
           /\ t[i].state = flash[i].state /\ t[i].val = flash[i].val
           /\ t[i].name = IF i \in garbled THEN NoName ELSE flash[i].name
  BY <1>1, AsReadFacts
<1>3. n # NoName
  BY ConstantsAssumption
<1> HIDE DEF t
<1>4. DOMAIN t = 1..Len(flash) /\ DOMAIN flash = 1..Len(flash)
  BY <1>1, <1>2
<1>5. \A i \in 1..Len(flash) : t[i].name = n <=> flash[i].name = n
  BY <1>1, <1>2, <1>3
<1>6. Added(flash, n) = Added(t, n) /\ Trans(flash, n) = Trans(t, n)
  BY <1>2, <1>4, <1>5 DEF Added, Trans, InState
<1>7. Added(flash, n) \cup Trans(flash, n) \subseteq 1..Len(flash)
  BY <1>1, PositionFacts
<1>8. Same(flash, t, n)
  BY <1>2, <1>6, <1>7 DEF Same
<1> QED BY <1>2, <1>8 DEF t

\* The fault tolerant write of a store in which every name is settled, where its
\* old one is, succeeds or fails.
LEMMA ValueFtw ==
  ASSUME NEW s, NEW contents, FtwWrite(s, contents), pc' = "idle", SpareOK, Sound' \subseteq Sound,
         ftw = "done" => \A n \in Sound' : Settled(s, n, contents[n]),
         ftw # "half" /\ flash' = AsRead => \A n \in Sound' : Settled(AsRead, n, committed[n]),
         ftw = "done" => \A m, n \in {x \in Sound' : contents[x] # committed[x]} : m = n
  PROVE  ValuesOK' /\ SpareOK'
<1> DEFINE Good == \A n \in Sound' : Settled(flash', n, committed'[n])
<1>0. (ftw' # "half" => Good) => ValuesOK'
  BY DEF ValuesOK, NameOK
<1>1. CASE /\ ftw = "done" /\ flash' = s /\ committed' = contents /\ UNCHANGED block
  <2>1. ftw' = "done"
    BY <1>1 DEF block
  <2> QED BY <1>0, <1>1, <2>1 DEF SpareOK
<1>2. CASE flash' = AsRead /\ UNCHANGED <<block, committed>>
  <2>1. UNCHANGED <<ftw, spare, spared>>
    BY <1>2 DEF block
  <2>2. SpareOK'
    BY <1>2, <2>1 DEF SpareOK
  <2>3. ftw' # "half" => Good
    BY <1>2, <2>1
  <2> QED BY <1>0, <2>2, <2>3
<1>3. CASE /\ ftw = "done" /\ spare' = s /\ spared' = contents
           /\ \/ ftw' = "spare" /\ flash' = AsRead /\ committed' = committed
              \/ ftw' = "half" /\ committed' = committed
              \/ ftw' = "spare" /\ flash' = s /\ committed' = contents
  <2>1. \A n \in Sound' : Settled(spare', n, spared'[n])
    BY <1>3
  <2>2. \A m, n \in {x \in Sound' : spared'[x] # committed'[x]} : m = n
    BY <1>3
  <2>3. SpareOK'
    BY <2>1, <2>2 DEF SpareOK
  <2>4. ftw' # "half" => Good
    BY <1>3
  <2> QED BY <1>0, <2>3, <2>4
<1>4. \/ /\ ftw = "done" /\ flash' = s /\ committed' = contents /\ UNCHANGED block
      \/ flash' = AsRead /\ UNCHANGED <<block, committed>>
      \/ /\ ftw = "done" /\ spare' = s /\ spared' = contents
         /\ \/ ftw' = "spare" /\ flash' = AsRead /\ committed' = committed
            \/ ftw' = "half" /\ committed' = committed
            \/ ftw' = "spare" /\ flash' = s /\ committed' = contents
  BY DEF FtwWrite, FtwVariableSpace, FtwVariableSpaceError, Reread
<1> QED BY <1>1, <1>2, <1>3, <1>4

\* The store is parsed, or the spare block in its place.
LEMMA ValueCommonInitialize ==
  ASSUME MemoryInv, ValueInv, CommonInitialize
  PROVE  ValueInv'
<1>1. /\ pc = "idle" /\ pc' = "idle" /\ status = "none" /\ status' = "none" /\ ftw' = "done"
      /\ UNCHANGED <<doubled, unsafe>>
  BY DEF MemoryInv, PhaseOK, CommonInitialize
<1>2. Sound' = Sound
  BY <1>1 DEF Sound
<1>3. ASSUME NEW n \in Sound
      PROVE  Settled(flash', n, committed'[n])
  <2>1. CASE ftw = "done"
    <3>1. flash' = flash /\ committed' = committed
      BY <2>1 DEF CommonInitialize, Reread
    <3> QED BY <1>1, <2>1, <3>1, IdleSettled
  <2>2. CASE ftw # "done"
    <3>1. flash' = spare /\ committed' = spared
      BY <2>2 DEF CommonInitialize, Reread
    <3> QED BY <2>2, <3>1 DEF ValueInv, SpareOK
  <2> QED BY <2>1, <2>2
<1>4. ValuesOK'
  BY <1>1, <1>2, <1>3 DEF ValuesOK, NameOK
<1>5. StatusOK' /\ SpareOK'
  BY <1>1 DEF StatusOK, SpareOK
<1> QED BY <1>4, <1>5 DEF ValueInv

\* The write service starts, or ReclaimForOS is called, or boot services end.
LEMMA ValueStart ==
  ASSUME MemoryInv, ValueInv, WriteServiceInitialize \/ ReclaimForOS \/ ExitBootServices
  PROVE  ValueInv'
<1> DEFINE live == LiveVariables(AsRead, 0, 0)
<1>1. pc = "idle" /\ pc' = "idle" /\ UNCHANGED <<op, status, doubled, unsafe>>
  <2>1. pc = "idle"
    BY DEF MemoryInv, PhaseOK, WriteServiceInitialize, ReclaimForOS, ExitBootServices
  <2> QED BY <2>1 DEF WriteServiceInitialize, ReclaimForOS, ExitBootServices
<1>2. Sound' = Sound
  BY <1>1 DEF Sound
<1>3. FtwWrite(live, committed) \/ UNCHANGED <<flash, block, committed>>
  BY DEF WriteServiceInitialize, ReclaimForOS, ExitBootServices, FtwWrite
<1>4. CASE FtwWrite(live, committed)
  <2>1. ASSUME NEW n \in Sound, ftw # "half"
        PROVE  Settled(AsRead, n, committed[n]) /\ Settled(live, n, committed[n])
    <3>1. Settled(flash, n, committed[n])
      BY <1>1, <2>1, IdleSettled
    <3>2. Same(flash, AsRead, n) /\ AsRead \in Seq(Entry)
      BY ReadSame DEF Sound
    <3>3. Settled(AsRead, n, committed[n])
      BY <3>1, <3>2, SameFacts
    <3>4. 0 \notin Added(AsRead, n) \cup Trans(AsRead, n)
      BY <3>2, PositionFacts
    <3>5. Settled(LiveVariables(AsRead, 0, 0), n, committed[n])
      BY <3>2, <3>3, <3>4, LiveSettled
    <3> QED BY <3>3, <3>5
  <2>2. ValuesOK' /\ SpareOK'
    <3>1. SpareOK /\ Sound' \subseteq Sound
      BY <1>2 DEF ValueInv
    <3>2. ftw = "done" => \A n \in Sound' : Settled(live, n, committed[n])
      BY <1>2, <2>1
    <3>3. ftw # "half" => \A n \in Sound' : Settled(AsRead, n, committed[n])
      BY <1>2, <2>1
    <3> HIDE DEF live
    <3> QED BY <1>1, <1>4, <3>1, <3>2, <3>3, ValueFtw
  <2>3. committed' = committed /\ (ftw = "half" => ftw' = "half")
    BY <1>4 DEF FtwWrite, FtwVariableSpace, FtwVariableSpaceError, block
  <2>4. StatusOK'
    BY <1>1, <1>2, <2>3 DEF ValueInv, StatusOK
  <2> QED BY <2>2, <2>4 DEF ValueInv
<1>5. CASE UNCHANGED <<flash, block, committed>>
  <2>1. UNCHANGED <<ftw, spare, spared>>
    BY <1>5 DEF block
  <2>2. ValuesOK' /\ StatusOK'
    BY <1>1, <1>2, <1>5, <2>1 DEF ValueInv, ValuesOK, StatusOK
  <2>3. SpareOK'
    BY <1>2, <1>5, <2>1 DEF ValueInv, SpareOK
  <2> QED BY <2>2, <2>3 DEF ValueInv
<1> QED BY <1>3, <1>4, <1>5

\* A call, if there is one, ends with the store as it is: every name is settled
\* that is not left with two copies in transition.
LEMMA ValueEnds ==
  ASSUME MemoryInv, ValueInv, ftw # "half", NEW n \in Sound, n \notin Doubled(flash)
  PROVE  Settled(flash, n, committed[n])
<1>1. CASE pc # "idle" /\ n = op.name
  <2>1. InCallOK(flash, n, pc, op, committed[n])
    BY <1>1 DEF ValueInv, ValuesOK, NameOK
  <2>2. flash \in Seq(Entry) /\ pc \in Places /\ n \in Names
    BY DEF MemoryInv, TypeOK, PhaseOK, Sound
  <2> QED BY <1>1, <2>1, <2>2, CallSettles
<1>2. CASE ~(pc # "idle" /\ n = op.name)
  BY <1>2 DEF ValueInv, ValuesOK, NameOK
<1> QED BY <1>1, <1>2

\* The same of what the flash reads.
LEMMA ValueEndsRead ==
  ASSUME MemoryInv, ValueInv, ftw # "half", NEW n \in Sound, n \notin Doubled(AsRead)
  PROVE  Settled(AsRead, n, committed[n])
<1>1. n \in Names /\ n \notin unsafe
  BY DEF Sound
<1>2. Same(flash, AsRead, n)
  BY <1>1, ReadSame
<1>3. Trans(flash, n) = Trans(AsRead, n)
  BY <1>2 DEF Same
<1>4. n \notin Doubled(flash)
  BY <1>1, <1>3 DEF Doubled, Trans
<1>5. Settled(flash, n, committed[n])
  BY <1>4, ValueEnds
<1> QED BY <1>2, <1>5, SameFacts

\* Power is lost, wherever the call is.
LEMMA ValuePowerLoss ==
  ASSUME MemoryInv, ValueInv, PowerLoss
  PROVE  ValueInv'
<1>1. /\ pc' = "idle" /\ status' = "none" /\ doubled' = doubled \cup Doubled(AsRead)
      /\ flash' = AsRead /\ UNCHANGED <<block, committed, unsafe>>
  BY DEF PowerLoss
<1>2. Sound' \subseteq Sound /\ (\A n \in Sound' : n \notin Doubled(AsRead)) /\ ftw' = ftw
  BY <1>1 DEF Sound, block
<1>3. ValuesOK'
  BY <1>1, <1>2, ValueEndsRead DEF ValuesOK, NameOK
<1>4. StatusOK'
  BY <1>1 DEF StatusOK
<1>5. SpareOK'
  BY <1>1, <1>2 DEF ValueInv, SpareOK, block
<1> QED BY <1>3, <1>4, <1>5 DEF ValueInv

\* The call returns an error with the store as it is: the name has its old value.
LEMMA ValueFails ==
  ASSUME MemoryInv, ValueInv, pc = "room", flash' = flash \/ flash' = AsRead,
         UNCHANGED <<block, committed, unsafe>>, Return("error")
  PROVE  ValueInv'
<1>1. /\ pc' = "idle" /\ status' = "error" /\ doubled' = doubled \cup Doubled(flash')
      /\ op'.name = op.name /\ op'.old = op.old
  BY ReturnFacts
<1>2. Sound' \subseteq Sound /\ (\A n \in Sound' : n \notin Doubled(flash')) /\ ftw' = ftw
  BY <1>1 DEF Sound, block
<1>3. ASSUME NEW n \in Sound', ftw # "half"
      PROVE  Settled(flash', n, committed[n])
  BY <1>2, <1>3, ValueEnds, ValueEndsRead
<1>4. ValuesOK'
  BY <1>1, <1>2, <1>3 DEF ValuesOK, NameOK
<1>5. StatusOK'
  <2>1. ASSUME op.name \in Sound, ftw # "half" PROVE committed[op.name] = op.old
    <3>1. InCallOK(flash, op.name, pc, op, committed[op.name])
      BY <2>1 DEF ValueInv, ValuesOK, NameOK
    <3> QED BY <3>1 DEF InCallOK
  <2> QED BY <1>1, <1>2, <2>1 DEF StatusOK
<1>6. SpareOK'
  BY <1>2 DEF ValueInv, SpareOK, block
<1> QED BY <1>4, <1>5, <1>6 DEF ValueInv

\* A step of a call concerns the spare block only in a name that is at risk.
LEMMA CallKeepsSpare ==
  ASSUME MemoryInv, SpareOK, pc # "idle", UNCHANGED <<block, unsafe>>, doubled \subseteq doubled',
         committed' = [committed EXCEPT ![op.name] = op.val]
  PROVE  SpareOK'
<1>1. UNCHANGED <<ftw, spare, spared>> /\ Sound' \subseteq Sound /\ Sound' \subseteq Names \ unsafe
  BY DEF block, Sound
<1> SUFFICES ASSUME ftw # "done" PROVE SpareOK'
  BY <1>1 DEF SpareOK
<1>2. op.name \in unsafe
  BY DEF MemoryInv, RiskOK, Endangered
<1>3. committed \in [Names -> Values \cup {NoVal}]
  BY DEF MemoryInv, TypeOK
<1>4. \A m \in Sound' : committed'[m] = committed[m]
  BY <1>1, <1>2, <1>3
<1> QED BY <1>1, <1>4 DEF SpareOK

\* SetVariable finds what the calls have brought about.
LEMMA ValueSetVariable ==
  ASSUME MemoryInv, ValueInv,
         NEW n \in Names, NEW v \in Values \cup {NoVal}, SetVariable(n, v)
  PROVE  ValueInv'
<1> DEFINE c == FindVariableEx(cache, n).CurrPtr
           d == FindVariableEx(cache, n).InDeletedTransitionPtr
           old == GetVariable(cache, n)
<1>1. /\ phase \in {"boot", "runtime"} /\ pc = "idle" /\ pc \notin Writing
      /\ op' = [name |-> n, val |-> v, old |-> old, CurrPtr |-> c, InDeletedTransitionPtr |-> d]
      /\ pc' = IF v = old THEN "idle"
               ELSE IF v # NoVal THEN IF c # 0 THEN "mark" ELSE "room"
               ELSE IF d # 0 THEN "deleteTransition" ELSE "delete"
      /\ status' = IF v # old THEN "none" ELSE IF v = NoVal THEN "error" ELSE "success"
      /\ UNCHANGED <<flash, block, committed, doubled>> /\ unsafe \subseteq unsafe'
  BY DEF SetVariable, Writing
<1>0. Sound' \subseteq Sound /\ ftw' = ftw
  BY <1>1 DEF Sound, block
<1>2. cache = flash /\ flash \in Seq(Entry)
  BY <1>1, InSync
<1>3. ASSUME n \in Sound, ftw # "half"
      PROVE  /\ old = committed[n]
             /\ IF c = 0 THEN d = 0 /\ Replaced(flash, n, c, d, committed[n])
                ELSE Found(flash, n, c, d, committed[n])
             /\ c = 0 => old = NoVal
  <2>1. Settled(flash, n, committed[n])
    BY <1>1, <1>3, IdleSettled
  <2>2. old = committed[n]
    BY <1>2, <2>1, GetFacts
  <2>3. IF c = 0 THEN d = 0 /\ Replaced(flash, n, c, d, committed[n])
        ELSE Found(flash, n, c, d, committed[n])
    BY <1>2, <2>1, FindSettled
  <2>4. c = 0 => old = NoVal
    BY DEF GetVariable
  <2> QED BY <2>2, <2>3, <2>4
<1> HIDE DEF c, d, old
<1>4. /\ op'.name = n /\ op'.val = v /\ op'.old = old
      /\ op'.CurrPtr = c /\ op'.InDeletedTransitionPtr = d
  BY <1>1
<1>5. ASSUME NEW m \in Sound, ftw # "half"
      PROVE  NameOK(flash, m, pc', op', committed[m])
  <2>1. CASE pc' = "idle" \/ m # n
    <3>1. Settled(flash, m, committed[m])
      BY <1>1, <1>5, IdleSettled
    <3> QED BY <1>4, <2>1, <3>1 DEF NameOK
  <2>2. CASE pc' # "idle" /\ m = n
    <3>1. v # old /\ n \in Sound
      BY <1>1, <1>5, <2>2
    <3>2. CASE v # NoVal /\ c # 0
      <4>1. pc' = "mark"
        BY <1>1, <3>1, <3>2
      <4>2. Found(flash, n, c, d, committed[n]) /\ old = committed[n]
        BY <1>3, <1>5, <3>1, <3>2
      <4> QED BY <1>4, <2>2, <3>2, <4>1, <4>2 DEF NameOK, InCallOK, Writing
    <3>3. CASE v # NoVal /\ c = 0
      <4>1. pc' = "room"
        BY <1>1, <3>1, <3>3
      <4>2. Replaced(flash, n, c, d, committed[n]) /\ old = committed[n]
        BY <1>3, <1>5, <3>1, <3>3
      <4> QED BY <1>4, <2>2, <3>3, <4>1, <4>2 DEF NameOK, InCallOK
    <3>4. CASE v = NoVal
      <4>1. c # 0 /\ Found(flash, n, c, d, committed[n])
        BY <1>3, <1>5, <3>1, <3>4
      <4>2. pc' = IF d # 0 THEN "deleteTransition" ELSE "delete"
        BY <1>1, <3>1, <3>4
      <4>3. CASE d # 0
        <5>1. pc' = "deleteTransition"
          BY <4>2, <4>3
        <5> QED BY <1>4, <2>2, <3>4, <4>1, <5>1 DEF NameOK, InCallOK, Writing
      <4>4. CASE d = 0
        <5>1. pc' = "delete"
          BY <4>2, <4>4
        <5> QED BY <1>4, <2>2, <3>4, <4>1, <4>4, <5>1 DEF NameOK, InCallOK, Writing
      <4> QED BY <4>3, <4>4
    <3> QED BY <3>2, <3>3, <3>4
  <2> QED BY <2>1, <2>2
<1>6. ValuesOK'
  BY <1>0, <1>1, <1>5 DEF ValuesOK
<1>7. StatusOK'
  BY <1>0, <1>1, <1>3, <1>4 DEF StatusOK
<1>8. SpareOK'
  BY <1>0, <1>1 DEF ValueInv, SpareOK, block
<1> QED BY <1>6, <1>7, <1>8 DEF ValueInv

\* The state byte of a variable of the name changes: the other names are as before.
LEMMA OthersRestated ==
  ASSUME MemoryInv, ValueInv, phase # "off", pc \notin Writing, NEW i,
         IsCopy(cache, op.name, i), NEW state \in State, state # "header", SetState(i, state)
  PROVE  /\ flash' = Restated(flash, i, state) /\ i \in 1..Len(flash) /\ flash[i].name = op.name
         /\ flash \in Seq(Entry)
         /\ ftw # "half" => \A m \in Sound : m # op.name => Settled(flash', m, committed[m])
<1>1. cache = flash /\ flash \in Seq(Entry)
  BY InSync
<1>2. flash' = Restated(flash, i, state) /\ i \in 1..Len(flash)
  BY SetStateFacts
<1>3. flash[i].name = op.name
  BY <1>1 DEF IsCopy
<1>4. ASSUME ftw # "half", NEW m \in Sound, m # op.name
      PROVE  Settled(flash', m, committed[m])
  <2>1. Settled(flash, m, committed[m])
    BY <1>4, OthersSettled
  <2>2. Same(flash, Restated(flash, i, state), m)
    BY <1>1, <1>2, <1>3, <1>4, RestatedOthers
  <2>3. Settled(Restated(flash, i, state), m, committed[m])
    BY <2>1, <2>2, SameFacts
  <2> QED BY <1>2, <2>3
<1> QED BY <1>1, <1>2, <1>3, <1>4

\* The old variable is marked; it still has its value.
LEMMA ValueMark ==
  ASSUME MemoryInv, ValueInv, MarkInDeletedTransition
  PROVE  ValueInv'
<1> DEFINE n == op.name
           c == op.CurrPtr
           d == op.InDeletedTransitionPtr
<1>1. /\ pc = "mark" /\ phase # "off" /\ pc \notin Writing /\ IsCopy(cache, n, c) /\ n \in Names
      /\ status = "none"
  BY DEF MemoryInv, PhaseOK, PtrsOK, MarkInDeletedTransition, Writing
<1>2. /\ pc' = "room" /\ UNCHANGED <<block, op, committed, status, doubled, unsafe>>
      /\ SetState(c, "inDeleted")
  BY DEF MarkInDeletedTransition, Continue, SetState
<1>0. Sound' = Sound /\ ftw' = ftw
  BY <1>2 DEF Sound, block
<1>3. /\ flash' = Restated(flash, c, "inDeleted") /\ c \in 1..Len(flash) /\ flash[c].name = n
      /\ flash \in Seq(Entry)
      /\ ftw # "half" => \A m \in Sound : m # n => Settled(flash', m, committed[m])
  <2>1. "inDeleted" \in State
    BY DEF State
  <2> QED BY <1>1, <1>2, <2>1, OthersRestated
<1>4. ASSUME n \in Sound, ftw # "half"
      PROVE  InCallOK(flash', n, "room", op, committed[n])
  <2>1. Found(flash, n, c, d, committed[n]) /\ op.val # NoVal /\ op.old = committed[n]
    <3>1. InCallOK(flash, n, pc, op, committed[n])
      BY <1>1, <1>4 DEF ValueInv, ValuesOK, NameOK
    <3> QED BY <1>1, <3>1 DEF InCallOK
  <2>2. Replaced(flash', n, c, d, committed[n])
    BY <1>3, <2>1, MarkForm
  <2> QED BY <2>1, <2>2 DEF InCallOK
<1>5. ValuesOK'
  BY <1>0, <1>2, <1>3, <1>4 DEF ValuesOK, NameOK
<1>6. StatusOK'
  BY <1>1, <1>2 DEF StatusOK
<1>7. SpareOK'
  BY <1>0, <1>2 DEF ValueInv, SpareOK, block
<1> QED BY <1>5, <1>6, <1>7 DEF ValueInv

\* The older copy is deleted; the name keeps its value.
LEMMA ValueDeleteInDeletedTransition ==
  ASSUME MemoryInv, ValueInv, DeleteInDeletedTransition
  PROVE  ValueInv'
<1> DEFINE n == op.name
           c == op.CurrPtr
           d == op.InDeletedTransitionPtr
           v == committed[n]
<1>1. /\ pc = "deleteTransition" /\ phase # "off" /\ pc \notin Writing /\ IsCopy(cache, n, d)
      /\ n \in Names /\ status = "none"
  BY DEF MemoryInv, TypeOK, PhaseOK, PtrsOK, DeleteInDeletedTransition, Writing
<1>2. /\ pc' = "delete" /\ UNCHANGED <<block, op, committed, status, doubled, unsafe>>
      /\ SetState(d, "deleted")
  BY DEF DeleteInDeletedTransition, Continue, SetState
<1>0. Sound' = Sound /\ ftw' = ftw
  BY <1>2 DEF Sound, block
<1>3. /\ flash' = Restated(flash, d, "deleted") /\ d \in 1..Len(flash) /\ flash[d].name = n
      /\ flash \in Seq(Entry)
      /\ ftw # "half" => \A m \in Sound : m # n => Settled(flash', m, committed[m])
  <2>1. "deleted" \in State
    BY DEF State
  <2> QED BY <1>1, <1>2, <2>1, OthersRestated
<1>4. ASSUME n \in Sound, ftw # "half"
      PROVE  InCallOK(flash', n, "delete", op, v)
  <2>1. IF op.val = NoVal THEN Found(flash, n, c, d, v)
        ELSE Superseded(flash, n, c, d, v) /\ v = op.val
    <3>1. InCallOK(flash, n, pc, op, v)
      BY <1>1, <1>4 DEF ValueInv, ValuesOK, NameOK
    <3> QED BY <1>1, <3>1 DEF InCallOK
  <2>2. /\ Found(flash, n, c, d, v) => Found(flash', n, c, 0, v)
        /\ Superseded(flash, n, c, d, v) => Superseded(flash', n, c, 0, v)
    BY <1>3, DropOlder
  <2> QED BY <2>1, <2>2 DEF InCallOK, Writing
<1>5. ValuesOK'
  BY <1>0, <1>2, <1>3, <1>4 DEF ValuesOK, NameOK
<1>6. StatusOK'
  BY <1>1, <1>2 DEF StatusOK
<1>7. SpareOK'
  BY <1>0, <1>2 DEF ValueInv, SpareOK, block
<1> QED BY <1>5, <1>6, <1>7 DEF ValueInv

\* The old variable is deleted; what the call was for has come about.
LEMMA ValueDeleteOld ==
  ASSUME MemoryInv, ValueInv, DeleteOld
  PROVE  ValueInv'
<1> DEFINE n == op.name
           c == op.CurrPtr
           v == committed[n]
<1>1. /\ pc = "delete" /\ phase # "off" /\ pc \notin Writing /\ IsCopy(cache, n, c) /\ n \in Names
      /\ committed \in [Names -> Values \cup {NoVal}]
  BY DEF MemoryInv, TypeOK, PhaseOK, PtrsOK, DeleteOld, Writing
<1>2. /\ SetState(c, "deleted") /\ committed' = [committed EXCEPT ![n] = op.val]
      /\ pc' = "idle" /\ status' = "success" /\ doubled \subseteq doubled'
      /\ op'.name = n /\ op'.val = op.val /\ UNCHANGED <<block, unsafe>>
  <2>1. Return("success") /\ SetState(c, "deleted") /\ committed' = [committed EXCEPT ![n] = op.val]
    BY DEF DeleteOld
  <2>2. /\ pc' = "idle" /\ status' = "success" /\ doubled' = doubled \cup Doubled(flash')
        /\ op'.name = n /\ op'.val = op.val
    BY <2>1, ReturnFacts
  <2> QED BY <2>1, <2>2 DEF SetState
<1>0. Sound' \subseteq Sound /\ ftw' = ftw
  BY <1>2 DEF Sound, block
<1>3. /\ flash' = Restated(flash, c, "deleted") /\ c \in 1..Len(flash) /\ flash[c].name = n
      /\ flash \in Seq(Entry)
      /\ ftw # "half" => \A m \in Sound : m # n => Settled(flash', m, committed[m])
  <2>1. "deleted" \in State
    BY DEF State
  <2> QED BY <1>1, <1>2, <2>1, OthersRestated
<1>4. ASSUME n \in Sound, ftw # "half"
      PROVE  Settled(flash', n, op.val)
  <2>1. IF op.val = NoVal THEN Found(flash, n, c, 0, v)
        ELSE Superseded(flash, n, c, 0, v) /\ v = op.val
    <3>1. InCallOK(flash, n, pc, op, v)
      BY <1>1, <1>4 DEF ValueInv, ValuesOK, NameOK
    <3> QED BY <1>1, <3>1 DEF InCallOK
  <2>2. /\ Found(flash, n, c, 0, v) => Settled(flash', n, NoVal)
        /\ Superseded(flash, n, c, 0, v) => Settled(flash', n, v)
    BY <1>3, DropOld
  <2> QED BY <2>1, <2>2
<1>5. committed'[n] = op.val /\ \A m \in Names : m # n => committed'[m] = committed[m]
  BY <1>1, <1>2
<1>6. ASSUME NEW m \in Sound, ftw # "half"
      PROVE  Settled(flash', m, committed'[m])
  BY <1>3, <1>4, <1>5, <1>6 DEF Sound
<1>7. ValuesOK'
  BY <1>0, <1>2, <1>6 DEF ValuesOK, NameOK
<1>8. StatusOK'
  BY <1>2, <1>5 DEF StatusOK
<1>9. SpareOK'
  BY <1>1, <1>2, CallKeepsSpare DEF ValueInv
<1> QED BY <1>7, <1>8, <1>9 DEF ValueInv

\* There is room, or there is none at runtime.
LEMMA ValueRoom ==
  ASSUME MemoryInv, ValueInv, HasRoom \/ OutOfResourcesAtRuntime
  PROVE  ValueInv'
<1>1. CASE HasRoom
  <2>1. /\ pc = "room" /\ pc' = "writeHeader"
        /\ UNCHANGED <<flash, block, op, committed, status, doubled, unsafe>>
    BY <1>1 DEF HasRoom, Continue
  <2>0. Sound' = Sound /\ ftw' = ftw
    BY <2>1 DEF Sound, block
  <2>2. ASSUME NEW n \in Sound, ftw # "half"
        PROVE  NameOK(flash, n, "writeHeader", op, committed[n])
    <3>1. NameOK(flash, n, "room", op, committed[n])
      BY <2>1, <2>2 DEF ValueInv, ValuesOK
    <3> QED BY <3>1 DEF NameOK, InCallOK, Writing
  <2>3. ValuesOK'
    BY <2>0, <2>1, <2>2 DEF ValuesOK
  <2>4. StatusOK'
    BY <2>0, <2>1 DEF ValueInv, StatusOK
  <2>5. SpareOK'
    BY <2>0, <2>1 DEF ValueInv, SpareOK, block
  <2> QED BY <2>3, <2>4, <2>5 DEF ValueInv
<1>2. CASE OutOfResourcesAtRuntime
  <2>1. pc = "room" /\ UNCHANGED <<flash, block, committed, unsafe>> /\ Return("error")
    BY <1>2 DEF OutOfResourcesAtRuntime
  <2> QED BY <2>1, ValueFails
<1> QED BY <1>1, <1>2

\* Reclaim leaves the other names alone, and replaces or keeps this one.
LEMMA ValueReclaimAndAdd ==
  ASSUME MemoryInv, ValueInv, ReclaimAndAdd
  PROVE  ValueInv'
<1> DEFINE n == op.name
           c == op.CurrPtr
           d == op.InDeletedTransitionPtr
           live == LiveVariables(AsRead, c, d)
           contents == [committed EXCEPT ![n] = op.val]
<1>1. /\ pc = "room" /\ phase # "off" /\ pc \notin Writing /\ n \in Names
      /\ op.val \in Values \cup {NoVal} /\ committed \in [Names -> Values \cup {NoVal}]
      /\ c # 0 => IsCopy(cache, n, c)
      /\ d # 0 => IsCopy(cache, n, d)
      /\ unsafe' = unsafe
  BY DEF MemoryInv, TypeOK, PhaseOK, PtrsOK, ReclaimAndAdd, Writing
<1>2. cache = flash /\ flash \in Seq(Entry)
  BY <1>1, InSync
<1>3. CASE FtwWrite(Append(live, Fresh), contents) /\ (Return("success") \/ Return("aborted"))
  <2>1. PICK x \in {"success", "aborted"} : Return(x)
    BY <1>3
  <2>2. /\ pc' = "idle" /\ status' = x /\ doubled' = doubled \cup Doubled(flash')
        /\ op'.name = n /\ op'.val = op.val /\ op'.old = op.old
    BY <2>1, ReturnFacts
  <2>3. Sound' \subseteq Sound /\ \A m \in Sound' : m \notin Doubled(flash')
    BY <1>1, <2>2 DEF Sound
  <2>4. Fresh \in Entry /\ Fresh.state = "added" /\ Fresh.name = n /\ Fresh.val = op.val
    BY <1>1 DEF Fresh, Entry, State
  <2>5. live \in Seq(Entry)
    BY LiveType
  <2>6. contents[n] = op.val /\ \A m \in Names : m # n => contents[m] = committed[m]
    BY <1>1
  <2>7. ASSUME NEW m \in Sound, ftw # "half", m # n
        PROVE  Settled(Append(live, Fresh), m, committed[m])
    <3>1. Settled(flash, m, committed[m])
      BY <2>7, OthersSettled
    <3>2. m \in Names /\ m # NoName /\ Same(flash, AsRead, m) /\ AsRead \in Seq(Entry)
      BY ReadSame, ConstantsAssumption DEF Sound
    <3>3. Settled(AsRead, m, committed[m])
      BY <3>1, <3>2, SameFacts
    <3>4. \A i \in Added(AsRead, m) \cup Trans(AsRead, m) : i # 0 /\ flash[i].name = m
      <4>1. Added(AsRead, m) \cup Trans(AsRead, m) = Added(flash, m) \cup Trans(flash, m)
        BY <3>2 DEF Same
      <4> QED BY <1>2, <4>1, PositionFacts
    <3>5. /\ c \notin Added(AsRead, m) \cup Trans(AsRead, m)
          /\ d \notin Added(AsRead, m) \cup Trans(AsRead, m)
      BY <1>1, <1>2, <2>7, <3>4 DEF IsCopy
    <3>6. Settled(live, m, committed[m])
      BY <3>2, <3>3, <3>5, LiveSettled
    <3> HIDE DEF live
    <3>7. Same(live, Append(live, Fresh), m)
      BY <2>4, <2>5, <2>7, AppendSets
    <3> QED BY <3>6, <3>7, SameFacts
  <2>8. ASSUME n \in Sound, ftw # "half"
        PROVE  Settled(Append(live, Fresh), n, op.val) /\ committed[n] = op.old
    <3>1. Replaced(flash, n, c, d, committed[n]) /\ op.old = committed[n]
      <4>1. InCallOK(flash, n, pc, op, committed[n])
        BY <1>1, <2>8 DEF ValueInv, ValuesOK, NameOK
      <4> QED BY <1>1, <4>1 DEF InCallOK
    <3>2. Same(flash, AsRead, n) /\ AsRead \in Seq(Entry)
      BY <1>1, <2>8, ReadSame DEF Sound
    <3>3. Replaced(AsRead, n, c, d, committed[n])
      BY <3>1, <3>2, SameFacts
    <3>4. Added(live, n) = {} /\ Trans(live, n) = {}
      BY <3>2, <3>3, LiveReplaced
    <3> HIDE DEF live, n
    <3>5. Settled(Append(live, Fresh), Fresh.name, Fresh.val)
      BY <2>4, <2>5, <3>4, AddToLive
    <3> QED BY <2>4, <3>1, <3>5
  <2>9. ValuesOK' /\ SpareOK'
    <3> DEFINE s == Append(live, Fresh)
    <3>1. SpareOK /\ FtwWrite(s, contents)
      BY <1>3 DEF ValueInv
    <3>2. ftw = "done" => \A m \in Sound' : Settled(s, m, contents[m])
      <4> SUFFICES ASSUME ftw = "done", NEW m \in Sound' PROVE Settled(s, m, contents[m])
        OBVIOUS
      <4>1. m \in Sound /\ m \in Names
        BY <2>3 DEF Sound
      <4>2. CASE m = n
        BY <2>6, <2>8, <4>1, <4>2
      <4>3. CASE m # n
        BY <2>6, <2>7, <4>1, <4>3
      <4> QED BY <4>2, <4>3
    <3>3. ftw # "half" /\ flash' = AsRead => \A m \in Sound' : Settled(AsRead, m, committed[m])
      BY <2>3, ValueEndsRead
    <3>4. \A l, m \in {y \in Sound' : contents[y] # committed[y]} : l = m
      <4>1. Sound' \subseteq Names
        BY <2>3 DEF Sound
      <4> QED BY <2>6, <4>1
    <3> HIDE DEF s, contents
    <3> QED BY <2>2, <2>3, <3>1, <3>2, <3>3, <3>4, ValueFtw
  <2>10. StatusOK'
    <3>1. committed' = committed \/ committed' = contents
      BY <1>3 DEF FtwWrite, FtwVariableSpaceError
    <3>2. ftw = "half" => ftw' = "half"
      BY <1>3 DEF FtwWrite, FtwVariableSpace, FtwVariableSpaceError, block
    <3>3. x = "success" => committed' = contents
      <4>1. x = "success" => status' = "success"
        BY <2>2
      <4>2. status' # "success" \/ (FtwVariableSpace(Append(live, Fresh)) /\ committed' = contents)
        BY DEF ReclaimAndAdd, Return, Fresh
      <4> QED BY <4>1, <4>2
    <3> QED BY <2>2, <2>3, <2>6, <2>8, <3>1, <3>2, <3>3 DEF StatusOK
  <2> QED BY <2>9, <2>10 DEF ValueInv
<1>4. CASE flash' = AsRead /\ UNCHANGED <<block, committed>> /\ Return("error")
  BY <1>1, <1>4, ValueFails
<1> QED BY <1>3, <1>4 DEF ReclaimAndAdd, Fresh, FtwWrite

\* While the new variable is being written the old one counts.
LEMMA ValueWriting ==
  ASSUME MemoryInv, ValueInv, WriteHeader \/ WriteHeaderValid \/ WriteData
  PROVE  ValueInv'
<1>1. /\ pc \in {"writeHeader"} \cup Writing /\ pc' \in Writing /\ phase # "off"
      /\ UNCHANGED <<block, op, committed, status, doubled, unsafe>> /\ op.name \in Names
  BY DEF MemoryInv, PhaseOK, WriteHeader, WriteHeaderValid, WriteData, Continue, Writing
<1>0. Sound' = Sound /\ ftw' = ftw
  BY <1>1 DEF Sound, block
<1>2. /\ flash' = Append(cache, Written') /\ Written' \in Entry
      /\ Written'.state \in {"header", "headerValid"}
  BY MemoryWriting
<1>3. cache \in Seq(Entry) /\ op.name \in Names /\ op.val \in Values \cup {NoVal}
  BY <1>1 DEF MemoryInv, TypeOK
<1>4. ASSUME NEW m
      PROVE  Same(cache, flash', m)
  <2> DEFINE e == Written'
  <2>1. e \in Entry /\ e.state \in {"header", "headerValid"} /\ flash' = Append(cache, e)
    BY <1>2
  <2> HIDE DEF e
  <2> QED BY <1>3, <2>1, AppendSets
<1>5. ASSUME NEW m
      PROVE  Same(cache, flash, m)
  <2>1. CASE pc = "writeHeader"
    <3>1. flash = cache
      BY <1>1, <2>1 DEF MemoryInv, SyncOK, Writing
    <3> QED BY <3>1 DEF Same
  <2>2. CASE pc \in Writing
    <3>1. flash = Append(cache, Written) /\ Written.state \in {"header", "headerValid"}
      BY <1>1, <2>2 DEF MemoryInv, SyncOK, Written
    <3>2. Written \in Entry
      BY <1>3 DEF Written, Entry, State
    <3> QED BY <1>3, <3>1, <3>2, AppendSets
  <2> QED BY <1>1, <2>1, <2>2
<1>6. ASSUME NEW m \in Sound, ftw # "half"
      PROVE  NameOK(flash', m, pc', op, committed[m])
  <2>1. NameOK(flash, m, pc, op, committed[m])
    BY <1>6 DEF ValueInv, ValuesOK
  <2>2. CASE m # op.name
    <3>1. Settled(flash, m, committed[m])
      BY <2>1, <2>2 DEF NameOK
    <3>2. Settled(cache, m, committed[m])
      BY <1>5, <3>1, SameFacts
    <3>3. Settled(flash', m, committed[m])
      BY <1>4, <3>2, SameFacts
    <3> QED BY <2>2, <3>3 DEF NameOK
  <2>3. CASE m = op.name
    <3> DEFINE c == op.CurrPtr
               d == op.InDeletedTransitionPtr
               v == committed[m]
    <3>1. Replaced(flash, m, c, d, v) /\ op.val # NoVal /\ op.old = v
      BY <1>1, <2>1, <2>3 DEF NameOK, InCallOK, Writing
    <3>2. Replaced(cache, m, c, d, v)
      BY <1>5, <3>1, SameFacts
    <3>3. Replaced(flash', m, c, d, v)
      BY <1>4, <3>2, SameFacts
    <3> QED BY <1>1, <2>3, <3>1, <3>3 DEF NameOK, InCallOK, Writing
  <2> QED BY <2>2, <2>3
<1>7. ValuesOK'
  BY <1>0, <1>1, <1>6 DEF ValuesOK
<1>8. StatusOK'
  BY <1>0, <1>1 DEF ValueInv, StatusOK
<1>9. SpareOK'
  BY <1>0, <1>1 DEF ValueInv, SpareOK, block
<1> QED BY <1>7, <1>8, <1>9 DEF ValueInv

\* The new variable is complete: from here on it is the one that counts.
LEMMA ValueWriteAdded ==
  ASSUME MemoryInv, ValueInv, WriteAdded
  PROVE  ValueInv'
<1> DEFINE n == op.name
           c == op.CurrPtr
           d == op.InDeletedTransitionPtr
<1>1. /\ pc = "writeAdded" /\ phase # "off" /\ status = "none" /\ n \in Names
      /\ cache \in Seq(Entry) /\ op.val \in Values \cup {NoVal}
      /\ committed \in [Names -> Values \cup {NoVal}]
      /\ committed' = [committed EXCEPT ![n] = op.val] /\ UNCHANGED <<block, unsafe>>
      /\ doubled \subseteq doubled'
  BY DEF MemoryInv, TypeOK, PhaseOK, WriteAdded, Return, Continue
<1>0. Sound' \subseteq Sound /\ ftw' = ftw
  BY <1>1 DEF Sound, block
<1>10. SpareOK'
  BY <1>1, CallKeepsSpare DEF ValueInv
<1>2. flash' = Append(cache, Fresh) /\ Fresh \in Entry
  BY MemoryWriteAdded
<1>3. Fresh.state = "added" /\ Fresh.name = n /\ Fresh.val = op.val
  BY DEF Fresh
<1>4. ASSUME NEW m
      PROVE  Same(cache, flash, m)
  <2>1. flash = Append(cache, Written) /\ Written.state \in {"header", "headerValid"}
    BY <1>1 DEF MemoryInv, SyncOK, Written, Writing
  <2>2. Written \in Entry
    BY <1>1 DEF Written, Entry, State
  <2> QED BY <1>1, <2>1, <2>2, AppendSets
<1>5. ASSUME NEW m \in Sound, ftw # "half", m # n
      PROVE  Settled(flash', m, committed[m])
  <2>1. Settled(flash, m, committed[m])
    BY <1>5, OthersSettled
  <2>2. Settled(cache, m, committed[m])
    BY <1>4, <2>1, SameFacts
  <2>3. Same(cache, Append(cache, Fresh), m)
    BY <1>1, <1>2, <1>3, <1>5, AppendSets
  <2> QED BY <1>2, <2>2, <2>3, SameFacts
<1>6. ASSUME n \in Sound, ftw # "half"
      PROVE  /\ c = 0 => Settled(flash', n, op.val)
             /\ c # 0 => Superseded(flash', n, c, d, op.val)
             /\ op.val # NoVal
  <2>1. Replaced(flash, n, c, d, committed[n]) /\ op.val # NoVal
    <3>1. InCallOK(flash, n, pc, op, committed[n])
      BY <1>1, <1>6 DEF ValueInv, ValuesOK, NameOK
    <3> QED BY <1>1, <3>1 DEF InCallOK, Writing
  <2>2. Replaced(cache, n, c, d, committed[n])
    BY <1>4, <2>1, SameFacts
  <2>3. Replaced(cache, Fresh.name, c, d, committed[n])
    BY <1>3, <2>2
  <2>4. /\ c = 0 => Settled(Append(cache, Fresh), Fresh.name, Fresh.val)
        /\ c # 0 => Superseded(Append(cache, Fresh), Fresh.name, c, d, Fresh.val)
    <3> HIDE DEF n, c, d
    <3> QED BY <1>1, <1>2, <1>3, <2>3, AddForm
  <2> QED BY <1>2, <1>3, <2>1, <2>4
<1>7. committed'[n] = op.val /\ \A m \in Names : m # n => committed'[m] = committed[m]
  BY <1>1
<1>8. CASE c = 0
  <2>1. /\ pc' = "idle" /\ status' = "success" /\ doubled \subseteq doubled'
        /\ op'.name = n /\ op'.val = op.val
    <3>1. Return("success")
      BY <1>8 DEF WriteAdded
    <3>2. /\ pc' = "idle" /\ status' = "success" /\ doubled' = doubled \cup Doubled(flash')
          /\ op'.name = n /\ op'.val = op.val
      BY <3>1, ReturnFacts
    <3> QED BY <3>2
  <2>2. ASSUME NEW m \in Sound, ftw # "half"
        PROVE  Settled(flash', m, committed'[m])
    BY <1>5, <1>6, <1>7, <1>8, <2>2 DEF Sound
  <2>3. ValuesOK'
    BY <1>0, <2>1, <2>2 DEF ValuesOK, NameOK
  <2>4. StatusOK'
    BY <1>7, <2>1 DEF StatusOK
  <2> QED BY <1>10, <2>3, <2>4 DEF ValueInv
<1>9. CASE c # 0
  <2>1. /\ pc' = IF d # 0 THEN "deleteTransition" ELSE "delete"
        /\ UNCHANGED <<op, status, doubled>>
    BY <1>9 DEF WriteAdded, Continue
  <2>2. ASSUME n \in Sound, ftw # "half"
        PROVE  InCallOK(flash', n, pc', op, op.val)
    <3>1. Superseded(flash', n, c, d, op.val) /\ op.val # NoVal
      BY <1>6, <1>9, <2>2
    <3>2. CASE d # 0
      <4>1. pc' = "deleteTransition"
        BY <2>1, <3>2
      <4> QED BY <3>1, <4>1 DEF InCallOK, Writing
    <3>3. CASE d = 0
      <4>1. pc' = "delete"
        BY <2>1, <3>3
      <4>2. Superseded(flash', n, c, 0, op.val)
        BY <3>1, <3>3
      <4> QED BY <3>1, <4>1, <4>2 DEF InCallOK, Writing
    <3> QED BY <3>2, <3>3
  <2>3. pc' # "idle"
    BY <2>1
  <2>4. ASSUME NEW m \in Sound, ftw # "half"
        PROVE  NameOK(flash', m, pc', op, committed'[m])
    <3>1. CASE m = n
      BY <1>7, <2>2, <2>3, <2>4, <3>1 DEF NameOK
    <3>2. CASE m # n
      BY <1>5, <1>7, <2>4, <3>2 DEF NameOK, Sound
    <3> QED BY <3>1, <3>2
  <2>5. ValuesOK'
    BY <1>0, <2>1, <2>4 DEF ValuesOK
  <2>6. StatusOK'
    BY <1>1, <2>1 DEF StatusOK
  <2> QED BY <1>10, <2>5, <2>6 DEF ValueInv
<1> QED BY <1>8, <1>9

\* Every step keeps what the store says and what the calls have returned together.
LEMMA ValueNext == MemoryInv /\ ValueInv /\ [Next]_vars => ValueInv'
<1> SUFFICES ASSUME MemoryInv, ValueInv, [Next]_vars PROVE ValueInv'
  OBVIOUS
<1>1. CASE CommonInitialize
  BY <1>1, ValueCommonInitialize
<1>12. CASE WriteServiceInitialize \/ ReclaimForOS \/ ExitBootServices
  BY <1>12, ValueStart
<1>2. CASE PowerLoss
  BY <1>2, ValuePowerLoss
<1>3. ASSUME NEW n \in Names, NEW v \in Values \cup {NoVal}, SetVariable(n, v)
      PROVE  ValueInv'
  BY <1>3, ValueSetVariable
<1>4. CASE MarkInDeletedTransition
  BY <1>4, ValueMark
<1>5. CASE HasRoom \/ OutOfResourcesAtRuntime
  BY <1>5, ValueRoom
<1>6. CASE ReclaimAndAdd
  BY <1>6, ValueReclaimAndAdd
<1>7. CASE WriteHeader \/ WriteHeaderValid \/ WriteData
  BY <1>7, ValueWriting
<1>8. CASE WriteAdded
  BY <1>8, ValueWriteAdded
<1>9. CASE DeleteInDeletedTransition
  BY <1>9, ValueDeleteInDeletedTransition
<1>10. CASE DeleteOld
  BY <1>10, ValueDeleteOld
<1>11. CASE UNCHANGED vars
  <2>1. UNCHANGED <<flash, ftw, spare, spared, pc, op, committed, status, doubled, unsafe>>
    BY <1>11 DEF vars, block
  <2>2. ValuesOK' /\ StatusOK'
    BY <2>1 DEF ValueInv, ValuesOK, StatusOK, Sound
  <2>3. SpareOK'
    BY <2>1 DEF ValueInv, SpareOK, Sound
  <2> QED BY <2>2, <2>3 DEF ValueInv
<1> QED BY <1>1, <1>2, <1>3, <1>4, <1>5, <1>6, <1>7, <1>8, <1>9, <1>10, <1>11, <1>12 DEF Next

\* What the store says of every name, in every state.
THEOREM ValueInvariant == Spec => []ValueInv
<1>1. Spec => []MemoryInv
  BY MemoryInvariant
<1> QED BY <1>1, ValueInit, ValueNext, PTL DEF Spec

\* A settled store, or one in a call, returns what the calls have brought about.
LEMMA FlashIsDurable == MemoryInv /\ ValueInv => Durable
<1> SUFFICES ASSUME MemoryInv, ValueInv PROVE Durable
  OBVIOUS
<1>1. ASSUME ftw # "half", NEW n \in Sound
      PROVE  GetVariable(AsRead, n) = committed[n]
  <2> DEFINE v == committed[n]
  <2>1. flash \in Seq(Entry) /\ pc \in Places /\ n \in Names /\ n \notin unsafe
    BY DEF MemoryInv, TypeOK, PhaseOK, Sound
  <2>2. NameOK(flash, n, pc, op, v)
    BY <1>1 DEF ValueInv, ValuesOK
  <2>3. Same(flash, AsRead, n) /\ AsRead \in Seq(Entry)
    BY <2>1, ReadSame
  <2> HIDE DEF v
  <2>4. \/ Settled(flash, n, v)
        \/ Replaced(flash, n, op.CurrPtr, op.InDeletedTransitionPtr, v)
        \/ Superseded(flash, n, op.CurrPtr, op.InDeletedTransitionPtr, v)
        \/ Superseded(flash, n, op.CurrPtr, 0, v)
    BY <2>1, <2>2 DEF NameOK, InCallOK, Found, Places
  <2>5. GetVariable(flash, n) = v
    BY <2>1, <2>4, GetFacts
  <2>6. GetVariable(AsRead, n) = GetVariable(flash, n)
    BY <2>1, <2>3, SameGet
  <2> QED BY <2>5, <2>6 DEF v
<1>2. ASSUME ftw # "done", NEW n \in Sound
      PROVE  GetVariable(spare, n) = spared[n]
  <2>1. spare \in Seq(Entry) /\ Settled(spare, n, spared[n])
    BY <1>2 DEF MemoryInv, TypeOK, ValueInv, SpareOK
  <2> QED BY <2>1, GetFacts
<1>3. ftw # "done" => \A m, n \in {x \in Sound : spared[x] # committed[x]} : m = n
  BY DEF ValueInv, SpareOK
<1> QED BY <1>1, <1>2, <1>3 DEF Durable

\* Wherever power is lost in UpdateVariable or Reclaim, and however often, and
\* wherever the fault tolerant write fails, FindVariableEx finds in flash, or after
\* a write that failed half-way in the spare block, for every sound name what the
\* calls have brought about.
THEOREM UpdatesAreDurable == Spec => []Durable
BY FlashIsDurable, MemoryInvariant, ValueInvariant, PTL

\* After EFI_SUCCESS a sound variable has the new value or is gone, and after an
\* error of the call it has the value it had before, although the old variable was
\* marked before the error was known; after an error of the fault tolerant write
\* it has one of the two, unless the store is left half replaced.
THEOREM CallsKeepTheirWord == Spec => []StatusTruth
<1>1. MemoryInv /\ ValueInv => StatusTruth
  <2> SUFFICES ASSUME MemoryInv, ValueInv, op.name \in Sound, ftw # "half",
                      status \in {"success", "error", "aborted"}
               PROVE  GetVariable(cache, op.name) = committed[op.name]
    BY DEF StatusTruth, ValueInv, StatusOK
  <2>1. phase # "off" /\ pc = "idle"
    BY DEF MemoryInv, PhaseOK
  <2>2. cache = flash /\ flash \in Seq(Entry)
    <3>1. pc \notin Writing
      BY <2>1 DEF Writing
    <3> QED BY <2>1, <3>1, InSync
  <2>3. Settled(flash, op.name, committed[op.name])
    BY <2>1, IdleSettled
  <2> QED BY <2>2, <2>3, GetFacts
<1> QED BY <1>1, MemoryInvariant, ValueInvariant, PTL

-----------------------------------------------------------------------------
(* Data *)

\* A variable that counts has data, and none reads as having no name unless there
\* are names at risk, U.
HasData(s, U) ==
  \A i \in 1..Len(s) : /\ s[i].state \in {"added", "inDeleted"} => s[i].val # NoVal
                       /\ s[i].name \in Names \/ U # {}

\* So has the one that is to be written, and the one that is to be marked.
DataInv ==
  /\ HasData(flash, unsafe) /\ HasData(spare, unsafe)
  /\ pc \in {"mark", "room", "writeHeader"} \cup Writing => op.val # NoVal
  /\ pc = "mark" => flash[op.CurrPtr].val # NoVal

\* Reclaim copies the data with the variable.
LEMMA LiveHasData ==
  ASSUME NEW s \in Seq(Entry), NEW c, NEW d, NEW U, HasData(s, U)
  PROVE  HasData(LiveVariables(s, c, d), U)
<1> DEFINE live == LiveVariables(s, c, d)
           K == Kept(s, c, d)
<1>0. live \in Seq(Entry) /\ \E f \in Bijection(1..Len(live), K) :
        \A k \in 1..Len(live) : live[k] = [s[f[k]] EXCEPT !.state = "added"]
  BY LiveFacts
<1> HIDE DEF live, K
<1>1. PICK f \in Bijection(1..Len(live), K) :
        \A k \in 1..Len(live) : live[k] = [s[f[k]] EXCEPT !.state = "added"]
  BY <1>0
<1>2. ASSUME NEW k \in 1..Len(live)
      PROVE  live[k].val # NoVal /\ (live[k].name \in Names \/ U # {})
  <2>1. PICK i : i = f[k] /\ i \in K /\ live[k] = [s[i] EXCEPT !.state = "added"]
    BY <1>1 DEF Bijection, Injection
  <2>2. i \in 1..Len(s) /\ s[i].state \in {"added", "inDeleted"}
    BY <2>1 DEF K, Kept, KeptAdded, KeptTransition, InTransition
  <2>3. s[i] \in Entry /\ s[i].val # NoVal /\ (s[i].name \in Names \/ U # {})
    BY <2>2 DEF HasData
  <2>4. live[k].val = s[i].val /\ live[k].name = s[i].name
    BY <2>1, <2>3 DEF Entry
  <2> QED BY <2>3, <2>4
<1> QED BY <1>2 DEF HasData, live

\* A variable is appended: an incomplete one, or one with data.
LEMMA AppendHasData ==
  ASSUME NEW s \in Seq(Entry), NEW e \in Entry, NEW U, HasData(s, U),
         e.state \in {"added", "inDeleted"} => e.val # NoVal, e.name \in Names
  PROVE  HasData(Append(s, e), U)
<1> DEFINE t == Append(s, e)
<1>1. /\ Len(t) = Len(s) + 1 /\ t[Len(s) + 1] = e /\ Len(s) \in Nat
      /\ \A i \in 1..Len(s) : t[i] = s[i]
  BY AppendProperties
<1> HIDE DEF t
<1>2. \A i \in 1..Len(t) : i \in 1..Len(s) \/ i = Len(s) + 1
  BY <1>1
<1>3. HasData(t, U)
  BY <1>1, <1>2 DEF HasData
<1> QED BY <1>3 DEF t

\* A state byte changes, to DELETED or of a variable with data.
LEMMA RestatedHasData ==
  ASSUME NEW s \in Seq(Entry), NEW i \in 1..Len(s), NEW state \in State, NEW U, HasData(s, U),
         state = "deleted" \/ s[i].val # NoVal
  PROVE  HasData(Restated(s, i, state), U)
<1> DEFINE t == Restated(s, i, state)
<1>1. /\ Len(t) = Len(s)
      /\ \A j \in 1..Len(s) : /\ t[j].name = s[j].name
                              /\ t[j].val = s[j].val
                              /\ t[j].state = IF j = i THEN state ELSE s[j].state
  BY RestatedFacts
<1> HIDE DEF t
<1>2. HasData(t, U)
  BY <1>1 DEF HasData
<1> QED BY <1>2 DEF t

\* FindVariableEx finds variables with data.
LEMMA FindHasData ==
  ASSUME NEW s \in Seq(Entry), NEW n, NEW U, HasData(s, U), FindVariableEx(s, n).CurrPtr # 0
  PROVE  s[FindVariableEx(s, n).CurrPtr].val # NoVal
<1> DEFINE c == FindVariableEx(s, n).CurrPtr
<1>1. c \in 0..Len(s) /\ c # 0 /\ s[c].state \in {"added", "inDeleted"} /\ Len(s) \in Nat
  BY FindPointers
<1> HIDE DEF c
<1>2. s[c].val # NoVal
  BY <1>1 DEF HasData
<1> QED BY <1>2 DEF c

\* The copy in memory holds variables with data, also while one is being written.
LEMMA CacheHasData ==
  ASSUME MemoryInv, HasData(flash, unsafe), phase # "off"
  PROVE  cache \in Seq(Entry) /\ HasData(cache, unsafe)
<1>1. cache \in Seq(Entry) /\ op.name \in Names \cup {NoName} /\ op.val \in Values \cup {NoVal}
      /\ flash = IF pc \in Writing THEN Append(cache, Written) ELSE cache
  BY DEF MemoryInv, TypeOK, SyncOK
<1>2. CASE pc \in Writing
  <2>1. Written \in Entry
    BY <1>1 DEF Written, Entry, State
  <2>2. /\ Len(flash) = Len(cache) + 1 /\ Len(cache) \in Nat
        /\ \A i \in 1..Len(cache) : flash[i] = cache[i]
    BY <1>1, <1>2, <2>1, AppendProperties
  <2>3. \A i \in 1..Len(cache) : i \in 1..Len(flash)
    BY <2>2
  <2> QED BY <1>1, <2>2, <2>3 DEF HasData
<1>3. CASE pc \notin Writing
  BY <1>1, <1>3
<1> QED BY <1>2, <1>3

\* What the flash reads, and a part of a store, hold variables with data.
LEMMA ReadHasData ==
  ASSUME MemoryInv, HasData(flash, unsafe)
  PROVE  HasData(AsRead, unsafe)
<1> DEFINE t == AsRead
<1>1. flash \in Seq(Entry) /\ \A i \in garbled : flash[i].name \in unsafe
  BY DEF MemoryInv, TypeOK, RiskOK
<1>2. /\ Len(t) = Len(flash)
      /\ \A i \in 1..Len(flash) :
           /\ t[i].state = flash[i].state /\ t[i].val = flash[i].val
           /\ t[i].name = IF i \in garbled THEN NoName ELSE flash[i].name
  BY <1>1, AsReadFacts
<1> HIDE DEF t
<1>3. HasData(t, unsafe)
  BY <1>1, <1>2 DEF HasData
<1> QED BY <1>3 DEF t

LEMMA PrefixHasData ==
  ASSUME NEW s \in Seq(Entry), NEW k \in 0..Len(s), NEW U, HasData(s, U)
  PROVE  HasData(SubSeq(s, 1, k), U)
<1> DEFINE t == SubSeq(s, 1, k)
<1>1. Len(t) = k /\ \A i \in 1..k : t[i] = s[i]
  BY PrefixFacts
<1>2. k \in Nat /\ Len(s) \in Nat /\ k <= Len(s)
  OBVIOUS
<1> HIDE DEF t
<1>3. \A i \in 1..k : i \in 1..Len(s)
  BY <1>2
<1>4. HasData(t, U)
  BY <1>1, <1>3 DEF HasData
<1> QED BY <1>4 DEF t

\* The fault tolerant write, whether it succeeds or fails, leaves such stores.
LEMMA FtwHasData ==
  ASSUME MemoryInv, DataInv, NEW s \in Seq(Entry), HasData(s, unsafe), NEW contents,
         FtwWrite(s, contents)
  PROVE  HasData(flash', unsafe) /\ HasData(spare', unsafe)
<1>1. HasData(AsRead, unsafe) /\ HasData(spare, unsafe)
  BY ReadHasData DEF DataInv
<1>2. \A k \in 0..Len(s) : HasData(SubSeq(s, 1, k), unsafe)
  BY PrefixHasData
<1>3. flash' = s \/ flash' = AsRead \/ \E k \in 0..Len(s) : flash' = SubSeq(s, 1, k)
  BY DEF FtwWrite, FtwVariableSpace, FtwVariableSpaceError, Reread
<1>4. spare' = spare \/ spare' = s
  BY DEF FtwWrite, FtwVariableSpace, FtwVariableSpaceError, block
<1> QED BY <1>1, <1>2, <1>3, <1>4

\* Every step keeps the data of what counts.
LEMMA DataNext == MemoryInv /\ DataInv /\ [Next]_vars => DataInv'
<1> SUFFICES ASSUME MemoryInv, DataInv, [Next]_vars PROVE DataInv'
  OBVIOUS
<1>0. /\ flash \in Seq(Entry) /\ spare \in Seq(Entry) /\ pc \in Places
      /\ HasData(flash, unsafe) /\ HasData(spare, unsafe)
  BY DEF MemoryInv, TypeOK, PhaseOK, DataInv
<1>b. ASSUME pc' = "idle", unsafe' = unsafe, HasData(flash', unsafe), HasData(spare', unsafe)
      PROVE  DataInv'
  BY <1>b DEF DataInv, Writing
<1>1. CASE CommonInitialize
  <2>1. pc' = "idle" /\ unsafe' = unsafe /\ (flash' = flash \/ flash' = spare) /\ spare' = <<>>
    BY <1>1 DEF CommonInitialize, Reread, MemoryInv, PhaseOK
  <2>2. HasData(<<>>, unsafe)
    BY DEF HasData
  <2> QED BY <1>0, <2>1, <2>2, <1>b
<1>12. CASE PowerLoss
  <2>1. pc' = "idle" /\ unsafe' = unsafe /\ flash' = AsRead /\ spare' = spare
    BY <1>12 DEF PowerLoss, block
  <2>2. HasData(AsRead, unsafe)
    BY <1>0, ReadHasData
  <2> QED BY <1>0, <2>1, <2>2, <1>b
<1>2. CASE WriteServiceInitialize \/ ReclaimForOS \/ ExitBootServices
  <2> DEFINE live == LiveVariables(AsRead, 0, 0)
  <2>1. pc' = "idle" /\ unsafe' = unsafe
    BY <1>2 DEF WriteServiceInitialize, ReclaimForOS, ExitBootServices, MemoryInv, PhaseOK
  <2>2. FtwWrite(live, committed) \/ (flash' = flash /\ spare' = spare)
    BY <1>2 DEF WriteServiceInitialize, ReclaimForOS, ExitBootServices, FtwWrite, block
  <2>3. live \in Seq(Entry) /\ HasData(live, unsafe)
    <3>1. AsRead \in Seq(Entry) /\ HasData(AsRead, unsafe)
      BY <1>0, AsReadFacts, ReadHasData
    <3> QED BY <3>1, LiveType, LiveHasData
  <2> HIDE DEF live
  <2>4. HasData(flash', unsafe) /\ HasData(spare', unsafe)
    BY <1>0, <2>2, <2>3, FtwHasData
  <2> QED BY <2>1, <2>4, <1>b
<1>3. ASSUME NEW n \in Names, NEW v \in Values \cup {NoVal}, SetVariable(n, v)
      PROVE  DataInv'
  <2> DEFINE c == FindVariableEx(cache, n).CurrPtr
  <2>1. phase # "off" /\ pc \notin Writing
    BY <1>3 DEF SetVariable, Writing
  <2>2. cache = flash
    BY <2>1, InSync
  <2>3. /\ flash' = flash /\ spare' = spare /\ op'.val = v /\ op'.CurrPtr = c
        /\ pc' \notin Writing \cup {"writeHeader"}
        /\ (pc' \in {"mark", "room"} => v # NoVal) /\ (pc' = "mark" => c # 0)
        /\ unsafe \subseteq unsafe'
    BY <1>3 DEF SetVariable, Writing, block
  <2>4. c # 0 => flash[c].val # NoVal
    BY <1>0, <2>2, FindHasData
  <2> HIDE DEF c
  <2>5. HasData(flash, unsafe') /\ HasData(spare, unsafe')
    BY <1>0, <2>3 DEF HasData
  <2> QED BY <2>3, <2>4, <2>5 DEF DataInv
<1>4. CASE MarkInDeletedTransition
  <2>1. pc = "mark" /\ phase # "off" /\ pc \notin Writing /\ pc' = "room" /\ op' = op
        /\ SetState(op.CurrPtr, "inDeleted") /\ IsCopy(cache, op.name, op.CurrPtr)
        /\ spare' = spare /\ unsafe' = unsafe
    BY <1>4 DEF MarkInDeletedTransition, MemoryInv, PhaseOK, PtrsOK, Writing, Continue, SetState, block
  <2>2. "inDeleted" \in State
    BY DEF State
  <2>3. flash' = Restated(flash, op.CurrPtr, "inDeleted") /\ op.CurrPtr \in 1..Len(flash)
    BY <2>1, <2>2, SetStateFacts
  <2>4. op.val # NoVal /\ flash[op.CurrPtr].val # NoVal
    BY <2>1 DEF DataInv
  <2>5. HasData(flash', unsafe)
    BY <1>0, <2>2, <2>3, <2>4, RestatedHasData
  <2> QED BY <1>0, <2>1, <2>4, <2>5 DEF DataInv, Writing
<1>5. CASE DeleteInDeletedTransition \/ DeleteOld
  <2>1. PICK i : /\ IsCopy(cache, op.name, i) /\ SetState(i, "deleted") /\ phase # "off"
                 /\ pc \notin Writing /\ pc' \in {"idle", "delete"}
                 /\ spare' = spare /\ unsafe' = unsafe
    BY <1>5 DEF DeleteInDeletedTransition, DeleteOld, MemoryInv, PhaseOK, PtrsOK, Writing,
                Continue, Return, SetState, block
  <2>2. "deleted" \in State
    BY DEF State
  <2>3. flash' = Restated(flash, i, "deleted") /\ i \in 1..Len(flash)
    BY <2>1, <2>2, SetStateFacts
  <2>4. HasData(flash', unsafe)
    BY <1>0, <2>2, <2>3, RestatedHasData
  <2> QED BY <1>0, <2>1, <2>4 DEF DataInv, Writing
<1>6. CASE OutOfResourcesAtRuntime
  <2>1. pc' = "idle" /\ unsafe' = unsafe /\ flash' = flash /\ spare' = spare
    BY <1>6 DEF OutOfResourcesAtRuntime, Return, block
  <2> QED BY <1>0, <2>1, <1>b
<1>7. CASE HasRoom
  BY <1>7 DEF HasRoom, Continue, DataInv, Writing, block
<1>8. CASE ReclaimAndAdd
  <2> DEFINE live == LiveVariables(AsRead, op.CurrPtr, op.InDeletedTransitionPtr)
             contents == [committed EXCEPT ![op.name] = op.val]
  <2>1. /\ pc = "room" /\ pc' = "idle" /\ unsafe' = unsafe
        /\ \/ FtwWrite(Append(live, Fresh), contents)
           \/ flash' = AsRead /\ spare' = spare
    BY <1>8 DEF ReclaimAndAdd, Return, FtwWrite, Fresh, block
  <2>2. AsRead \in Seq(Entry) /\ HasData(AsRead, unsafe)
    BY <1>0, AsReadFacts, ReadHasData
  <2>3. live \in Seq(Entry) /\ HasData(live, unsafe)
    BY <2>2, LiveType, LiveHasData
  <2>4. op.val # NoVal /\ op.val \in Values \cup {NoVal} /\ op.name \in Names
    BY <2>1 DEF DataInv, MemoryInv, TypeOK, PhaseOK
  <2>5. Fresh \in Entry /\ Fresh.val # NoVal /\ Fresh.name \in Names
    BY <2>4 DEF Fresh, Entry, State
  <2> HIDE DEF live, contents
  <2>6. Append(live, Fresh) \in Seq(Entry) /\ HasData(Append(live, Fresh), unsafe)
    BY <2>3, <2>5, AppendHasData, AppendProperties
  <2> DEFINE s == Append(live, Fresh)
  <2>7. CASE FtwWrite(s, contents)
    <3>1. s \in Seq(Entry) /\ HasData(s, unsafe)
      BY <2>6
    <3> HIDE DEF s
    <3>2. HasData(flash', unsafe) /\ HasData(spare', unsafe)
      BY <2>7, <3>1, FtwHasData
    <3> QED BY <2>1, <3>2, <1>b
  <2>8. CASE flash' = AsRead /\ spare' = spare
    BY <1>0, <2>1, <2>2, <2>8, <1>b
  <2> QED BY <2>1, <2>7, <2>8
<1>9. CASE WriteHeader \/ WriteHeaderValid \/ WriteData
  <2>1. /\ pc \in {"writeHeader", "writeState", "writeData"} /\ pc' \in Writing
        /\ op' = op /\ phase # "off" /\ spare' = spare /\ unsafe' = unsafe /\ op.name \in Names
    BY <1>9 DEF WriteHeader, WriteHeaderValid, WriteData, Continue, Writing, MemoryInv, PhaseOK, block
  <2>2. PICK e : /\ e \in Entry /\ e.state \in {"header", "headerValid"} /\ flash' = Append(cache, e)
                 /\ e.name \in Names
    <3>1. Written'.name = op.name
      BY <2>1 DEF Written
    <3> QED BY <1>9, <2>1, <3>1, MemoryWriting
  <2>3. op.val # NoVal
    BY <2>1 DEF DataInv, Writing
  <2>4. cache \in Seq(Entry) /\ HasData(cache, unsafe)
    BY <1>0, <2>1, CacheHasData
  <2>5. HasData(flash', unsafe)
    BY <2>2, <2>4, AppendHasData
  <2> QED BY <1>0, <2>1, <2>3, <2>5 DEF DataInv, Writing
<1>10. CASE WriteAdded
  <2>1. /\ pc \in Writing /\ pc' \in {"idle", "delete", "deleteTransition"} /\ phase # "off"
        /\ spare' = spare /\ unsafe' = unsafe /\ op.name \in Names
    BY <1>10 DEF WriteAdded, Continue, Return, Writing, MemoryInv, PhaseOK, block
  <2>2. /\ flash' = Append(cache, Fresh) /\ Fresh \in Entry /\ Fresh.val = op.val
        /\ Fresh.name \in Names
    BY <1>10, <2>1, MemoryWriteAdded DEF Fresh
  <2>3. op.val # NoVal
    BY <2>1 DEF DataInv
  <2>4. cache \in Seq(Entry) /\ HasData(cache, unsafe)
    BY <1>0, <2>1, CacheHasData
  <2>5. HasData(flash', unsafe)
    BY <2>2, <2>3, <2>4, AppendHasData
  <2> QED BY <1>0, <2>1, <2>5 DEF DataInv, Writing
<1>11. CASE UNCHANGED vars
  BY <1>11 DEF vars, DataInv, block
<1> QED BY <1>1, <1>2, <1>3, <1>4, <1>5, <1>6, <1>7, <1>8, <1>9, <1>10, <1>11, <1>12 DEF Next

\* Every ADDED variable, and every one in transition, has data, and every one has
\* a name as long as none is at risk.
THEOREM DataInvariant == Spec => []DataInv
<1>1. Init => DataInv
  <2> SUFFICES ASSUME Init PROVE DataInv
    OBVIOUS
  <2>1. Len(flash) = 0 /\ Len(spare) = 0
    BY DEF Init
  <2>2. HasData(flash, unsafe) /\ HasData(spare, unsafe)
    BY <2>1 DEF HasData
  <2> QED BY <2>2 DEF Init, DataInv, Writing
<1> QED BY <1>1, DataNext, MemoryInvariant, PTL DEF Spec

-----------------------------------------------------------------------------
(* GetNextVariableName *)

\* The first position of R from i on, or 0.
After(R, i) == LET S == {j \in R : j >= i} IN IF S = {} THEN 0 ELSE Min(S)

\* What it returns.
LEMMA AfterFacts ==
  ASSUME NEW L \in Nat, NEW R, R \subseteq 1..L, NEW i \in Nat
  PROVE  /\ After(R, i) # 0 => After(R, i) \in R /\ After(R, i) >= i
         /\ \A p \in R : p >= i => After(R, i) # 0 /\ After(R, i) <= p
<1> DEFINE S == {j \in R : j >= i}
<1>r. \A p \in R : p \in Nat /\ p # 0
  OBVIOUS
<1>1. S \subseteq Nat /\ 0 \notin S /\ \A p : p \in S <=> p \in R /\ p >= i
  BY <1>r
<1>2. After(R, i) = IF S = {} THEN 0 ELSE Min(S)
  BY DEF After
<1> HIDE DEF S
<1>3. S # {} => Min(S) \in S /\ \A y \in S : Min(S) <= y
  BY <1>1, MinFacts
<1> QED BY <1>1, <1>2, <1>3

\* f begins at the first position of R and goes on, step by step, to the next.
Steps(R, f, L) ==
  \A k \in 1..L : f[k] = IF k = 1 THEN After(R, 1)
                         ELSE IF f[k-1] = 0 THEN 0 ELSE After(R, f[k-1] + 1)

\* It only comes to positions of R.
LEMMA StepsWithin ==
  ASSUME NEW L \in Nat, NEW R, R \subseteq 1..L, NEW f, Steps(R, f, L)
  PROVE  \A k \in 1..L : f[k] \in R \cup {0}
<1>r. \A x \in R : x \in Nat /\ x # 0 /\ x <= L
  OBVIOUS
<1> DEFINE Bad == {k \in 1..L : f[k] \notin R \cup {0}}
<1> SUFFICES ASSUME Bad # {} PROVE FALSE
  OBVIOUS
<1>1. Bad \subseteq Nat
  OBVIOUS
<1>2. PICK k \in Bad : \A j \in Bad : k <= j
  <2> HIDE DEF Bad
  <2> QED BY <1>1, MinFacts
<1>3. k \in 1..L /\ f[k] \notin R \cup {0}
  OBVIOUS
<1>4. CASE k = 1
  <2>1. f[k] = After(R, 1)
    BY <1>3, <1>4 DEF Steps
  <2>2. 1 \in Nat
    OBVIOUS
  <2>3. After(R, 1) # 0 => After(R, 1) \in R
    BY <2>2, AfterFacts
  <2> QED BY <1>3, <2>1, <2>3
<1>5. CASE k # 1
  <2>1. k - 1 \in 1..L /\ ~(k <= k - 1)
    BY <1>3, <1>5
  <2>2. f[k-1] \in R \cup {0}
    BY <1>2, <2>1
  <2>3. f[k-1] # 0 /\ f[k] = After(R, f[k-1] + 1)
    BY <1>3, <1>5 DEF Steps
  <2>4. f[k-1] + 1 \in Nat
    <3>1. f[k-1] \in R
      BY <2>2, <2>3
    <3>2. f[k-1] \in Nat
      BY <1>r, <3>1, Zenon
    <3> QED BY <3>2
  <2>5. After(R, f[k-1] + 1) # 0 => After(R, f[k-1] + 1) \in R
    BY <2>4, AfterFacts
  <2> QED BY <1>3, <2>3, <2>5
<1> QED BY <1>4, <1>5

\* It comes to each of them at most once.
LEMMA StepsRise ==
  ASSUME NEW L \in Nat, NEW R, R \subseteq 1..L, NEW f, Steps(R, f, L)
  PROVE  \A j, k \in 1..L : j < k /\ f[k] # 0 => f[j] # 0 /\ f[j] < f[k]
<1>r. \A x \in R : x \in Nat /\ x # 0 /\ x <= L
  OBVIOUS
<1> DEFINE Good(j, k) == f[k] # 0 => f[j] # 0 /\ f[j] < f[k]
           Bad == {k \in 1..L : \E j \in 1..L : j < k /\ ~Good(j, k)}
<1> SUFFICES ASSUME Bad # {} PROVE FALSE
  OBVIOUS
<1>1. Bad \subseteq Nat
  OBVIOUS
<1>2. PICK k \in Bad : \A j \in Bad : k <= j
  <2> HIDE DEF Bad
  <2> QED BY <1>1, MinFacts
<1>3. PICK j \in 1..L : k \in 1..L /\ j < k /\ f[k] # 0 /\ ~(f[j] # 0 /\ f[j] < f[k])
  OBVIOUS
<1>4. k # 1 /\ k - 1 \in 1..L /\ ~(k <= k - 1)
  BY <1>3
<1>5. f[k-1] # 0 /\ f[k] = After(R, f[k-1] + 1)
  BY <1>3, <1>4 DEF Steps
<1>6. f[k-1] \in Nat /\ f[k-1] \in R
  <2>1. f[k-1] \in R \cup {0}
    BY <1>4, StepsWithin
  <2> QED BY <1>5, <1>r, <2>1
<1>7. f[k] \in R /\ f[k] >= f[k-1] + 1
  <2>1. f[k-1] + 1 \in Nat
    BY <1>6
  <2> QED BY <1>3, <1>5, <2>1, AfterFacts
<1>8. CASE j = k - 1
  <2>1. f[k] \in Nat /\ f[k-1] < f[k]
    <3>1. f[k] \in Nat
      BY <1>7, <1>r, Zenon
    <3> QED BY <1>6, <1>7, <3>1
  <2> QED BY <1>3, <1>5, <1>8, <2>1
<1>9. CASE j # k - 1
  <2>1. j < k - 1 /\ k - 1 \notin Bad
    BY <1>2, <1>3, <1>4, <1>9
  <2>2. f[j] # 0 /\ f[j] < f[k-1]
    BY <1>4, <1>5, <2>1
  <2>3. f[j] \in R \cup {0} /\ f[j] \in Nat
    <3>1. f[j] \in R \cup {0}
      BY StepsWithin
    <3>2. f[j] \in R
      BY <2>2, <3>1
    <3> QED BY <3>2, <1>r, Zenon
  <2>4. f[j] < f[k]
    <3>1. f[k] \in Nat
      BY <1>7, <1>r, Zenon
    <3> QED BY <1>6, <1>7, <2>2, <2>3, <3>1
  <2> QED BY <1>3, <2>2, <2>4
<1> QED BY <1>8, <1>9

\* It comes to all of them.
MeetsAll(R, f, L) == \A p \in R : \E k \in 1..L : f[k] = p

\* It leaves none out: it would pass below it for ever, and there are only L
\* positions.
LEMMA StepsMeetAll ==
  ASSUME NEW L \in Nat, NEW R, R \subseteq 1..L, NEW f, Steps(R, f, L)
  PROVE  MeetsAll(R, f, L)
<1>r. \A x \in R : x \in Nat /\ x # 0 /\ x <= L
  OBVIOUS
<1> SUFFICES ASSUME NEW p \in R, \A k \in 1..L : f[k] # p PROVE FALSE
  BY DEF MeetsAll
<1> DEFINE Good(k) == f[k] \in Nat /\ k <= f[k] /\ f[k] < p
           Bad == {k \in 1..L : ~Good(k)}
<1>0. p \in 1..L /\ L \in 1..L
  OBVIOUS
<1>1. ASSUME NEW k \in 1..L, NEW i \in Nat, f[k] = After(R, i), k <= i, i <= p
      PROVE  Good(k)
  <2>1. f[k] # 0 /\ f[k] <= p /\ f[k] \in R /\ f[k] >= i
    BY <1>0, <1>1, AfterFacts
  <2>2. f[k] \in Nat /\ f[k] # p
    BY <1>r, <2>1
  <2> QED BY <1>0, <1>1, <2>1, <2>2
<1>2. Bad = {}
  <2> SUFFICES ASSUME Bad # {} PROVE FALSE
    OBVIOUS
  <2>1. Bad \subseteq Nat
    OBVIOUS
  <2>2. PICK k \in Bad : \A j \in Bad : k <= j
    <3> HIDE DEF Bad
    <3> QED BY <2>1, MinFacts
  <2>3. k \in 1..L /\ ~Good(k)
    OBVIOUS
  <2>4. CASE k = 1
    <3>1. f[k] = After(R, 1)
      BY <2>3, <2>4 DEF Steps
    <3>2. 1 \in Nat /\ k <= 1 /\ 1 <= p
      BY <1>0, <2>4
    <3> HIDE DEF Good
    <3> QED BY <1>1, <2>3, <3>1, <3>2
  <2>5. CASE k # 1
    <3>1. k - 1 \in 1..L /\ ~(k <= k - 1)
      BY <2>3, <2>5
    <3>2. Good(k - 1)
      BY <2>2, <3>1
    <3>3. f[k-1] # 0
      BY <3>1, <3>2
    <3>4. f[k] = After(R, f[k-1] + 1)
      BY <2>3, <2>5, <3>3 DEF Steps
    <3>5. f[k-1] + 1 \in Nat /\ k <= f[k-1] + 1 /\ f[k-1] + 1 <= p
      BY <1>0, <2>3, <3>1, <3>2
    <3> HIDE DEF Good
    <3> QED BY <1>1, <2>3, <3>4, <3>5
  <2> QED BY <2>4, <2>5
<1>3. Good(L)
  BY <1>0, <1>2
<1> QED BY <1>0, <1>3

\* The k-th position a caller is led to, if f says which were the ones before.
Visited(s, f, k) ==
  IF k = 1 THEN NextFrom(s, FirstName(s))
  ELSE IF f[k-1] = 0 THEN 0
  ELSE NextFrom(s, FindVariableEx(s, s[f[k-1]].name).CurrPtr + 1)

\* There is a function that says it for all of them.
LEMMA VisitsExist ==
  ASSUME NEW s, NEW L \in Nat
  PROVE  \E f : f = [k \in 1..L |-> Visited(s, f, k)]
<1> DEFINE P(n) == \E f : f = [k \in 1..n |-> Visited(s, f, k)]
           Bad == {n \in Nat : ~P(n)}
<1>1. P(0)
  <2> DEFINE f == [k \in 1..0 |-> 0]
  <2>1. f = [k \in 1..0 |-> Visited(s, f, k)]
    OBVIOUS
  <2> QED BY <2>1
<1>2. ASSUME NEW n \in Nat, P(n)
      PROVE  P(n + 1)
  <2>1. PICK f : f = [k \in 1..n |-> Visited(s, f, k)]
    BY <1>2
  <2> DEFINE g == [k \in 1..(n + 1) |-> IF k = n + 1 THEN Visited(s, f, k) ELSE f[k]]
  <2>2. ASSUME NEW k \in 1..(n + 1)
        PROVE  g[k] = Visited(s, g, k)
    <3>1. k # 1 => k - 1 \in 1..(n + 1) /\ k - 1 # n + 1
      OBVIOUS
    <3>2. k # 1 => g[k-1] = f[k-1]
      BY <3>1
    <3>3. Visited(s, g, k) = Visited(s, f, k)
      <4> HIDE DEF g
      <4> QED BY <3>2 DEF Visited
    <3>4. g[k] = Visited(s, f, k)
      <4>1. CASE k = n + 1
        BY <4>1
      <4>2. CASE k # n + 1
        <5>1. k \in 1..n
          BY <4>2
        <5>2. f[k] = Visited(s, f, k)
          BY <2>1, <5>1
        <5> QED BY <4>2, <5>2
      <4> QED BY <4>1, <4>2
    <3> QED BY <3>3, <3>4
  <2>3. g = [k \in 1..(n + 1) |-> Visited(s, g, k)]
    BY <2>2
  <2> QED BY <2>3
<1>3. Bad = {}
  <2> SUFFICES ASSUME Bad # {} PROVE FALSE
    OBVIOUS
  <2>1. Bad \subseteq Nat
    OBVIOUS
  <2>2. PICK n \in Bad : \A m \in Bad : n <= m
    <3> HIDE DEF Bad
    <3> QED BY <2>1, MinFacts
  <2>3. n \in Nat /\ ~P(n)
    OBVIOUS
  <2>4. n # 0
    BY <1>1, <2>3
  <2>5. n - 1 \in Nat /\ ~(n <= n - 1) /\ n - 1 + 1 = n
    BY <2>3, <2>4
  <2>6. P(n - 1)
    BY <2>2, <2>5
  <2>7. P(n - 1 + 1)
    BY <1>2, <2>5, <2>6
  <2> QED BY <2>3, <2>5, <2>7
<1> QED BY <1>3

\* Enumerated is that function, as far as it leads somewhere.
LEMMA EnumeratedFacts ==
  ASSUME NEW s \in Seq(Entry)
  PROVE  \E f : /\ \A k \in 1..Len(s) : f[k] = Visited(s, f, k)
                /\ Enumerated(s) = [k \in {j \in 1..Len(s) : f[j] # 0} |-> f[k]]
<1> DEFINE visit == CHOOSE f : f = [k \in 1..Len(s) |-> Visited(s, f, k)]
<1>0. Len(s) \in Nat
  OBVIOUS
<1>1. visit = [k \in 1..Len(s) |-> Visited(s, visit, k)]
  BY <1>0, VisitsExist
<1>2. Enumerated(s) = [k \in {j \in 1..Len(s) : visit[j] # 0} |-> visit[k]]
  BY DEF Enumerated, Visited
<1> HIDE DEF visit
<1>3. \A k \in 1..Len(s) : visit[k] = Visited(s, visit, k)
  BY <1>1
<1> QED BY <1>2, <1>3

\* Of a settled name, GetNextVariableName returns what FindVariableEx finds.
LEMMA ReturnedIsFound ==
  ASSUME NEW s \in Seq(Entry), NEW i \in 1..Len(s), NEW v, Settled(s, s[i].name, v)
  PROVE  Returned(s, i) <=> FindVariableEx(s, s[i].name).CurrPtr = i
<1> DEFINE n == s[i].name
           c == FindVariableEx(s, n).CurrPtr
<1>1. /\ Added(s, n) # {} => c \in Added(s, n)
      /\ Added(s, n) = {} => IF Trans(s, n) = {} THEN c = 0 ELSE c \in Trans(s, n)
  BY FindFacts
<1>2. /\ s[i].state = "added" <=> i \in Added(s, n)
      /\ s[i].state = "inDeleted" <=> i \in Trans(s, n)
      /\ \A j \in Added(s, n) : s[j].state = "added"
      /\ \A j \in Trans(s, n) : s[j].state = "inDeleted"
      /\ i # 0
  BY DEF Added, Trans, InState
<1>3. Returned(s, i) <=> \/ s[i].state = "added"
                         \/ s[i].state = "inDeleted" /\ s[c].state # "added"
  BY DEF Returned
<1>4. /\ \A j, k \in Added(s, n) : j = k
      /\ \A j, k \in Trans(s, n) : j = k
  BY DEF Settled
<1> HIDE DEF n, c
<1>5. Returned(s, i) <=> c = i
  BY <1>1, <1>2, <1>3, <1>4
<1> QED BY <1>5 DEF n, c

\* In a store of settled names a caller is led to each of these, and to nothing
\* else, once.
LEMMA EachVisitedOnce ==
  ASSUME VolatilePresent, NEW s \in Seq(Entry),
         \A n \in Names : \E v : Settled(s, n, v),
         \A i \in 1..Len(s) : s[i].name \in Names,
         NEW n \in Names
  PROVE  LET c == FindVariableEx(s, n).CurrPtr
             seen == Enumerated(s)
             S == {k \in DOMAIN seen : s[seen[k]].name = n}
         IN  IF c = 0 THEN S = {} ELSE \E k : S = {k}
<1> DEFINE L == Len(s)
           R == {i \in 1..L : Returned(s, i)}
           At(m) == FindVariableEx(s, m).CurrPtr
           seen == Enumerated(s)
           S == {k \in DOMAIN seen : s[seen[k]].name = n}
<1>0. L \in Nat /\ DOMAIN s = 1..L /\ \A i \in 1..L : s[i].name \in Names
  OBVIOUS
<1>1. \A i \in 1..L : i \in R <=> At(s[i].name) = i
  BY <1>0, ReturnedIsFound
<1>2. \A m : At(m) \in 0..L /\ (At(m) # 0 => s[At(m)].name = m)
  BY FindPointers
<1>3. \A i \in Nat : i # 0 => NextFrom(s, i) = After(R, i)
  <2> TAKE i \in Nat
  <2> HAVE i # 0
  <2>1. {j \in DOMAIN s : j >= i /\ i # 0 /\ Returned(s, j)} = {j \in R : j >= i}
    BY <1>0
  <2> QED BY <2>1 DEF NextFrom, After
<1>4. FirstName(s) = 1
  BY DEF FirstName
<1>5. PICK f : /\ \A k \in 1..L : f[k] = Visited(s, f, k)
               /\ seen = [k \in {j \in 1..L : f[j] # 0} |-> f[k]]
  BY EnumeratedFacts
<1>6. R \subseteq 1..L
  OBVIOUS
<1> HIDE DEF R, At, seen, L
<1>7. Steps(R, f, L)
  <2> DEFINE Good(k) == f[k] \in R \cup {0} /\
               f[k] = IF k = 1 THEN After(R, 1)
                      ELSE IF f[k-1] = 0 THEN 0 ELSE After(R, f[k-1] + 1)
             Bad == {k \in 1..L : ~Good(k)}
  <2> SUFFICES Bad = {}
    BY DEF Steps
  <2> SUFFICES ASSUME Bad # {} PROVE FALSE
    OBVIOUS
  <2>1. Bad \subseteq Nat
    BY <1>0
  <2>2. PICK k \in Bad : \A j \in Bad : k <= j
    <3> HIDE DEF Bad
    <3> QED BY <2>1, MinFacts
  <2>3. k \in 1..L /\ ~Good(k) /\ f[k] = Visited(s, f, k)
    BY <1>5
  <2>4. CASE k = 1
    <3>1. f[k] = After(R, 1)
      BY <1>3, <1>4, <2>3, <2>4 DEF Visited
    <3>2. f[k] \in R \cup {0}
      <4>1. 1 \in Nat
        OBVIOUS
      <4>2. After(R, 1) # 0 => After(R, 1) \in R
        BY <1>0, <1>6, <4>1, AfterFacts
      <4> QED BY <3>1, <4>2
    <3> QED BY <2>3, <2>4, <3>1, <3>2
  <2>5. CASE k # 1
    <3>1. k - 1 \in 1..L /\ ~(k <= k - 1)
      BY <1>0, <2>3, <2>5
    <3>2. f[k-1] \in R \cup {0}
      BY <2>2, <3>1
    <3>3. CASE f[k-1] = 0
      <4>1. f[k] = 0
        BY <2>3, <2>5, <3>3 DEF Visited
      <4> QED BY <2>3, <2>5, <3>3, <4>1
    <3>4. CASE f[k-1] # 0
      <4>1. f[k-1] \in 1..L /\ f[k-1] \in R
        BY <1>6, <3>2, <3>4
      <4>2. At(s[f[k-1]].name) = f[k-1]
        BY <1>1, <4>1
      <4>3. f[k] = NextFrom(s, f[k-1] + 1)
        BY <2>3, <2>5, <3>4, <4>2 DEF Visited, At
      <4>4. f[k-1] + 1 \in Nat /\ f[k-1] + 1 # 0
        BY <1>0, <4>1
      <4>5. f[k] = After(R, f[k-1] + 1)
        BY <1>3, <4>3, <4>4
      <4>6. f[k] \in R \cup {0}
        <5>1. After(R, f[k-1] + 1) # 0 => After(R, f[k-1] + 1) \in R
          BY <1>0, <1>6, <4>4, AfterFacts
        <5> QED BY <4>5, <5>1
      <4> QED BY <2>3, <2>5, <3>4, <4>5, <4>6
    <3> QED BY <3>3, <3>4
  <2> QED BY <2>4, <2>5
<1>8. \A k \in 1..L : f[k] \in R \cup {0}
  BY <1>0, <1>6, <1>7, StepsWithin
<1>9. MeetsAll(R, f, L)
  BY <1>0, <1>6, <1>7, StepsMeetAll
<1>10. \A k : k \in S <=> k \in 1..L /\ f[k] # 0 /\ s[f[k]].name = n
  BY <1>5
<1> HIDE DEF S
<1>11. \A k \in S : k \in 1..L /\ f[k] = At(n)
  <2> TAKE k \in S
  <2>1. k \in 1..L /\ f[k] \in R /\ s[f[k]].name = n
    BY <1>8, <1>10
  <2>2. f[k] \in 1..L
    BY <1>6, <2>1
  <2> QED BY <1>1, <2>1, <2>2
<1>12. CASE At(n) = 0
  <2>1. S = {}
    BY <1>10, <1>11, <1>12
  <2> QED BY <1>12, <2>1 DEF At, S, seen
<1>13. CASE At(n) # 0
  <2>1. At(n) \in 1..L /\ s[At(n)].name = n
    BY <1>0, <1>2, <1>13
  <2>2. At(n) \in R
    BY <1>1, <2>1
  <2>3. PICK k \in 1..L : f[k] = At(n)
    BY <1>9, <2>2 DEF MeetsAll
  <2>4. k \in S
    BY <1>10, <1>13, <2>1, <2>3
  <2>5. ASSUME NEW j \in S PROVE j = k
    <3>1. j \in 1..L /\ f[j] = At(n)
      BY <1>11, <2>5
    <3>2. j < k => f[j] < f[k]
      BY <1>0, <1>6, <1>7, <1>13, <2>3, <3>1, StepsRise
    <3>3. k < j => f[k] < f[j]
      BY <1>0, <1>6, <1>7, <1>13, <2>3, <3>1, StepsRise
    <3>4. ~(At(n) < At(n))
      BY <1>0, <2>1
    <3> QED BY <1>0, <2>3, <3>1, <3>2, <3>3, <3>4
  <2>6. S = {k}
    BY <2>4, <2>5
  <2> QED BY <1>13, <2>6 DEF At, S, seen
<1> QED BY <1>12, <1>13

\* A caller of GetNextVariableName sees every variable once, whatever interrupted
\* updates have left behind, as long as every name is sound, the store is not half
\* replaced and the search enters it at its beginning.
THEOREM EnumerationIsComplete ==
  ASSUME VolatilePresent
  PROVE  Spec => []EnumerationComplete
<1>1. MemoryInv /\ ValueInv /\ DataInv => EnumerationComplete
  <2> SUFFICES ASSUME MemoryInv, ValueInv, DataInv, phase # "off", ~InCall, Sound = Names,
                      ftw # "half", NEW n \in Names
               PROVE  LET seen == Enumerated(cache)
                      IN  Cardinality({k \in DOMAIN seen : cache[seen[k]].name = n}) =
                            IF GetVariable(cache, n) = NoVal THEN 0 ELSE 1
    BY DEF EnumerationComplete
  <2> DEFINE c == FindVariableEx(cache, n).CurrPtr
             seen == Enumerated(cache)
             S == {k \in DOMAIN seen : cache[seen[k]].name = n}
  <2>1. pc = "idle" /\ pc \notin Writing
    BY DEF InCall, Writing
  <2>2. cache = flash /\ cache \in Seq(Entry) /\ HasData(cache, unsafe)
    BY <2>1, InSync DEF DataInv
  <2>0. \A i \in 1..Len(cache) : cache[i].name \in Names
    <3>1. unsafe = {}
      BY DEF MemoryInv, TypeOK, Sound
    <3> QED BY <2>2, <3>1 DEF HasData
  <2>3. \A m \in Names : \E v : Settled(cache, m, v)
    BY <2>1, <2>2, IdleSettled
  <2>4. IF c = 0 THEN S = {} ELSE \E k : S = {k}
    BY <2>0, <2>2, <2>3, EachVisitedOnce
  <2>5. IF c = 0 THEN GetVariable(cache, n) = NoVal ELSE GetVariable(cache, n) # NoVal
    BY <2>2, FindHasData DEF GetVariable
  <2> HIDE DEF c, S
  <2>6. CASE c = 0
    <3>1. Cardinality(S) = 0
      BY <2>4, <2>6, FS_EmptySet
    <3> QED BY <2>5, <2>6, <3>1 DEF S
  <2>7. CASE c # 0
    <3>1. Cardinality(S) = 1
      BY <2>4, <2>7, FS_Singleton
    <3> QED BY <2>5, <2>7, <3>1 DEF S
  <2> QED BY <2>6, <2>7
<1> QED BY <1>1, MemoryInvariant, ValueInvariant, DataInvariant, PTL

-----------------------------------------------------------------------------
(* Updates are atomic *)

\* What a reader of the flash may see happen: a sound name keeps its value, takes the
\* one of the call in progress, or, when a start copies the spare block, the one it
\* has there; and no two sound names change at once.
AtomicStep ==
  ftw # "half" /\ ftw' # "half" =>
    /\ \A n \in Sound' :
         \/ GetVariable(AsRead, n)' = GetVariable(AsRead, n)
         \/ pc # "idle" /\ n = op.name /\ GetVariable(AsRead, n)' = op.val
         \/ ftw # "done" /\ ftw' = "done" /\ GetVariable(AsRead, n)' = spared[n]
    /\ \A m, n \in {x \in Sound' : GetVariable(AsRead, x)' # GetVariable(AsRead, x)} : m = n

\* No step of UpdateVariable, of Reclaim or of a start after a loss of power changes
\* what FindVariableEx finds in flash of the sound names, except that one step of a
\* call puts the whole new value of its variable in the place of the old one, or the
\* start does that with the update that an error of the fault tolerant write cut
\* short.  While a failed write has left the store half replaced nothing is said.
THEOREM UpdatesAreAtomic == Spec => [][AtomicStep]_vars
<1>1. MemoryInv /\ ValueInv /\ [Next]_vars => Durable /\ Durable'
  <2>1. MemoryInv /\ ValueInv => Durable
    BY FlashIsDurable
  <2>2. (MemoryInv /\ ValueInv => Durable)'
    BY FlashIsDurable, PTL
  <2> QED BY <2>1, <2>2, MemoryNext, ValueNext
<1>2. MemoryInv /\ Durable /\ Durable' /\ [Next]_vars => [AtomicStep]_vars
  <2> SUFFICES ASSUME MemoryInv, Durable, Durable', Next, ftw # "half", ftw' # "half"
               PROVE  AtomicStep
    BY DEF AtomicStep
  <2>1. \/ committed' = committed
        \/ pc # "idle" /\ committed' = [committed EXCEPT ![op.name] = op.val]
        \/ ftw # "done" /\ ftw' = "done" /\ committed' = spared
    BY DEF Next, CommonInitialize, WriteServiceInitialize, ReclaimForOS, ExitBootServices,
           PowerLoss, SetVariable, MarkInDeletedTransition, HasRoom, OutOfResourcesAtRuntime,
           ReclaimAndAdd, WriteHeader, WriteHeaderValid, WriteData, WriteAdded,
           DeleteInDeletedTransition, DeleteOld, FtwVariableSpaceError
  <2>2. doubled \subseteq doubled' /\ unsafe \subseteq unsafe'
    BY DEF Next, CommonInitialize, WriteServiceInitialize, ReclaimForOS, ExitBootServices,
           PowerLoss, SetVariable, MarkInDeletedTransition, HasRoom, OutOfResourcesAtRuntime,
           ReclaimAndAdd, WriteHeader, WriteHeaderValid, WriteData, WriteAdded,
           DeleteInDeletedTransition, DeleteOld, Return, Continue, SetState
  <2>3. committed \in [Names -> Values \cup {NoVal}] /\ Sound' \subseteq Sound /\ Sound' \subseteq Names
    BY <2>2 DEF MemoryInv, TypeOK, Sound
  <2>4. \A n \in Sound' : /\ GetVariable(AsRead, n) = committed[n]
                          /\ GetVariable(AsRead, n)' = committed'[n]
    BY <2>3 DEF Durable
  <2>5. \A n \in Sound' : \/ committed'[n] = committed[n]
                          \/ pc # "idle" /\ n = op.name /\ committed'[n] = op.val
                          \/ ftw # "done" /\ ftw' = "done" /\ committed'[n] = spared[n]
    BY <2>1, <2>3
  <2>6. \A m, n \in {x \in Sound' : committed'[x] # committed[x]} : m = n
    <3>1. CASE pc # "idle" /\ committed' = [committed EXCEPT ![op.name] = op.val]
      BY <2>3, <3>1
    <3>2. CASE ftw # "done" /\ committed' = spared
      <4>1. \A m, n \in {x \in Sound : spared[x] # committed[x]} : m = n
        BY <3>2 DEF Durable
      <4> QED BY <2>3, <3>2, <4>1
    <3> QED BY <2>1, <3>1, <3>2
  <2> QED BY <2>4, <2>5, <2>6 DEF AtomicStep
<1> QED BY <1>1, <1>2, MemoryInvariant, ValueInvariant, PTL DEF Spec

-----------------------------------------------------------------------------
(* When the fault tolerant write never fails *)

\* No write waits in the spare block, no name is at risk and every header reads as
\* it was programmed; while variables may be updated the free area is free.
NeverEndangered ==
  /\ ftw = "done" /\ unsafe = {} /\ garbled = {}
  /\ phase \in {"boot", "runtime"} => tail = "free"

\* If the fault tolerant write returns no error, the start-up reclaims whatever a loss
\* of power has torn and nothing is ever endangered: the properties of the store then
\* hold of every name but those left with two copies in transition.
THEOREM SafeWithoutFtwErrors ==
  ASSUME FtwErrors = {}
  PROVE  Spec => []NeverEndangered
<1>1. Init => NeverEndangered
  BY DEF Init, NeverEndangered
<1>2. MemoryInv /\ NeverEndangered /\ [Next]_vars => NeverEndangered'
  <2> SUFFICES ASSUME MemoryInv, NeverEndangered, [Next]_vars PROVE NeverEndangered'
    OBVIOUS
  <2>0. /\ ftw = "done" /\ unsafe = {} /\ garbled = {}
        /\ phase \in {"boot", "runtime"} => tail = "free"
        /\ pc # "idle" => phase \in {"boot", "runtime"}
    BY DEF NeverEndangered, MemoryInv, PhaseOK
  <2>e. \A s, contents : ~FtwVariableSpaceError(s, contents)
    BY <2>0 DEF FtwVariableSpaceError
  <2>1. CASE CommonInitialize
    BY <2>0, <2>1 DEF CommonInitialize, Reread, NeverEndangered
  <2>2. CASE WriteServiceInitialize \/ ReclaimForOS
    BY <2>0, <2>e, <2>2 DEF WriteServiceInitialize, ReclaimForOS, FtwVariableSpace, Reread, block,
                            NeverEndangered
  <2>3. CASE PowerLoss
    BY <2>0, <2>3 DEF PowerLoss, block, NeverEndangered
  <2>4. CASE ExitBootServices
    BY <2>0, <2>4 DEF ExitBootServices, block, NeverEndangered
  <2>5. ASSUME NEW n \in Names, NEW v \in Values \cup {NoVal}, SetVariable(n, v)
        PROVE  NeverEndangered'
    <3>1. ~Endangered
      BY <2>0, <2>5 DEF SetVariable, Endangered
    <3> QED BY <2>0, <2>5, <3>1 DEF SetVariable, block, NeverEndangered
  <2>6. CASE ReclaimAndAdd
    <3>1. ftw' = ftw /\ unsafe' = unsafe /\ garbled' = {} /\ (tail' = tail \/ tail' = "free")
          /\ phase' = phase
      BY <2>e, <2>6 DEF ReclaimAndAdd, FtwVariableSpace, Reread, block
    <3> QED BY <2>0, <3>1 DEF NeverEndangered
  <2>7. CASE WriteHeader
    <3>1. phase \in {"boot", "runtime"} /\ tail = "free"
      BY <2>0, <2>7 DEF WriteHeader
    <3> QED BY <2>0, <2>7, <3>1 DEF WriteHeader, block, NeverEndangered
  <2>8. CASE \/ MarkInDeletedTransition \/ HasRoom \/ OutOfResourcesAtRuntime
             \/ WriteHeaderValid \/ WriteData \/ WriteAdded
             \/ DeleteInDeletedTransition \/ DeleteOld
    <3>1. UNCHANGED <<ftw, unsafe, garbled, tail, phase>>
      BY <2>8 DEF MarkInDeletedTransition, HasRoom, OutOfResourcesAtRuntime, WriteHeaderValid,
                  WriteData, WriteAdded, DeleteInDeletedTransition, DeleteOld, SetState, block
    <3> QED BY <2>0, <3>1 DEF NeverEndangered
  <2>9. CASE UNCHANGED vars
    BY <2>0, <2>9 DEF vars, block, NeverEndangered
  <2> QED BY <2>1, <2>2, <2>3, <2>4, <2>5, <2>6, <2>7, <2>8, <2>9 DEF Next
<1> QED BY <1>1, <1>2, MemoryInvariant, PTL DEF Spec
=============================================================================
