---------------------------- MODULE Hand_proofs ----------------------------
(***************************************************************************)
(* Proofs about the handle and protocol database: for any handles,         *)
(* protocols and agents and any depth of nesting, the lists agree and a    *)
(* registration is told of every interface; with owners that wait nothing  *)
(* stale is used and nothing in use is removed; without nested exclusive   *)
(* opens an interface has one manager.                                     *)
(***************************************************************************)
EXTENDS Hand, FiniteSetTheorems, SequenceTheorems, WellFoundedInduction, TLAPS

-----------------------------------------------------------------------------
(* The inductive invariants. *)

ProtocolInterface == [handle : Handles, protocol : Protocols, interface : Interfaces,
                      open : SUBSET OpenData]

\* The lists hold what the structures say, as in ListsAgree.
Lists ==
  /\ byHandle \in [Handles -> Seq(ProtId)] /\ byProtocol \in [Protocols -> Seq(ProtId)]
  /\ prot \in [ProtId -> ProtocolInterface \cup {NoProt}]
  /\ \A p \in Protocols : /\ IsInjective(byProtocol[p])
                          /\ ToSet(byProtocol[p]) = {x \in Live : prot[x].protocol = p}
  /\ \A h \in Handles : /\ IsInjective(byHandle[h])
                        /\ ToSet(byHandle[h]) = {x \in Live : prot[x].handle = h}
  /\ gHandleList = {h \in Handles : byHandle[h] # <<>>}

\* A registration at the entry pos of a list has been told of the entries up to it.
Told(list, pos, told) ==
  \E n \in 0..Len(list) : /\ n = 0 => pos = 0
                          /\ n > 0 => pos = list[n]
                          /\ told = {list[k] : k \in 1..n}

\* ToldOnce, with the types of the history and no Position without a registration.
Notices ==
  /\ Position \in [Protocols -> 0..MaxProt]
  /\ seen \in [Protocols -> SUBSET ProtId] /\ old \in [Protocols -> SUBSET ProtId]
  /\ registered \subseteq Watched
  /\ signaled \subseteq registered /\ notifying \subseteq registered
  /\ \A p \in Protocols \ registered : Position[p] = 0
  /\ \A p \in registered : Told(byProtocol[p], Position[p], seen[p])

StackOK == stack \in Seq(Call) /\ Len(stack) <= MaxDepth

DatabaseInv == Lists /\ Notices /\ StackOK /\ ToldSoon

\* The structure x is an interface that the call c is about.
On(P, x, c) == P[x].handle = c.handle /\ P[x].protocol = c.protocol
SamePlace(c, d) == c.handle = d.handle /\ c.protocol = d.protocol

\* While owners wait: a handle has a protocol once, and no call changes an
\* interface that a call outside of it is at work on.
OneInterface ==
  \A x, y \in Live : prot[x].handle = prot[y].handle /\ prot[x].protocol = prot[y].protocol => x = y

Apart(s) ==
  \A j, k \in DOMAIN s : j < k /\ s[j].op # "open" => ~SamePlace(s[j], s[k])

\* A call is yet to look for an interface that it is to remove or replace.
Waits(c) == c.op \in {"uninstall", "reinstall"} /\ c.pc = "lock"
Present(c, L, P) == \E x \in L : On(P, x, c)

\* So an interface that is to be installed is not there yet, there is something on
\* the handle that a call will look at, and an interface that was looked up is the
\* one that was found.
Fits(c, L, P) ==
  /\ c.op = "install" => c.pc = "lock" /\ \A x \in L : ~On(P, x, c)
  /\ c.op = "open" => c.pc \in {"stop", "rescan"}
  /\ Waits(c) => \E x \in L : P[x].handle = c.handle
  /\ c.pc \in {"stop", "rescan"} => c.prot \in L /\ On(P, c.prot, c)

\* Inside a call that will remove an interface of a handle, calls outside of it that
\* wait find theirs, which is another one: it is not the handle's last.
Guarded(s, L, P) ==
  \A j, k \in DOMAIN s :
    j < k /\ s[j].op = "uninstall" /\ s[j].handle = s[k].handle /\ Waits(s[k])
      => Present(s[k], L, P)

OwnersInv ==
  /\ OneInterface /\ Apart(stack) /\ Guarded(stack, Live, prot)
  /\ \A k \in DOMAIN stack : Fits(stack[k], Live, prot)

\* Without nested exclusive opens: one entry of an open list manages or excludes,
\* and the one open that waits for a driver is the outermost call and finds nobody
\* else exclusive.
Excluding(P, x) == {o \in P[x].open : EXCLUSIVE \in o.attr}
Claims(P, x) == {o \in P[x].open : BY_DRIVER \in o.attr \/ EXCLUSIVE \in o.attr}

Sole == \A x \in Live : \A o, u \in Claims(prot, x) : o = u

Opener(c, L, P) ==
  /\ c.pc \in {"stop", "rescan"} /\ c.prot \in ProtId
  /\ c.prot \in L => Excluding(P, c.prot) = {}

OpenersInv ==
  /\ Sole
  /\ \A k \in DOMAIN stack :
       stack[k].op = "open" => k = Len(stack) /\ Opener(stack[k], Live, prot)

-----------------------------------------------------------------------------
(* Lists and lookups. *)

\* A set of numbers has a least element: the first entry that is looked for, and
\* the structure that is given out.
LEMMA MinFacts ==
  ASSUME NEW S, S \subseteq Nat, S # {}
  PROVE  Min(S) \in S
<1> DEFINE R == OpToRel(<, Nat)
<1>1. PICK x \in S : \A y \in S : <<y, x>> \notin R
  <2> HIDE DEF R
  <2>1. IsWellFoundedOn(R, Nat)
    BY NatLessThanWellFounded DEF R
  <2> QED BY <2>1, WFMin
<1>2. ASSUME NEW y \in S
      PROVE  x <= y
  <2>1. x \in Nat /\ y \in Nat
    OBVIOUS
  <2>2. ~(y < x)
    BY <1>1, <2>1 DEF OpToRel
  <2> QED BY <2>1, <2>2
<1> QED BY <1>2 DEF Min

\* CoreFindProtocolInterface returns an interface of the handle that matches.
LEMMA FindFacts ==
  ASSUME NEW h, NEW p, NEW i, byHandle[h] \in Seq(ProtId),
         CoreFindProtocolInterface(h, p, i) # 0
  PROVE  /\ CoreFindProtocolInterface(h, p, i) \in ToSet(byHandle[h])
         /\ prot[CoreFindProtocolInterface(h, p, i)].protocol = p
<1> DEFINE s == byHandle[h]
           S == {k \in 1..Len(s) : prot[s[k]].protocol = p /\ prot[s[k]].interface = i}
<1>1. CoreFindProtocolInterface(h, p, i) =
        LET k == IF S # {} THEN Min(S) ELSE 0 IN IF k = 0 THEN 0 ELSE s[k]
  BY DEF CoreFindProtocolInterface, First, SelectInSeq
<1>2. S # {} /\ S \subseteq Nat
  <2>1. S \subseteq Nat
    OBVIOUS
  <2> HIDE DEF S, s
  <2> QED BY <1>1, <2>1
<1>3. Min(S) \in S
  BY <1>2, MinFacts
<1>4. CoreFindProtocolInterface(h, p, i) = s[Min(S)]
  BY <1>1, <1>2, <1>3
<1> HIDE DEF S
<1>5. Min(S) \in 1..Len(s) /\ prot[s[Min(S)]].protocol = p
  BY <1>3 DEF S
<1> QED BY <1>4, <1>5 DEF ToSet

\* CoreGetProtocolInterface returns an interface of the handle with the protocol,
\* and none only if there is none.
LEMMA GetFacts ==
  ASSUME NEW h, NEW p, byHandle[h] \in Seq(ProtId)
  PROVE  /\ CoreGetProtocolInterface(h, p) # 0 =>
              /\ CoreGetProtocolInterface(h, p) \in ToSet(byHandle[h])
              /\ prot[CoreGetProtocolInterface(h, p)].protocol = p
         /\ CoreGetProtocolInterface(h, p) = 0 =>
              \A x \in ToSet(byHandle[h]) : prot[x].protocol # p
<1> DEFINE s == byHandle[h]
           S == {k \in 1..Len(s) : prot[s[k]].protocol = p}
<1>1. CoreGetProtocolInterface(h, p) =
        LET k == IF S # {} THEN Min(S) ELSE 0 IN IF k = 0 THEN 0 ELSE s[k]
  BY DEF CoreGetProtocolInterface, First, SelectInSeq
<1>2. CASE S # {}
  <2>1. S \subseteq Nat
    OBVIOUS
  <2>2. Min(S) \in S
    BY <1>2, <2>1, MinFacts
  <2>3. CoreGetProtocolInterface(h, p) = s[Min(S)]
    BY <1>1, <1>2, <2>2
  <2> HIDE DEF S
  <2>4. Min(S) \in 1..Len(s) /\ prot[s[Min(S)]].protocol = p
    BY <2>2 DEF S
  <2>5. s[Min(S)] \in ProtId
    BY <2>4
  <2>6. s[Min(S)] # 0
    BY <2>5, ConstantsAssumption DEF ProtId
  <2> QED BY <2>3, <2>4, <2>6 DEF ToSet
<1>3. CASE S = {}
  <2>1. CoreGetProtocolInterface(h, p) = 0
    BY <1>1, <1>3
  <2>2. \A k \in 1..Len(s) : prot[s[k]].protocol # p
    BY <1>3
  <2> QED BY <2>1, <2>2 DEF ToSet
<1> QED BY <1>2, <1>3

\* InsertTailList: the entry is behind the others.
LEMMA AppendFacts ==
  ASSUME NEW list \in Seq(ProtId), IsInjective(list), NEW x \in ProtId \ ToSet(list),
         NEW s, s = Append(list, x)
  PROVE  /\ s \in Seq(ProtId) /\ IsInjective(s) /\ ToSet(s) = ToSet(list) \cup {x}
         /\ Len(s) = Len(list) + 1 /\ \A k \in 1..Len(list) : s[k] = list[k]
<1>1. /\ s \in Seq(ProtId) /\ Len(s) = Len(list) + 1 /\ s[Len(list) + 1] = x
      /\ Len(list) \in Nat /\ \A k \in 1..Len(list) : s[k] = list[k]
  OBVIOUS
<1>2. DOMAIN s = 1..(Len(list) + 1) /\ DOMAIN list = 1..Len(list)
  BY <1>1
<1>3. \A k \in 1..(Len(list) + 1) : k \in 1..Len(list) \/ k = Len(list) + 1
  BY <1>1
<1>4. \A k \in 1..Len(list) : list[k] # x
  BY <1>2 DEF ToSet
<1>5. IsInjective(s)
  BY <1>1, <1>2, <1>3, <1>4 DEF IsInjective
<1>6. ToSet(s) = ToSet(list) \cup {x}
  BY <1>1, <1>2, <1>3 DEF ToSet
<1> QED BY <1>1, <1>5, <1>6

\* InsertHeadList: the entry is before the others.
LEMMA PrependFacts ==
  ASSUME NEW list \in Seq(ProtId), IsInjective(list), NEW x \in ProtId \ ToSet(list),
         NEW s, s = <<x>> \o list
  PROVE  /\ s \in Seq(ProtId) /\ IsInjective(s) /\ ToSet(s) = ToSet(list) \cup {x}
         /\ s # <<>>
<1>1. /\ s \in Seq(ProtId) /\ Len(s) = Len(list) + 1 /\ s[1] = x
      /\ Len(list) \in Nat /\ \A k \in 1..Len(list) : s[k + 1] = list[k]
  OBVIOUS
<1>2. DOMAIN s = 1..(Len(list) + 1) /\ DOMAIN list = 1..Len(list)
  BY <1>1
<1>3. \A k \in 1..(Len(list) + 1) : k = 1 \/ (k - 1 \in 1..Len(list) /\ s[k] = list[k - 1])
  BY <1>1
<1>4. \A k \in 1..Len(list) : list[k] # x
  BY <1>2 DEF ToSet
<1>5. IsInjective(s)
  BY <1>1, <1>2, <1>3, <1>4 DEF IsInjective
<1>6. ToSet(s) = ToSet(list) \cup {x}
  <2>1. ToSet(s) \subseteq ToSet(list) \cup {x}
    BY <1>1, <1>2, <1>3 DEF ToSet
  <2>2. ASSUME NEW k \in 1..Len(list)
        PROVE  list[k] \in ToSet(s)
    <3>1. k + 1 \in DOMAIN s /\ s[k + 1] = list[k]
      BY <1>1, <1>2
    <3> QED BY <3>1 DEF ToSet
  <2>3. x \in ToSet(s)
    BY <1>1, <1>2 DEF ToSet
  <2> QED BY <1>2, <2>1, <2>2, <2>3 DEF ToSet
<1> QED BY <1>1, <1>5, <1>6

\* RemoveEntryList: the others stay, in their order.
LEMMA RemoveFacts ==
  ASSUME NEW list \in Seq(ProtId), IsInjective(list), NEW x \in ToSet(list),
         NEW s, s = RemoveEntry(list, x)
  PROVE  /\ s \in Seq(ProtId) /\ IsInjective(s) /\ ToSet(s) = ToSet(list) \ {x}
         /\ \E at \in 1..Len(list) :
              /\ list[at] = x /\ Len(s) = Len(list) - 1
              /\ \A k \in 1..(Len(list) - 1) :
                   s[k] = IF k < at THEN list[k] ELSE list[k + 1]
<1> DEFINE n == Len(list)
           at == CHOOSE k \in 1..Len(list) : list[k] = x
           r == [k \in 1..(Len(list) - 1) |-> IF k < at THEN list[k] ELSE list[k + 1]]
<1>1. DOMAIN list = 1..n /\ n \in Nat /\ \E k \in 1..Len(list) : list[k] = x
  BY DEF ToSet
<1>2. at \in 1..n /\ list[at] = x
  BY <1>1
<1>3. s = r
  BY <1>1 DEF RemoveEntry
<1> HIDE DEF at
<1>4. r \in [1..(n - 1) -> ProtId] /\ n - 1 \in Nat
  BY <1>2
<1>5. r \in Seq(ProtId) /\ Len(r) = n - 1 /\ DOMAIN r = 1..(n - 1)
  BY <1>4, SeqDef
<1> DEFINE src(k) == IF k < at THEN k ELSE k + 1
<1>6. \A k \in 1..(n - 1) : src(k) \in 1..n /\ src(k) # at /\ r[k] = list[src(k)]
  BY <1>2
<1>7. \A j, k \in 1..(n - 1) : src(j) = src(k) => j = k
  BY <1>2
<1>8. \A k \in 1..n : k # at => \E j \in 1..(n - 1) : k = src(j)
  <2> TAKE k \in 1..n
  <2> HAVE k # at
  <2>1. CASE k < at
    <3>1. k \in 1..(n - 1) /\ k = src(k)
      BY <1>2, <2>1
    <3> QED BY <3>1
  <2>2. CASE k > at
    <3>1. k - 1 \in 1..(n - 1) /\ k = src(k - 1)
      BY <1>2, <2>2
    <3> QED BY <3>1
  <2> QED BY <1>2, <2>1, <2>2
<1>9. \A k \in 1..(n - 1) : r[k] = IF k < at THEN list[k] ELSE list[k + 1]
  OBVIOUS
<1> HIDE DEF src, r
<1>10. IsInjective(r)
  BY <1>1, <1>5, <1>6, <1>7 DEF IsInjective
<1>11. x \notin ToSet(r)
  BY <1>1, <1>2, <1>5, <1>6 DEF IsInjective, ToSet
<1>12. ToSet(r) \subseteq ToSet(list)
  BY <1>1, <1>5, <1>6 DEF ToSet
<1>13. ASSUME NEW y \in ToSet(list), y # x
       PROVE  y \in ToSet(r)
  <2>1. PICK k \in 1..n : list[k] = y
    BY <1>1 DEF ToSet
  <2>2. PICK j \in 1..(n - 1) : k = src(j)
    BY <1>2, <1>8, <1>13, <2>1
  <2> QED BY <1>5, <1>6, <2>1, <2>2 DEF ToSet
<1>14. ToSet(r) = ToSet(list) \ {x}
  BY <1>11, <1>12, <1>13
<1>15. at \in 1..Len(list) /\ list[at] = x /\ Len(r) = Len(list) - 1
  BY <1>2, <1>5
<1> QED BY <1>3, <1>5, <1>9, <1>10, <1>14, <1>15

\* A structure in use is not a free one.
LEMMA InterfaceIsSome ==
  ASSUME NEW r \in ProtocolInterface
  PROVE  r # NoProt
<1>1. DOMAIN r = {"handle", "protocol", "interface", "open"}
  BY DEF ProtocolInterface
<1>2. DOMAIN NoProt = {"handle"}
  BY DEF NoProt
<1> QED BY <1>1, <1>2

\* The place of a registration in its list is the entry it points to.
LEMMA PlaceFacts ==
  ASSUME NEW p, byProtocol[p] \in Seq(ProtId), IsInjective(byProtocol[p]),
         Told(byProtocol[p], Position[p], seen[p])
  PROVE  /\ Place(p) \in 0..Len(byProtocol[p])
         /\ Place(p) = 0 <=> Position[p] = 0
         /\ Place(p) > 0 => Position[p] = byProtocol[p][Place(p)]
         /\ seen[p] = {byProtocol[p][k] : k \in 1..Place(p)}
<1> DEFINE list == byProtocol[p]
<1>1. PICK n \in 0..Len(list) : /\ n = 0 => Position[p] = 0
                                /\ n > 0 => Position[p] = list[n]
                                /\ seen[p] = {list[k] : k \in 1..n}
  BY DEF Told
<1>2. CASE n = 0
  BY <1>1, <1>2 DEF Place
<1>3. CASE n > 0
  <2>1. n \in DOMAIN list /\ list[n] = Position[p] /\ Position[p] \in ProtId
    BY <1>1, <1>3
  <2>2. Position[p] # 0
    BY <2>1, ConstantsAssumption DEF ProtId
  <2>3. \A k \in DOMAIN list : list[k] = Position[p] => k = n
    BY <2>1 DEF IsInjective
  <2>4. Place(p) = CHOOSE k \in DOMAIN list : list[k] = Position[p]
    BY <2>2 DEF Place
  <2>5. Place(p) \in DOMAIN list /\ list[Place(p)] = Position[p]
    BY <2>1, <2>4
  <2>6. Place(p) = n
    BY <2>3, <2>5
  <2> QED BY <1>1, <1>3, <2>2, <2>6
<1>4. n = 0 \/ n > 0
  <2>1. Len(list) \in Nat
    OBVIOUS
  <2> QED BY <1>1, <2>1
<1> QED BY <1>2, <1>3, <1>4

\* And it is told of the same entries when one is added at the tail,
LEMMA ToldAppend ==
  ASSUME NEW list \in Seq(ProtId), NEW pos, NEW told, Told(list, pos, told), NEW x
  PROVE  Told(Append(list, x), pos, told)
<1>1. PICK n \in 0..Len(list) : /\ n = 0 => pos = 0
                                /\ n > 0 => pos = list[n]
                                /\ told = {list[k] : k \in 1..n}
  BY DEF Told
<1> DEFINE s == Append(list, x)
<1>2. /\ Len(list) \in Nat /\ Len(s) = Len(list) + 1
      /\ \A k \in 1..Len(list) : s[k] = list[k]
  OBVIOUS
<1> HIDE DEF s
<1>3. n \in 0..Len(s) /\ \A k \in 1..n : s[k] = list[k]
  BY <1>2
<1>4. told = {s[k] : k \in 1..n}
  BY <1>1, <1>3
<1>5. n > 0 => pos = s[n]
  BY <1>1, <1>3
<1>6. Told(s, pos, told)
  BY <1>1, <1>3, <1>4, <1>5 DEF Told
<1> QED BY <1>6 DEF s

\* The entries of a list up to the n-th, and the Position after x is removed.
UpTo(list, n) == {list[k] : k \in 1..n}
BackedUp(list, n, pos, x) ==
  IF pos # x THEN pos ELSE IF n = 1 THEN 0 ELSE list[n - 1]

\* and of all but the one that is removed, if it is backed up from that one.
LEMMA ToldRemove ==
  ASSUME NEW list \in Seq(ProtId), IsInjective(list), NEW n \in 0..Len(list),
         NEW pos, n = 0 => pos = 0, n > 0 => pos = list[n], NEW x \in ToSet(list)
  PROVE  /\ Told(RemoveEntry(list, x), BackedUp(list, n, pos, x), UpTo(list, n) \ {x})
         /\ BackedUp(list, n, pos, x) \in 0..MaxProt
<1> DEFINE told == {list[k] : k \in 1..n}
           s == RemoveEntry(list, x)
           new == IF pos # x THEN pos ELSE IF n = 1 THEN 0 ELSE list[n - 1]
<1> SUFFICES Told(s, new, told \ {x}) /\ new \in 0..MaxProt
  BY DEF BackedUp, UpTo
<1>1. PICK at \in 1..Len(list) :
        /\ list[at] = x /\ Len(s) = Len(list) - 1
        /\ \A k \in 1..(Len(list) - 1) : s[k] = IF k < at THEN list[k] ELSE list[k + 1]
  BY RemoveFacts
<1> HIDE DEF s
<1>2. Len(list) \in Nat /\ DOMAIN list = 1..Len(list) /\ x \in ProtId
  BY DEF ToSet
<1>3. \A k \in 1..Len(list) : list[k] = x <=> k = at
  BY <1>1, <1>2 DEF IsInjective
<1>4. \A k \in 1..Len(list) : list[k] \in 1..MaxProt
  <2>1. \A k \in 1..Len(list) : list[k] \in ProtId
    BY <1>2
  <2> QED BY <2>1 DEF ProtId
<1>5. x # 0
  BY <1>2, ConstantsAssumption DEF ProtId
<1>6. CASE n < at
  <2>1. new = pos /\ new \in 0..MaxProt
    BY <1>2, <1>3, <1>4, <1>5, <1>6, ConstantsAssumption
  <2>2. n \in 0..Len(s) /\ \A k \in 1..n : s[k] = list[k] /\ list[k] # x
    BY <1>1, <1>2, <1>3, <1>6
  <2>3. told \ {x} = {s[k] : k \in 1..n}
    BY <2>2
  <2>4. n > 0 => pos = s[n]
    BY <2>2
  <2> QED BY <2>1, <2>2, <2>3, <2>4 DEF Told
<1>7. CASE n = at
  <2>1. pos = x
    BY <1>1, <1>7
  <2>2. n - 1 \in 0..Len(s) /\ \A k \in 1..(n - 1) : s[k] = list[k] /\ list[k] # x
    BY <1>1, <1>2, <1>3, <1>7
  <2>3. told \ {x} = {s[k] : k \in 1..(n - 1)}
    <3>1. \A k \in 1..n : k \in 1..(n - 1) \/ k = n
      OBVIOUS
    <3>2. \A k \in 1..(n - 1) : k \in 1..n
      OBVIOUS
    <3>3. list[n] = x
      BY <1>1, <1>7
    <3> QED BY <2>2, <3>1, <3>2, <3>3
  <2>4. n - 1 > 0 => new = s[n - 1]
    BY <2>1, <2>2
  <2>5. n - 1 = 0 => new = 0
    BY <2>1
  <2>6. new \in 0..MaxProt
    BY <1>1, <1>2, <1>4, <1>7, <2>1, ConstantsAssumption
  <2> QED BY <2>2, <2>3, <2>4, <2>5, <2>6 DEF Told
<1>8. CASE n > at
  <2>1. new = pos /\ new \in 0..MaxProt
    BY <1>2, <1>3, <1>4, <1>8, ConstantsAssumption
  <2>2. /\ n - 1 \in 1..Len(s)
        /\ \A k \in 1..(n - 1) : s[k] = IF k < at THEN list[k] ELSE list[k + 1]
    BY <1>1, <1>2, <1>8
  <2>3. pos = s[n - 1]
    BY <1>2, <1>8, <2>2
  <2>4. \A k \in 1..(n - 1) : \E j \in 1..n : s[k] = list[j] /\ list[j] # x
    <3> TAKE k \in 1..(n - 1)
    <3>1. CASE k < at
      BY <1>2, <1>3, <2>2, <3>1
    <3>2. CASE k >= at
      <4>1. k + 1 \in 1..n /\ s[k] = list[k + 1] /\ list[k + 1] # x
        BY <1>2, <1>3, <2>2, <3>2
      <4> QED BY <4>1
    <3> QED BY <3>1, <3>2
  <2>5. \A j \in 1..n : list[j] # x => \E k \in 1..(n - 1) : s[k] = list[j]
    <3> TAKE j \in 1..n
    <3> HAVE list[j] # x
    <3>1. j # at
      BY <1>1
    <3>2. CASE j < at
      <4>1. j \in 1..(n - 1) /\ s[j] = list[j]
        BY <1>8, <2>2, <3>2
      <4> QED BY <4>1
    <3>3. CASE j > at
      <4>1. j - 1 \in 1..(n - 1) /\ s[j - 1] = list[j]
        BY <1>8, <2>2, <3>3
      <4> QED BY <4>1
    <3> QED BY <1>2, <3>1, <3>2, <3>3
  <2>6. told \ {x} = {s[k] : k \in 1..(n - 1)}
    <3>1. ASSUME NEW y \in told \ {x}
          PROVE  y \in {s[k] : k \in 1..(n - 1)}
      BY <2>5
    <3>2. ASSUME NEW k \in 1..(n - 1)
          PROVE  s[k] \in told \ {x}
      <4>1. PICK j \in 1..n : s[k] = list[j] /\ list[j] # x
        BY <2>4
      <4> QED BY <4>1
    <3> QED BY <3>1, <3>2
  <2>7. n - 1 \in 0..Len(s) /\ n - 1 # 0
    BY <1>1, <1>2, <2>2
  <2> QED BY <2>1, <2>3, <2>6, <2>7 DEF Told
<1> QED BY <1>2, <1>6, <1>7, <1>8

-----------------------------------------------------------------------------
(* The stack of calls. *)

\* A call begins inside the others,
LEMMA PushFacts ==
  ASSUME NEW s \in Seq(Call), NEW c \in Call, NEW t, t = <<c>> \o s
  PROVE  /\ t \in Seq(Call) /\ Len(t) = Len(s) + 1 /\ t[1] = c
         /\ DOMAIN t = 1..(Len(s) + 1)
         /\ \A k \in DOMAIN s : k + 1 \in DOMAIN t /\ t[k + 1] = s[k]
         /\ \A k \in DOMAIN t : k = 1 \/ (k - 1 \in DOMAIN s /\ t[k] = s[k - 1])
<1>1. /\ t \in Seq(Call) /\ Len(t) = Len(s) + 1 /\ t[1] = c
      /\ Len(s) \in Nat /\ DOMAIN s = 1..Len(s)
      /\ \A k \in 1..Len(s) : t[k + 1] = s[k]
  OBVIOUS
<1>2. DOMAIN t = 1..(Len(s) + 1)
  BY <1>1
<1> QED BY <1>1, <1>2

\* the innermost one returns,
LEMMA PopFacts ==
  ASSUME NEW s \in Seq(Call), s # <<>>, NEW t, t = Tail(s)
  PROVE  /\ t \in Seq(Call) /\ Len(t) = Len(s) - 1
         /\ Head(s) = s[1] /\ 1 \in DOMAIN s /\ Head(s) \in Call
         /\ \A k \in DOMAIN s : k = 1 \/ (k - 1 \in DOMAIN t /\ t[k - 1] = s[k])
         /\ \A k \in DOMAIN t : k + 1 \in DOMAIN s /\ t[k] = s[k + 1]
<1>1. /\ t \in Seq(Call) /\ Len(t) = Len(s) - 1 /\ Len(s) \in Nat /\ Len(s) # 0
      /\ DOMAIN s = 1..Len(s) /\ Head(s) = s[1]
      /\ \A k \in 1..(Len(s) - 1) : t[k] = s[k + 1]
  OBVIOUS
<1>2. DOMAIN t = 1..(Len(s) - 1)
  BY <1>1
<1>3. 1 \in DOMAIN s /\ s[1] \in Call
  BY <1>1
<1> QED BY <1>1, <1>2, <1>3

\* or goes on to another place.
LEMMA GotoFacts ==
  ASSUME NEW s \in Seq(Call), s # <<>>, NEW c \in Call, NEW t, t = <<c>> \o Tail(s)
  PROVE  /\ t \in Seq(Call) /\ Len(t) = Len(s) /\ t[1] = c
         /\ Head(s) = s[1] /\ 1 \in DOMAIN s /\ Head(s) \in Call /\ Head(t) = c
         /\ DOMAIN t = DOMAIN s
         /\ \A k \in DOMAIN s : k # 1 => t[k] = s[k]
<1> DEFINE u == Tail(s)
<1>1. /\ u \in Seq(Call) /\ Len(u) = Len(s) - 1
      /\ Head(s) = s[1] /\ 1 \in DOMAIN s /\ Head(s) \in Call
      /\ \A k \in DOMAIN s : k = 1 \/ (k - 1 \in DOMAIN u /\ u[k - 1] = s[k])
      /\ \A k \in DOMAIN u : k + 1 \in DOMAIN s /\ u[k] = s[k + 1]
  BY PopFacts
<1> HIDE DEF u
<1>2. /\ t \in Seq(Call) /\ Len(t) = Len(u) + 1 /\ t[1] = c
      /\ DOMAIN t = 1..(Len(u) + 1)
      /\ \A k \in DOMAIN u : k + 1 \in DOMAIN t /\ t[k + 1] = u[k]
      /\ \A k \in DOMAIN t : k = 1 \/ (k - 1 \in DOMAIN u /\ t[k] = u[k - 1])
  BY <1>1, PushFacts DEF u
<1>3. Len(t) = Len(s) /\ DOMAIN t = DOMAIN s
  BY <1>1, <1>2
<1>4. ASSUME NEW k \in DOMAIN s, k # 1
      PROVE  t[k] = s[k]
  BY <1>1, <1>2, <1>3, <1>4
<1>5. Head(t) = c
  BY <1>2
<1> QED BY <1>1, <1>2, <1>3, <1>4, <1>5

\* A new call is a call.
LEMMA NewCallType ==
  ASSUME NEW op \in {"install", "uninstall", "reinstall", "open"}, NEW h \in Handles,
         NEW p \in Protocols, NEW i \in Interfaces
  PROVE  NewCall(op, h, p, i) \in Call
<1>1. {GET_PROTOCOL} \in Attributes /\ 0 \in 0..MaxProt
  BY ConstantsAssumption DEF Attributes
<1> QED BY <1>1 DEF NewCall, Call

\* The innermost call at another place is the same call.
LEMMA TopType ==
  ASSUME StackOK, stack # <<>>
  PROVE  /\ Top \in Call /\ Top = stack[1] /\ 1 \in DOMAIN stack
         /\ Top.handle \in Handles /\ Top.protocol \in Protocols /\ Top.interface \in Interfaces
         /\ Top.opener \in Agents \cup {Core} /\ Top.attr \in Attributes
         /\ Top.prot \in 0..MaxProt
         /\ \A pc \in {"stop", "rescan", "connect", "started"}, x \in 0..MaxProt,
               d \in Agents \cup {Core} :
              [Top EXCEPT !.pc = pc, !.prot = x, !.agent = d] \in Call
<1>1. Top \in Call /\ Top = stack[1] /\ 1 \in DOMAIN stack
  BY PopFacts DEF StackOK, Top
<1> QED BY <1>1, ZenonT(60) DEF Call
-----------------------------------------------------------------------------
(* The lists. *)

\* An interface is in use exactly if it is a structure, and then on both lists.
LEMMA LiveFacts ==
  ASSUME Lists
  PROVE  /\ \A x \in Live : /\ x \in ProtId /\ prot[x] \in ProtocolInterface
                            /\ prot[x].handle \in Handles /\ prot[x].protocol \in Protocols
                            /\ x \in ToSet(byHandle[prot[x].handle])
                            /\ x \in ToSet(byProtocol[prot[x].protocol])
                            /\ prot[x].handle \in gHandleList
                            /\ prot[x].open \subseteq OpenData
         /\ \A h \in Handles : \A x \in ToSet(byHandle[h]) :
              x \in Live /\ prot[x].handle = h
         /\ \A x \in ProtId : prot[x] \in ProtocolInterface => x \in Live
<1>1. ASSUME NEW x \in Live
      PROVE  /\ x \in ProtId /\ prot[x] \in ProtocolInterface
             /\ prot[x].handle \in Handles /\ prot[x].protocol \in Protocols
             /\ prot[x].open \subseteq OpenData
  <2>1. x \in ProtId /\ prot[x] \in ProtocolInterface
    BY DEF Lists, Live
  <2> QED BY <2>1 DEF ProtocolInterface
<1>2. ASSUME NEW x \in Live
      PROVE  /\ x \in ToSet(byHandle[prot[x].handle])
             /\ x \in ToSet(byProtocol[prot[x].protocol])
  BY <1>1 DEF Lists
<1>3. ASSUME NEW x \in Live
      PROVE  prot[x].handle \in gHandleList
  <2>1. byHandle[prot[x].handle] # <<>>
    BY <1>2 DEF ToSet
  <2> QED BY <1>1, <2>1 DEF Lists
<1>4. \A h \in Handles : \A x \in ToSet(byHandle[h]) : x \in Live /\ prot[x].handle = h
  BY DEF Lists
<1>5. \A x \in ProtId : prot[x] \in ProtocolInterface => x \in Live
  BY InterfaceIsSome DEF Live
<1> QED BY <1>1, <1>2, <1>3, <1>4, <1>5

\* A handle that is not in use has no interfaces.
LEMMA NoHandleFacts ==
  ASSUME Lists, NEW h \in Handles, h \notin gHandleList
  PROVE  byHandle[h] = <<>> /\ \A x \in Live : prot[x].handle # h
<1>1. byHandle[h] = <<>>
  BY DEF Lists
<1>2. ToSet(byHandle[h]) = {}
  BY <1>1 DEF ToSet
<1> QED BY <1>1, <1>2 DEF Lists

\* Without a change of the database the lists agree as before.
LEMMA ListsSame ==
  ASSUME Lists, UNCHANGED database
  PROVE  Lists'
BY DEF Lists, database, Live

\* A change of an open list is none of the lists.
LEMMA ListsOpen ==
  ASSUME Lists, NEW x \in Live, NEW O \in SUBSET OpenData,
         prot' = [prot EXCEPT ![x].open = O],
         UNCHANGED <<gHandleList, byHandle, byProtocol>>
  PROVE  /\ Lists' /\ Live' = Live /\ prot'[x].open = O
         /\ \A y \in Live : /\ prot'[y].handle = prot[y].handle
                            /\ prot'[y].protocol = prot[y].protocol
                            /\ prot'[y].interface = prot[y].interface
                            /\ y # x => prot'[y] = prot[y]
<1>1. x \in ProtId /\ prot[x] \in ProtocolInterface
  BY LiveFacts
<1> DEFINE r == [prot[x] EXCEPT !.open = O]
<1>2. /\ r \in ProtocolInterface /\ r.handle = prot[x].handle /\ r.open = O
      /\ r.protocol = prot[x].protocol /\ r.interface = prot[x].interface
  BY <1>1 DEF ProtocolInterface
<1>3. prot' = [prot EXCEPT ![x] = r]
  OBVIOUS
<1> HIDE DEF r
<1>4. /\ prot' \in [ProtId -> ProtocolInterface \cup {NoProt}]
      /\ prot'[x] = r /\ \A y \in ProtId : y # x => prot'[y] = prot[y]
  BY <1>1, <1>2, <1>3 DEF Lists
<1>5. r # NoProt
  BY <1>2, InterfaceIsSome
<1>6. Live' = Live
  BY <1>1, <1>4, <1>5 DEF Live
<1>7. \A y \in Live : /\ prot'[y].handle = prot[y].handle
                      /\ prot'[y].protocol = prot[y].protocol
                      /\ prot'[y].interface = prot[y].interface
  BY <1>1, <1>2, <1>4 DEF Live
<1>8. \A p \in Protocols : {y \in Live : prot'[y].protocol = p} = {y \in Live : prot[y].protocol = p}
  BY <1>7
<1>9. \A h \in Handles : {y \in Live : prot'[y].handle = h} = {y \in Live : prot[y].handle = h}
  BY <1>7
<1>10. Lists'
  BY <1>4, <1>6, <1>8, <1>9 DEF Lists
<1> QED BY <1>2, <1>4, <1>6, <1>7, <1>10 DEF Live

\* The structure x, which was free, is the new interface.
Added(h, p, i, Notify, x) ==
  /\ Live' = Live \cup {x} /\ \A y \in Live : prot'[y] = prot[y]
  /\ prot'[x] = [handle |-> h, protocol |-> p, interface |-> i, open |-> {}]
  /\ byProtocol' = [byProtocol EXCEPT ![p] = Append(@, x)]
  /\ old' = IF Notify \/ p \notin registered THEN old ELSE [old EXCEPT ![p] = @ \cup {x}]

\* CoreInstallProtocolInterfaceNotify puts a structure that was free on both lists.
LEMMA ListsAdd ==
  ASSUME Lists, NEW h \in Handles, NEW p \in Protocols, NEW i \in Interfaces,
         NEW Notify \in BOOLEAN, Memory,
         gHandleList' = gHandleList \cup {h}, AddInterface(h, p, i, Notify)
  PROVE  /\ Lists'
         /\ \E x \in ProtId \ Live : Added(h, p, i, Notify, x)
<1> DEFINE S == {y \in ProtId : prot[y] = NoProt /\ \A k \in DOMAIN stack : stack[k].prot # y}
           r == [handle |-> h, protocol |-> p, interface |-> i, open |-> {}]
<1>1. PICK x \in ProtId :
        /\ x = Min(S)
        /\ prot' = [prot EXCEPT ![x] = r]
        /\ byHandle' = [byHandle EXCEPT ![h] = <<x>> \o @]
        /\ byProtocol' = [byProtocol EXCEPT ![p] = Append(@, x)]
        /\ old' = IF Notify \/ p \notin registered THEN old
                  ELSE [old EXCEPT ![p] = @ \cup {x}]
  BY DEF AddInterface
<1>2. x \in S
  <2>1. S # {} /\ S \subseteq Nat
    BY ConstantsAssumption DEF Memory, ProtId
  <2> HIDE DEF S
  <2> QED BY <1>1, <2>1, MinFacts
<1>3. prot[x] = NoProt /\ \A k \in DOMAIN stack : stack[k].prot # x
  BY <1>2
<1> HIDE DEF S
<1>4. x \in ProtId \ Live
  BY <1>3 DEF Live
<1>5. r \in ProtocolInterface /\ r.handle = h /\ r.protocol = p
  BY DEF ProtocolInterface
<1>6. r # NoProt
  BY <1>5, InterfaceIsSome
<1>7. prot'[x] = r
  BY <1>1 DEF Lists
<1> HIDE DEF r
<1>8. /\ prot' \in [ProtId -> ProtocolInterface \cup {NoProt}]
      /\ \A y \in ProtId : y # x => prot'[y] = prot[y]
  BY <1>1, <1>5 DEF Lists
<1>9. Live' = Live \cup {x} /\ \A y \in Live : prot'[y] = prot[y]
  BY <1>4, <1>6, <1>7, <1>8 DEF Live
<1>10. /\ byHandle[h] \in Seq(ProtId) /\ IsInjective(byHandle[h])
       /\ x \in ProtId \ ToSet(byHandle[h])
  BY <1>4 DEF Lists
<1>11. /\ <<x>> \o byHandle[h] \in Seq(ProtId) /\ IsInjective(<<x>> \o byHandle[h])
       /\ ToSet(<<x>> \o byHandle[h]) = ToSet(byHandle[h]) \cup {x}
       /\ <<x>> \o byHandle[h] # <<>>
  BY <1>10, PrependFacts
<1>12. /\ byProtocol[p] \in Seq(ProtId) /\ IsInjective(byProtocol[p])
       /\ x \in ProtId \ ToSet(byProtocol[p])
  BY <1>4 DEF Lists
<1>13. /\ Append(byProtocol[p], x) \in Seq(ProtId) /\ IsInjective(Append(byProtocol[p], x))
       /\ ToSet(Append(byProtocol[p], x)) = ToSet(byProtocol[p]) \cup {x}
  BY <1>12, AppendFacts
<1>14. /\ byHandle'[h] = <<x>> \o byHandle[h] /\ byProtocol'[p] = Append(byProtocol[p], x)
       /\ \A g \in Handles : g # h => byHandle'[g] = byHandle[g]
       /\ \A q \in Protocols : q # p => byProtocol'[q] = byProtocol[q]
  BY <1>1 DEF Lists
<1>15. byHandle' \in [Handles -> Seq(ProtId)] /\ byProtocol' \in [Protocols -> Seq(ProtId)]
  BY <1>1, <1>11, <1>13 DEF Lists
<1>16. ASSUME NEW q \in Protocols
       PROVE  /\ IsInjective(byProtocol'[q])
              /\ ToSet(byProtocol'[q]) = {y \in Live' : prot'[y].protocol = q}
  <2>1. CASE q = p
    <3>1. {y \in Live' : prot'[y].protocol = p} = {y \in Live : prot[y].protocol = p} \cup {x}
      BY <1>5, <1>7, <1>9
    <3> QED BY <1>13, <1>14, <2>1, <3>1 DEF Lists
  <2>2. CASE q # p
    <3>1. {y \in Live' : prot'[y].protocol = q} = {y \in Live : prot[y].protocol = q}
      BY <1>5, <1>7, <1>9, <2>2
    <3> QED BY <1>14, <2>2, <3>1 DEF Lists
  <2> QED BY <2>1, <2>2
<1>17. ASSUME NEW g \in Handles
       PROVE  /\ IsInjective(byHandle'[g])
              /\ ToSet(byHandle'[g]) = {y \in Live' : prot'[y].handle = g}
  <2>1. CASE g = h
    <3>1. {y \in Live' : prot'[y].handle = h} = {y \in Live : prot[y].handle = h} \cup {x}
      BY <1>5, <1>7, <1>9
    <3> QED BY <1>11, <1>14, <2>1, <3>1 DEF Lists
  <2>2. CASE g # h
    <3>1. {y \in Live' : prot'[y].handle = g} = {y \in Live : prot[y].handle = g}
      BY <1>5, <1>7, <1>9, <2>2
    <3> QED BY <1>14, <2>2, <3>1 DEF Lists
  <2> QED BY <2>1, <2>2
<1>18. gHandleList' = {g \in Handles : byHandle'[g] # <<>>}
  <2>1. gHandleList = {g \in Handles : byHandle[g] # <<>>}
    BY DEF Lists
  <2> QED BY <1>11, <1>14, <2>1
<1>19. Lists'
  BY <1>8, <1>15, <1>16, <1>17, <1>18 DEF Lists
<1>20. Added(h, p, i, Notify, x)
  BY <1>1, <1>7, <1>9 DEF r, Added
<1> QED BY <1>4, <1>19, <1>20

\* CoreUninstallProtocolInterface takes a structure off both lists and frees it.
LEMMA ListsRemove ==
  ASSUME Lists, NEW h \in Handles, NEW p \in Protocols, NEW x \in ToSet(byHandle[h]),
         prot[x].protocol = p, RemoveInterface(h, p, x)
  PROVE  /\ Lists' /\ Live' = Live \ {x} /\ prot'[x] = NoProt
         /\ \A y \in Live \ {x} : prot'[y] = prot[y]
<1>1. x \in ProtId /\ x \in Live /\ prot[x].handle = h /\ x \in ToSet(byProtocol[p])
  BY LiveFacts
<1>2. /\ prot' = [prot EXCEPT ![x] = NoProt]
      /\ byHandle' = [byHandle EXCEPT ![h] = RemoveEntry(@, x)]
      /\ byProtocol' = [byProtocol EXCEPT ![p] = RemoveEntry(@, x)]
      /\ gHandleList' = IF byHandle'[h] = <<>> THEN gHandleList \ {h} ELSE gHandleList
  BY DEF RemoveInterface
<1>3. /\ prot' \in [ProtId -> ProtocolInterface \cup {NoProt}]
      /\ prot'[x] = NoProt /\ \A y \in ProtId : y # x => prot'[y] = prot[y]
  BY <1>1, <1>2 DEF Lists
<1>4. Live' = Live \ {x} /\ \A y \in Live \ {x} : prot'[y] = prot[y]
  BY <1>1, <1>3 DEF Live
<1>5. byHandle[h] \in Seq(ProtId) /\ IsInjective(byHandle[h])
  BY DEF Lists
<1>6. byProtocol[p] \in Seq(ProtId) /\ IsInjective(byProtocol[p])
  BY DEF Lists
<1> DEFINE s == RemoveEntry(byHandle[h], x)
           t == RemoveEntry(byProtocol[p], x)
<1>7. s \in Seq(ProtId) /\ IsInjective(s) /\ ToSet(s) = ToSet(byHandle[h]) \ {x}
  BY <1>5, RemoveFacts
<1>8. t \in Seq(ProtId) /\ IsInjective(t) /\ ToSet(t) = ToSet(byProtocol[p]) \ {x}
  BY <1>1, <1>6, RemoveFacts
<1>9. /\ byHandle'[h] = s /\ byProtocol'[p] = t
      /\ \A g \in Handles : g # h => byHandle'[g] = byHandle[g]
      /\ \A q \in Protocols : q # p => byProtocol'[q] = byProtocol[q]
  BY <1>2 DEF Lists
<1>10. byHandle' \in [Handles -> Seq(ProtId)] /\ byProtocol' \in [Protocols -> Seq(ProtId)]
  BY <1>2, <1>7, <1>8 DEF Lists
<1> HIDE DEF s, t
<1>11. ASSUME NEW q \in Protocols
       PROVE  /\ IsInjective(byProtocol'[q])
              /\ ToSet(byProtocol'[q]) = {y \in Live' : prot'[y].protocol = q}
  <2>1. CASE q = p
    <3>1. {y \in Live' : prot'[y].protocol = p} = {y \in Live : prot[y].protocol = p} \ {x}
      BY <1>4
    <3> QED BY <1>8, <1>9, <2>1, <3>1 DEF Lists
  <2>2. CASE q # p
    <3>1. {y \in Live' : prot'[y].protocol = q} = {y \in Live : prot[y].protocol = q}
      BY <1>4, <2>2
    <3> QED BY <1>9, <2>2, <3>1 DEF Lists
  <2> QED BY <2>1, <2>2
<1>12. ASSUME NEW g \in Handles
       PROVE  /\ IsInjective(byHandle'[g])
              /\ ToSet(byHandle'[g]) = {y \in Live' : prot'[y].handle = g}
  <2>1. CASE g = h
    <3>1. {y \in Live' : prot'[y].handle = h} = {y \in Live : prot[y].handle = h} \ {x}
      BY <1>4
    <3> QED BY <1>7, <1>9, <2>1, <3>1 DEF Lists
  <2>2. CASE g # h
    <3>1. {y \in Live' : prot'[y].handle = g} = {y \in Live : prot[y].handle = g}
      BY <1>1, <1>4, <2>2
    <3> QED BY <1>9, <2>2, <3>1 DEF Lists
  <2> QED BY <2>1, <2>2
<1>13. gHandleList' = {g \in Handles : byHandle'[g] # <<>>}
  <2>1. gHandleList = {g \in Handles : byHandle[g] # <<>>}
    BY DEF Lists
  <2>2. byHandle[h] # <<>>
    BY DEF ToSet
  <2>3. CASE s = <<>>
    BY <1>2, <1>9, <2>1, <2>3
  <2>4. CASE s # <<>>
    BY <1>2, <1>9, <2>1, <2>2, <2>4
  <2> QED BY <2>3, <2>4
<1>14. Lists'
  BY <1>3, <1>10, <1>11, <1>12, <1>13 DEF Lists
<1> QED BY <1>3, <1>4, <1>14

\* CoreReinstallProtocolInterface moves it to the tail of its protocol's list.
LEMMA ListsReplace ==
  ASSUME Lists, NEW h \in Handles, NEW p \in Protocols, NEW x \in ToSet(byHandle[h]),
         prot[x].protocol = p, NEW i \in Interfaces, ReplaceInterface(p, x, i)
  PROVE  /\ Lists' /\ Live' = Live
         /\ \A y \in Live : /\ prot'[y].handle = prot[y].handle
                            /\ prot'[y].protocol = prot[y].protocol
                            /\ y # x => prot'[y] = prot[y]
         /\ prot'[x].open = {}
<1>1. x \in ProtId /\ x \in Live /\ prot[x].handle = h /\ x \in ToSet(byProtocol[p])
  BY LiveFacts
<1>2. prot[x] \in ProtocolInterface
  BY <1>1, LiveFacts
<1> DEFINE r == [prot[x] EXCEPT !.interface = i, !.open = {}]
           t == RemoveEntry(byProtocol[p], x)
<1>3. /\ r \in ProtocolInterface /\ r.handle = prot[x].handle
      /\ r.protocol = prot[x].protocol /\ r.open = {}
  BY <1>2 DEF ProtocolInterface
<1>4. prot' = [prot EXCEPT ![x].interface = i, ![x].open = {}]
  BY DEF ReplaceInterface
<1>5. /\ byProtocol' = [byProtocol EXCEPT ![p] = Append(RemoveEntry(@, x), x)]
      /\ UNCHANGED <<gHandleList, byHandle>>
  BY DEF ReplaceInterface
<1>6. prot'[x] = r /\ prot' = [prot EXCEPT ![x] = r]
  BY <1>1, <1>2, <1>4 DEF Lists
<1> HIDE DEF r
<1>7. /\ prot' \in [ProtId -> ProtocolInterface \cup {NoProt}]
      /\ \A y \in ProtId : y # x => prot'[y] = prot[y]
  BY <1>1, <1>3, <1>6 DEF Lists
<1>8. r # NoProt
  BY <1>3, InterfaceIsSome
<1>9. Live' = Live
  BY <1>1, <1>6, <1>7, <1>8 DEF Live
<1>10. \A y \in Live : /\ prot'[y].handle = prot[y].handle
                       /\ prot'[y].protocol = prot[y].protocol
                       /\ y # x => prot'[y] = prot[y]
  BY <1>3, <1>6, <1>7 DEF Live
<1>11. byProtocol[p] \in Seq(ProtId) /\ IsInjective(byProtocol[p])
  BY DEF Lists
<1>12. t \in Seq(ProtId) /\ IsInjective(t) /\ ToSet(t) = ToSet(byProtocol[p]) \ {x}
  BY <1>1, <1>11, RemoveFacts
<1> HIDE DEF t
<1>13. x \in ProtId \ ToSet(t)
  BY <1>1, <1>12
<1>14. /\ Append(t, x) \in Seq(ProtId) /\ IsInjective(Append(t, x))
       /\ ToSet(Append(t, x)) = ToSet(byProtocol[p])
  <2>1. ToSet(Append(t, x)) = ToSet(t) \cup {x}
    BY <1>12, <1>13, AppendFacts
  <2>2. Append(t, x) \in Seq(ProtId) /\ IsInjective(Append(t, x))
    BY <1>12, <1>13, AppendFacts
  <2> QED BY <1>1, <1>12, <2>1, <2>2
<1>15. /\ byProtocol'[p] = Append(t, x)
       /\ \A q \in Protocols : q # p => byProtocol'[q] = byProtocol[q]
       /\ byProtocol' = [byProtocol EXCEPT ![p] = Append(t, x)]
  BY <1>5 DEF Lists, t
<1>16. byProtocol' \in [Protocols -> Seq(ProtId)]
  BY <1>14, <1>15 DEF Lists
<1>17. ASSUME NEW q \in Protocols
       PROVE  /\ IsInjective(byProtocol'[q])
              /\ ToSet(byProtocol'[q]) = {y \in Live' : prot'[y].protocol = q}
  <2>1. ToSet(byProtocol'[q]) = ToSet(byProtocol[q]) /\ IsInjective(byProtocol'[q])
    BY <1>14, <1>15 DEF Lists
  <2>2. {y \in Live' : prot'[y].protocol = q} = {y \in Live : prot[y].protocol = q}
    BY <1>9, <1>10
  <2> QED BY <2>1, <2>2 DEF Lists
<1>18. ASSUME NEW g \in Handles
       PROVE  /\ IsInjective(byHandle'[g])
              /\ ToSet(byHandle'[g]) = {y \in Live' : prot'[y].handle = g}
  <2>1. {y \in Live' : prot'[y].handle = g} = {y \in Live : prot[y].handle = g}
    BY <1>9, <1>10
  <2> QED BY <1>5, <2>1 DEF Lists
<1>19. Lists'
  BY <1>5, <1>7, <1>16, <1>17, <1>18 DEF Lists
<1> QED BY <1>3, <1>6, <1>9, <1>10, <1>19

-----------------------------------------------------------------------------
(* The registrations. *)

\* A call in s has reinstalled an interface of p and is yet to say so.
Started(s, p) ==
  \E k \in DOMAIN s : s[k].op = "reinstall" /\ s[k].pc = "started" /\ s[k].protocol = p

StartedKept == \A p \in Protocols : Started(stack, p) => Started(stack', p)

\* Without a change of the list, the Position and the history they fit together.
LEMMA NoticesSame ==
  ASSUME Notices, UNCHANGED notify, UNCHANGED byProtocol
  PROVE  Notices'
BY DEF Notices, notify

\* A new interface at the tail is behind every Position.
LEMMA NoticesAdd ==
  ASSUME Lists, Notices, NEW p \in Protocols, NEW x \in ProtId,
         byProtocol' = [byProtocol EXCEPT ![p] = Append(@, x)],
         old' = old \/ old' = [old EXCEPT ![p] = @ \cup {x}],
         signaled' = signaled \/ CoreNotifyProtocolEntry(p),
         UNCHANGED <<Position, registered, notifying, seen>>
  PROVE  Notices'
<1>1. ASSUME NEW q \in registered
      PROVE  Told(byProtocol'[q], Position[q], seen[q])
  <2>1. q \in Protocols
    BY ConstantsAssumption DEF Notices
  <2>2. byProtocol[q] \in Seq(ProtId)
    BY <2>1 DEF Lists
  <2>3. Told(byProtocol[q], Position[q], seen[q])
    BY DEF Notices
  <2>4. CASE q = p
    <3>1. byProtocol'[q] = Append(byProtocol[q], x)
      BY <2>1, <2>4 DEF Lists
    <3> QED BY <2>2, <2>3, <3>1, ToldAppend
  <2>5. CASE q # p
    <3>1. byProtocol'[q] = byProtocol[q]
      BY <2>1, <2>5 DEF Lists
    <3> QED BY <2>3, <3>1
  <2> QED BY <2>4, <2>5
<1>2. signaled' \subseteq registered
  BY DEF Notices, CoreNotifyProtocolEntry
<1>3. old' \in [Protocols -> SUBSET ProtId]
  BY DEF Notices
<1> QED BY <1>1, <1>2, <1>3 DEF Notices

\* CoreRemoveInterfaceFromProtocol backs a registration up to what it was told of.
LEMMA NoticesRemove ==
  ASSUME Lists, Notices, NEW p \in Protocols, NEW x \in ToSet(byProtocol[p]),
         RemoveFromProtocol(p, x),
         \/ byProtocol' = [byProtocol EXCEPT ![p] = RemoveEntry(@, x)]
         \/ byProtocol' = [byProtocol EXCEPT ![p] = Append(RemoveEntry(@, x), x)],
         UNCHANGED <<registered, signaled, notifying>>
  PROVE  /\ Notices'
         /\ seen'[p] = seen[p] \ {x} /\ old'[p] = old[p] \ {x}
         /\ \A q \in Protocols : q # p => seen'[q] = seen[q] /\ old'[q] = old[q]
<1> DEFINE list == byProtocol[p]
           t == RemoveEntry(list, x)
           new == IF Position[p] # x THEN Position[p]
                  ELSE IF Place(p) = 1 THEN 0 ELSE list[Place(p) - 1]
<1>1. list \in Seq(ProtId) /\ IsInjective(list) /\ x \in ProtId
  BY DEF Lists, Live
<1>2. /\ Position' = [Position EXCEPT ![p] = new]
      /\ seen' = [seen EXCEPT ![p] = @ \ {x}] /\ old' = [old EXCEPT ![p] = @ \ {x}]
  BY DEF RemoveFromProtocol, Notices
<1>3. /\ Position'[p] = new /\ seen'[p] = seen[p] \ {x} /\ old'[p] = old[p] \ {x}
      /\ \A q \in Protocols : q # p => /\ Position'[q] = Position[q]
                                       /\ seen'[q] = seen[q] /\ old'[q] = old[q]
  BY <1>2 DEF Notices
<1>4. /\ seen' \in [Protocols -> SUBSET ProtId] /\ old' \in [Protocols -> SUBSET ProtId]
  BY <1>2 DEF Notices
<1>5. byProtocol'[p] = t \/ byProtocol'[p] = Append(t, x)
  BY DEF Lists
<1>6. \A q \in Protocols : q # p => byProtocol'[q] = byProtocol[q]
  BY DEF Lists
<1>7. CASE p \in registered
  <2>1. Told(list, Position[p], seen[p])
    BY <1>7 DEF Notices
  <2>2. /\ Place(p) \in 0..Len(list)
        /\ Place(p) = 0 <=> Position[p] = 0
        /\ Place(p) > 0 => Position[p] = list[Place(p)]
        /\ seen[p] = {list[k] : k \in 1..Place(p)}
    BY <1>1, <2>1, PlaceFacts
  <2>3. Told(t, new, seen[p] \ {x}) /\ new \in 0..MaxProt
    <3>1. PICK n \in 0..Len(list) : n = Place(p)
      BY <2>2
    <3>2. /\ n = 0 => Position[p] = 0
          /\ n > 0 => Position[p] = list[n]
      BY <2>2, <3>1
    <3>3. /\ Told(RemoveEntry(list, x), BackedUp(list, n, Position[p], x), UpTo(list, n) \ {x})
          /\ BackedUp(list, n, Position[p], x) \in 0..MaxProt
      <4>1. x \in ToSet(list)
        OBVIOUS
      <4> HIDE DEF list
      <4> QED BY <1>1, <3>2, <4>1, ToldRemove
    <3> QED BY <2>2, <3>1, <3>3 DEF BackedUp, UpTo
  <2>4. t \in Seq(ProtId)
    BY <1>1, RemoveFacts
  <2> HIDE DEF t, new
  <2>5. Told(Append(t, x), new, seen[p] \ {x})
    BY <2>3, <2>4, ToldAppend
  <2>6. Told(byProtocol'[p], Position'[p], seen'[p])
    BY <1>3, <1>5, <2>3, <2>5
  <2>7. Position' \in [Protocols -> 0..MaxProt]
    BY <1>2, <2>3 DEF Notices
  <2>8. \A q \in registered : Told(byProtocol'[q], Position'[q], seen'[q])
    <3>1. \A q \in registered : q \in Protocols /\ Told(byProtocol[q], Position[q], seen[q])
      BY ConstantsAssumption DEF Notices
    <3> QED BY <1>3, <1>6, <2>6, <3>1
  <2>9. \A q \in Protocols \ registered : Position'[q] = 0
    BY <1>3, <1>7 DEF Notices
  <2>10. Notices'
    BY <1>4, <2>7, <2>8, <2>9 DEF Notices
  <2> QED BY <1>3, <2>10
<1>8. CASE p \notin registered
  <2>1. Position[p] = 0 /\ x # 0
    BY <1>1, <1>8, ConstantsAssumption DEF Notices, ProtId
  <2>2. new = 0
    BY <2>1
  <2> HIDE DEF new
  <2>3. Position' \in [Protocols -> 0..MaxProt]
    BY <1>2, <2>2, ConstantsAssumption DEF Notices
  <2>4. \A q \in registered : Told(byProtocol'[q], Position'[q], seen'[q])
    <3>1. \A q \in registered : q \in Protocols /\ Told(byProtocol[q], Position[q], seen[q])
      BY ConstantsAssumption DEF Notices
    <3> QED BY <1>3, <1>6, <1>8, <3>1
  <2>5. \A q \in Protocols \ registered : Position'[q] = 0
    BY <1>3, <2>2 DEF Notices
  <2>6. Notices'
    BY <1>4, <2>3, <2>4, <2>5 DEF Notices
  <2> QED BY <1>3, <2>6
<1> QED BY <1>7, <1>8

\* No notification is lost if what a registration is yet to be told of was so
\* before, or if its event is signalled or will be.
LEMMA SoonKept ==
  ASSUME ToldSoon, registered' = registered,
         \A p \in registered \ (signaled' \cup notifying') :
           \/ Started(stack', p)
           \/ /\ p \notin signaled \cup notifying
              /\ Started(stack, p) => Started(stack', p)
              /\ ToSet(byProtocol'[p]) \ (seen'[p] \cup old'[p])
                   \subseteq ToSet(byProtocol[p]) \ (seen[p] \cup old[p])
  PROVE  ToldSoon'
<1> SUFFICES ASSUME NEW p \in registered \ (signaled' \cup notifying'),
                    NEW x \in ToSet(byProtocol'[p]) \ (seen'[p] \cup old'[p])
             PROVE  Started(stack', p)
  BY DEF ToldSoon, Started
<1>1. CASE p \notin signaled \cup notifying /\ (Started(stack, p) => Started(stack', p))
           /\ ToSet(byProtocol'[p]) \ (seen'[p] \cup old'[p])
                \subseteq ToSet(byProtocol[p]) \ (seen[p] \cup old[p])
  <2>1. x \in ToSet(byProtocol[p]) \ (seen[p] \cup old[p])
    BY <1>1
  <2>2. Started(stack, p)
    BY <1>1, <2>1 DEF ToldSoon, Started
  <2> QED BY <1>1, <2>2
<1> QED BY <1>1

\* So nothing is lost where neither the lists nor the registrations change.
LEMMA SoonSame ==
  ASSUME Notices, ToldSoon, UNCHANGED notify, UNCHANGED byProtocol, StartedKept
  PROVE  ToldSoon'
<1>1. \A p \in registered : p \in Protocols
  BY ConstantsAssumption DEF Notices
<1> QED BY <1>1, SoonKept DEF notify, StartedKept

\* The calls stay calls when one begins, and a call that is yet to signal a
\* reinstallation stays.
LEMMA StackBegin ==
  ASSUME StackOK, NEW c \in Call, Begin(c)
  PROVE  StackOK' /\ StartedKept
<1>1. stack' = <<c>> \o stack /\ Len(stack) < MaxDepth /\ stack \in Seq(Call)
  BY DEF Begin, StackOK
<1>2. /\ stack' \in Seq(Call) /\ Len(stack') = Len(stack) + 1
      /\ \A k \in DOMAIN stack : k + 1 \in DOMAIN stack' /\ stack'[k + 1] = stack[k]
  BY <1>1, PushFacts
<1>3. StackOK'
  BY <1>1, <1>2, ConstantsAssumption DEF StackOK
<1>4. StartedKept
  BY <1>2 DEF StartedKept, Started
<1> QED BY <1>3, <1>4

\* The same where the innermost call returns,
LEMMA StackReturn ==
  ASSUME StackOK, stack # <<>>, Return, Top.op # "reinstall" \/ Top.pc # "started"
  PROVE  StackOK' /\ StartedKept
<1>1. stack' = Tail(stack) /\ stack \in Seq(Call) /\ Top = stack[1]
  BY TopType DEF Return, StackOK
<1>2. /\ stack' \in Seq(Call) /\ Len(stack') = Len(stack) - 1
      /\ \A k \in DOMAIN stack : k = 1 \/ (k - 1 \in DOMAIN stack' /\ stack'[k - 1] = stack[k])
  BY <1>1, PopFacts
<1>3. StackOK'
  BY <1>1, <1>2, ConstantsAssumption DEF StackOK
<1>4. ASSUME NEW p \in Protocols, Started(stack, p)
      PROVE  Started(stack', p)
  <2>1. PICK k \in DOMAIN stack : stack[k].op = "reinstall" /\ stack[k].pc = "started"
                                  /\ stack[k].protocol = p
    BY <1>4 DEF Started
  <2>2. k # 1
    BY <1>1, <2>1
  <2> QED BY <1>2, <2>1, <2>2 DEF Started
<1> QED BY <1>3, <1>4 DEF StartedKept

\* and where it goes on to another place.
LEMMA StackGoto ==
  ASSUME StackOK, stack # <<>>, NEW pc \in {"stop", "rescan", "connect", "started"},
         NEW x \in 0..MaxProt, NEW d \in Agents \cup {Core},
         stack' = <<[Top EXCEPT !.pc = pc, !.prot = x, !.agent = d]>> \o Tail(stack),
         Top.op # "reinstall" \/ Top.pc # "started"
  PROVE  /\ StackOK' /\ StartedKept
         /\ stack'[1] = [Top EXCEPT !.pc = pc, !.prot = x, !.agent = d]
         /\ 1 \in DOMAIN stack' /\ Head(stack').pc = pc
<1> DEFINE c == [Top EXCEPT !.pc = pc, !.prot = x, !.agent = d]
<1>1. stack' = <<c>> \o Tail(stack) /\ stack \in Seq(Call) /\ Top = stack[1] /\ c \in Call
  BY TopType DEF StackOK
<1>2. c.pc = pc
  BY TopType DEF Call
<1> HIDE DEF c
<1>3. /\ stack' \in Seq(Call) /\ Len(stack') = Len(stack) /\ stack'[1] = c /\ Head(stack') = c
      /\ 1 \in DOMAIN stack /\ DOMAIN stack' = DOMAIN stack
      /\ \A k \in DOMAIN stack : k # 1 => stack'[k] = stack[k]
  BY <1>1, GotoFacts
<1>4. StackOK'
  BY <1>3 DEF StackOK
<1>5. ASSUME NEW p \in Protocols, Started(stack, p)
      PROVE  Started(stack', p)
  <2>1. PICK k \in DOMAIN stack : stack[k].op = "reinstall" /\ stack[k].pc = "started"
                                  /\ stack[k].protocol = p
    BY <1>5 DEF Started
  <2>2. k # 1
    BY <1>1, <2>1
  <2> QED BY <1>3, <2>1, <2>2 DEF Started
<1> QED BY <1>2, <1>3, <1>4, <1>5 DEF StartedKept, c

-----------------------------------------------------------------------------
(* Every step keeps the database in order. *)

\* A step of a call that changes neither the database nor the registrations.
LEMMA DatabaseSame ==
  ASSUME DatabaseInv, UNCHANGED <<database, notify>>, StackOK', StartedKept
  PROVE  DatabaseInv'
<1>1. UNCHANGED database /\ UNCHANGED notify /\ UNCHANGED byProtocol
  BY DEF database
<1>2. Lists' /\ Notices' /\ ToldSoon'
  BY <1>1, ListsSame, NoticesSame, SoonSame DEF DatabaseInv
<1> QED BY <1>2 DEF DatabaseInv

\* A step that changes an open list.
LEMMA DatabaseOpen ==
  ASSUME DatabaseInv, NEW x \in Live, NEW O \in SUBSET OpenData,
         prot' = [prot EXCEPT ![x].open = O],
         UNCHANGED <<gHandleList, byHandle, byProtocol, notify>>, StackOK', StartedKept
  PROVE  DatabaseInv'
<1>1. UNCHANGED <<gHandleList, byHandle, byProtocol>> /\ UNCHANGED notify /\ UNCHANGED byProtocol
  OBVIOUS
<1>2. Lists'
  BY <1>1, ListsOpen DEF DatabaseInv
<1>3. Notices' /\ ToldSoon'
  BY <1>1, NoticesSame, SoonSame DEF DatabaseInv
<1> QED BY <1>2, <1>3 DEF DatabaseInv

\* An interface is installed.
LEMMA DatabaseAdd ==
  ASSUME DatabaseInv, NEW h \in Handles, NEW p \in Protocols, NEW i \in Interfaces,
         NEW Notify \in BOOLEAN, Memory,
         gHandleList' = gHandleList \cup {h}, AddInterface(h, p, i, Notify), StackOK', StartedKept
  PROVE  DatabaseInv'
<1>1. Lists /\ Notices /\ ToldSoon
  BY DEF DatabaseInv
<1>2. Lists'
  BY <1>1, ListsAdd
<1>3. PICK x \in ProtId \ Live :
        /\ byProtocol' = [byProtocol EXCEPT ![p] = Append(@, x)]
        /\ old' = IF Notify \/ p \notin registered THEN old
                  ELSE [old EXCEPT ![p] = @ \cup {x}]
  <2>1. \E x \in ProtId \ Live : Added(h, p, i, Notify, x)
    BY <1>1, ListsAdd
  <2> QED BY <2>1 DEF Added
<1>4. /\ IF Notify THEN CoreNotifyProtocolEntry(p) ELSE UNCHANGED signaled
      /\ UNCHANGED <<Position, registered, notifying, seen>>
  BY DEF AddInterface
<1>5. Notices'
  <2>1. x \in ProtId /\ (old' = old \/ old' = [old EXCEPT ![p] = @ \cup {x}])
    BY <1>3
  <2>2. signaled' = signaled \/ CoreNotifyProtocolEntry(p)
    BY <1>4
  <2> QED BY <1>1, <1>3, <1>4, <2>1, <2>2, NoticesAdd
<1>6. ASSUME NEW q \in registered \ (signaled' \cup notifying')
      PROVE  /\ q \notin signaled \cup notifying
             /\ Started(stack, q) => Started(stack', q)
             /\ ToSet(byProtocol'[q]) \ (seen'[q] \cup old'[q])
                  \subseteq ToSet(byProtocol[q]) \ (seen[q] \cup old[q])
  <2>1. q \in Protocols
    BY <1>1, ConstantsAssumption DEF Notices
  <2>2. q \notin signaled \cup notifying /\ (q = p => ~Notify)
    BY <1>4 DEF CoreNotifyProtocolEntry
  <2>3. CASE q # p
    <3>1. byProtocol'[q] = byProtocol[q] /\ old'[q] = old[q]
      BY <1>1, <1>3, <2>1, <2>3 DEF Lists, Notices
    <3> QED BY <1>4, <2>1, <2>2, <3>1 DEF StartedKept
  <2>4. CASE q = p
    <3>1. byProtocol'[q] = Append(byProtocol[q], x) /\ old'[q] = old[q] \cup {x}
      BY <1>1, <1>3, <2>1, <2>2, <2>4 DEF Lists, Notices
    <3>2. /\ byProtocol[q] \in Seq(ProtId) /\ IsInjective(byProtocol[q])
          /\ x \in ProtId \ ToSet(byProtocol[q])
      BY <1>1, <2>1 DEF Lists
    <3>3. ToSet(byProtocol'[q]) = ToSet(byProtocol[q]) \cup {x}
      BY <3>1, <3>2, AppendFacts
    <3> QED BY <1>4, <2>1, <2>2, <3>1, <3>3 DEF StartedKept
  <2> QED BY <2>3, <2>4
<1>7. ToldSoon'
  BY <1>1, <1>4, <1>6, SoonKept
<1> QED BY <1>2, <1>5, <1>7 DEF DatabaseInv

\* An interface is removed.
LEMMA DatabaseRemove ==
  ASSUME DatabaseInv, NEW h \in Handles, NEW p \in Protocols, NEW x \in ToSet(byHandle[h]),
         prot[x].protocol = p, RemoveInterface(h, p, x), StackOK', StartedKept
  PROVE  DatabaseInv'
<1>1. Lists /\ Notices /\ ToldSoon
  BY DEF DatabaseInv
<1>2. /\ Lists' /\ Live' = Live \ {x}
      /\ \A y \in Live \ {x} : prot'[y] = prot[y]
  BY <1>1, ListsRemove
<1>3. x \in ToSet(byProtocol[p]) /\ x \in Live
  BY <1>1, LiveFacts
<1>4. /\ RemoveFromProtocol(p, x)
      /\ byProtocol' = [byProtocol EXCEPT ![p] = RemoveEntry(@, x)]
      /\ UNCHANGED <<registered, signaled, notifying>>
  BY DEF RemoveInterface
<1>5. /\ Notices'
      /\ seen'[p] = seen[p] \ {x} /\ old'[p] = old[p] \ {x}
      /\ \A q \in Protocols : q # p => seen'[q] = seen[q] /\ old'[q] = old[q]
  BY <1>1, <1>3, <1>4, NoticesRemove
<1>6. ASSUME NEW q \in registered \ (signaled' \cup notifying')
      PROVE  /\ q \notin signaled \cup notifying
             /\ Started(stack, q) => Started(stack', q)
             /\ ToSet(byProtocol'[q]) \ (seen'[q] \cup old'[q])
                  \subseteq ToSet(byProtocol[q]) \ (seen[q] \cup old[q])
  <2>1. q \in Protocols /\ q \notin signaled \cup notifying
    BY <1>1, <1>4, ConstantsAssumption DEF Notices
  <2>2. CASE q = p
    <3>1. ToSet(byProtocol'[p]) = {y \in Live' : prot'[y].protocol = p}
      BY <1>2 DEF Lists
    <3>2. ToSet(byProtocol[p]) = {y \in Live : prot[y].protocol = p}
      BY <1>1 DEF Lists
    <3>3. ToSet(byProtocol'[p]) = ToSet(byProtocol[p]) \ {x}
      BY <1>2, <3>1, <3>2
    <3> QED BY <1>5, <2>1, <2>2, <3>3 DEF StartedKept
  <2>3. CASE q # p
    <3>1. byProtocol'[q] = byProtocol[q]
      BY <1>1, <1>4, <2>1, <2>3 DEF Lists
    <3> QED BY <1>5, <2>1, <2>3, <3>1 DEF StartedKept
  <2> QED BY <2>2, <2>3
<1>7. ToldSoon'
  BY <1>1, <1>4, <1>6, SoonKept
<1> QED BY <1>2, <1>5, <1>7 DEF DatabaseInv

\* An interface is replaced, and the call is yet to say so.
LEMMA DatabaseReplace ==
  ASSUME DatabaseInv, NEW h \in Handles, NEW p \in Protocols, NEW x \in ToSet(byHandle[h]),
         prot[x].protocol = p, NEW i \in Interfaces, ReplaceInterface(p, x, i),
         StackOK', StartedKept, Started(stack', p)
  PROVE  DatabaseInv'
<1>1. Lists /\ Notices /\ ToldSoon
  BY DEF DatabaseInv
<1>2. Lists'
  BY <1>1, ListsReplace
<1>3. x \in ToSet(byProtocol[p])
  BY <1>1, LiveFacts
<1>4. /\ RemoveFromProtocol(p, x)
      /\ byProtocol' = [byProtocol EXCEPT ![p] = Append(RemoveEntry(@, x), x)]
      /\ UNCHANGED <<registered, signaled, notifying>>
  BY DEF ReplaceInterface
<1>5. /\ Notices'
      /\ \A q \in Protocols : q # p => seen'[q] = seen[q] /\ old'[q] = old[q]
  BY <1>1, <1>3, <1>4, NoticesRemove
<1>6. ASSUME NEW q \in registered \ (signaled' \cup notifying')
      PROVE  \/ Started(stack', q)
             \/ /\ q \notin signaled \cup notifying
                /\ Started(stack, q) => Started(stack', q)
                /\ ToSet(byProtocol'[q]) \ (seen'[q] \cup old'[q])
                     \subseteq ToSet(byProtocol[q]) \ (seen[q] \cup old[q])
  <2>1. q \in Protocols /\ q \notin signaled \cup notifying
    BY <1>1, <1>4, ConstantsAssumption DEF Notices
  <2>2. CASE q = p
    BY <2>2
  <2>3. CASE q # p
    <3>1. byProtocol'[q] = byProtocol[q]
      BY <1>1, <1>4, <2>1, <2>3 DEF Lists
    <3> QED BY <1>5, <2>1, <2>3, <3>1 DEF StartedKept
  <2> QED BY <2>2, <2>3
<1>7. ToldSoon'
  BY <1>1, <1>4, <1>6, SoonKept
<1> QED BY <1>2, <1>5, <1>7 DEF DatabaseInv

\* A step that leaves the stack alone leaves its calls alone.
LEMMA StackSame ==
  ASSUME StackOK, UNCHANGED stack
  PROVE  StackOK' /\ StartedKept
BY DEF StackOK, StartedKept, Started

\* Calls that install.
LEMMA InstallNewHandleInv ==
  ASSUME DatabaseInv, NEW h \in Handles, NEW p \in Protocols, NEW i \in Interfaces,
         NEW Notify \in BOOLEAN, InstallNewHandle(h, p, i, Notify)
  PROVE  DatabaseInv'
<1>1. /\ Memory /\ gHandleList' = gHandleList \cup {h}
      /\ AddInterface(h, p, i, Notify) /\ UNCHANGED stack
  BY DEF InstallNewHandle
<1>2. StackOK' /\ StartedKept
  BY <1>1, StackSame DEF DatabaseInv
<1> QED BY <1>1, <1>2, DatabaseAdd

\* A call that only begins.
LEMMA BeginInv ==
  ASSUME DatabaseInv, NEW c \in Call, Begin(c), UNCHANGED <<database, notify>>
  PROVE  DatabaseInv'
<1>1. StackOK' /\ StartedKept
  BY StackBegin DEF DatabaseInv
<1> QED BY <1>1, DatabaseSame

\* Install, under the lock.
LEMMA InstallLockedInv ==
  ASSUME DatabaseInv, InstallLocked
  PROVE  DatabaseInv'
<1>1. /\ stack # <<>> /\ Top.op = "install" /\ Return /\ UNCHANGED gHandleList
  BY DEF InstallLocked, At
<1>2. StackOK' /\ StartedKept
  BY <1>1, StackReturn DEF DatabaseInv
<1>3. CASE Top.handle \in gHandleList /\ Memory
  <2>1. AddInterface(Top.handle, Top.protocol, Top.interface, TRUE)
    BY <1>3 DEF InstallLocked
  <2>2. /\ Top.handle \in Handles /\ Top.protocol \in Protocols /\ Top.interface \in Interfaces
    BY <1>1, TopType DEF DatabaseInv
  <2>3. gHandleList' = gHandleList \cup {Top.handle}
    BY <1>1, <1>3
  <2> QED BY <1>2, <1>3, <2>1, <2>2, <2>3, DatabaseAdd
<1>4. CASE ~(Top.handle \in gHandleList /\ Memory)
  <2>1. UNCHANGED <<database, notify>>
    BY <1>1, <1>4 DEF InstallLocked, database
  <2> QED BY <1>2, <2>1, DatabaseSame
<1> QED BY <1>3, <1>4

\* A call that returns or goes on and changes nothing else.
LEMMA GotoInv ==
  ASSUME DatabaseInv, stack # <<>>, UNCHANGED <<database, notify>>,
         Top.op # "reinstall" \/ Top.pc # "started",
         \/ Return
         \/ \E pc \in {"stop", "rescan", "connect", "started"}, x \in 0..MaxProt,
               d \in Agents \cup {Core} :
              stack' = <<[Top EXCEPT !.pc = pc, !.prot = x, !.agent = d]>> \o Tail(stack)
  PROVE  DatabaseInv'
<1>1. StackOK' /\ StartedKept
  BY StackReturn, StackGoto DEF DatabaseInv
<1> QED BY <1>1, DatabaseSame

\* The driver to be stopped is an agent.
LEMMA ManagedFacts ==
  ASSUME Lists, NEW x \in Live, NEW o \in Managed(x)
  PROVE  o \in prot[x].open /\ o.agent \in Agents \cup {Core}
<1>1. o \in prot[x].open /\ o \in OpenData
  BY LiveFacts DEF Managed
<1> QED BY <1>1 DEF OpenData

\* A stretch of an uninstall or reinstall: a driver is to be stopped, the call gives
\* up, or the interface is removed or replaced.
LEMMA DisconnectInv ==
  ASSUME DatabaseInv, NEW x \in Live, stack # <<>>, Top.op \in {"uninstall", "reinstall"},
         Top.pc \in {"lock", "rescan"}, Disconnect(x)
  PROVE  DatabaseInv'
<1>1. Lists /\ StackOK /\ x \in ProtId
  BY DEF DatabaseInv, Live
<1>2. /\ Top \in Call /\ Top = stack[1] /\ Top.handle \in Handles
      /\ Top.protocol \in Protocols /\ Top.interface \in Interfaces
  BY <1>1, TopType
<1>3. Top.pc # "started" /\ Core \in Agents \cup {Core} /\ 0 \in 0..MaxProt /\ x \in 0..MaxProt
  BY <1>1, ConstantsAssumption DEF ProtId
<1>4. CASE \E o \in Managed(x) : AwaitStop(x, o.agent) /\ UNCHANGED <<database, notify>>
  <2>1. PICK o \in Managed(x) : AwaitStop(x, o.agent)
    BY <1>4
  <2>2. o.agent \in Agents \cup {Core}
    BY <1>1, ManagedFacts
  <2>3. stack' = <<[Top EXCEPT !.pc = "stop", !.prot = x, !.agent = o.agent]>> \o Tail(stack)
    BY <2>1 DEF AwaitStop
  <2>4. StackOK' /\ StartedKept
    BY <1>1, <1>3, <2>2, <2>3, StackGoto
  <2> QED BY <1>4, <2>4, DatabaseSame
<1>5. CASE /\ prot' = [prot EXCEPT ![x].open = {o \in @ : ~Droppable(o)}]
           /\ Goto("connect", 0)
           /\ UNCHANGED <<gHandleList, byHandle, byProtocol, notify>>
  <2>1. StackOK' /\ StartedKept
    BY <1>1, <1>3, <1>5, StackGoto DEF Goto
  <2> DEFINE O == {o \in prot[x].open : ~Droppable(o)}
  <2>2. O \in SUBSET OpenData
    BY <1>1, LiveFacts
  <2>3. prot' = [prot EXCEPT ![x].open = O]
    BY <1>5
  <2> HIDE DEF O
  <2> QED BY <1>5, <2>1, <2>2, <2>3, DatabaseOpen
<1>6. CASE LET y == CoreFindProtocolInterface(Top.handle, Top.protocol, Top.interface)
           IN  IF y = 0 THEN Return /\ UNCHANGED <<database, notify>>
               ELSE IF Top.op = "uninstall"
                    THEN RemoveInterface(Top.handle, Top.protocol, y) /\ Return
                    ELSE \E i \in Interfaces :
                           /\ ReplaceInterface(Top.protocol, y, i)
                           /\ Goto("started", 0)
  <2> DEFINE y == CoreFindProtocolInterface(Top.handle, Top.protocol, Top.interface)
  <2>1. byHandle[Top.handle] \in Seq(ProtId)
    BY <1>1, <1>2 DEF Lists
  <2>2. y # 0 => y \in ToSet(byHandle[Top.handle]) /\ prot[y].protocol = Top.protocol
    BY <2>1, FindFacts
  <2>3. CASE y = 0
    <3>1. Return /\ UNCHANGED <<database, notify>>
      BY <1>6, <2>3
    <3> QED BY <1>3, <3>1, GotoInv
  <2>4. CASE y # 0 /\ Top.op = "uninstall"
    <3>1. RemoveInterface(Top.handle, Top.protocol, y) /\ Return
      BY <1>6, <2>4
    <3>2. StackOK' /\ StartedKept
      BY <1>1, <1>3, <3>1, StackReturn
    <3> HIDE DEF y
    <3> QED BY <1>2, <2>2, <2>4, <3>1, <3>2, DatabaseRemove
  <2>5. CASE y # 0 /\ Top.op # "uninstall"
    <3>1. PICK i \in Interfaces : ReplaceInterface(Top.protocol, y, i) /\ Goto("started", 0)
      BY <1>6, <2>5
    <3>2. /\ StackOK' /\ StartedKept /\ 1 \in DOMAIN stack'
          /\ stack'[1] = [Top EXCEPT !.pc = "started", !.prot = 0, !.agent = Core]
      BY <1>1, <1>3, <3>1, StackGoto DEF Goto
    <3>3. /\ stack'[1].op = "reinstall" /\ stack'[1].pc = "started"
          /\ stack'[1].protocol = Top.protocol
      BY <1>2, <2>5, <3>2 DEF Call
    <3>4. Started(stack', Top.protocol)
      BY <3>2, <3>3 DEF Started
    <3> HIDE DEF y
    <3> QED BY <1>2, <2>2, <2>5, <3>1, <3>2, <3>4, DatabaseReplace
  <2> QED BY <2>3, <2>4, <2>5
<1> QED BY <1>4, <1>5, <1>6 DEF Disconnect

\* The interface that is looked up under the lock is one of the handle.
LEMMA FindAndDisconnectInv ==
  ASSUME DatabaseInv, FindAndDisconnect
  PROVE  DatabaseInv'
<1> DEFINE x == CoreFindProtocolInterface(Top.handle, Top.protocol, Top.interface)
<1>1. stack # <<>> /\ Top.op \in {"uninstall", "reinstall"} /\ Top.pc = "lock"
  BY DEF FindAndDisconnect, At
<1>2. IF x = 0 THEN Return /\ UNCHANGED <<database, notify>> ELSE Disconnect(x)
  BY DEF FindAndDisconnect
<1>3. Top.handle \in Handles /\ Lists
  BY <1>1, TopType DEF DatabaseInv
<1>4. byHandle[Top.handle] \in Seq(ProtId)
  BY <1>3 DEF Lists
<1>5. x # 0 => x \in ToSet(byHandle[Top.handle])
  BY <1>4, FindFacts
<1> HIDE DEF x
<1>6. x # 0 => x \in Live
  BY <1>3, <1>5, LiveFacts
<1>7. CASE x = 0
  BY <1>1, <1>2, <1>7, GotoInv
<1>8. CASE x # 0
  BY <1>1, <1>2, <1>6, <1>8, DisconnectInv
<1> QED BY <1>7, <1>8

\* Opening and closing change one open list.
LEMMA AddOpenInv ==
  ASSUME DatabaseInv, NEW x \in Live, NEW d \in Agents \cup {Core}, NEW a \in Attributes,
         AddOpen(x, d, a), StackOK', StartedKept
  PROVE  DatabaseInv'
<1> DEFINE O == prot[x].open \cup {[agent |-> d, attr |-> a]}
<1>1. O \in SUBSET OpenData
  BY LiveFacts DEF DatabaseInv, OpenData
<1>2. /\ prot' = [prot EXCEPT ![x].open = O]
      /\ UNCHANGED <<gHandleList, byHandle, byProtocol, notify>>
  BY DEF AddOpen
<1> HIDE DEF O
<1> QED BY <1>1, <1>2, DatabaseOpen

\* An interface that is looked up is in use.
LEMMA GetLive ==
  ASSUME Lists, NEW h \in Handles, NEW p, NEW x \in {CoreGetProtocolInterface(h, p)} \ {0}
  PROVE  x \in Live /\ prot[x].handle = h /\ prot[x].protocol = p
<1>1. byHandle[h] \in Seq(ProtId)
  BY DEF Lists
<1>2. x \in ToSet(byHandle[h]) /\ prot[x].protocol = p
  BY <1>1, GetFacts
<1> QED BY <1>2, LiveFacts

\* An open that has nobody disconnected.
LEMMA OpenInv ==
  ASSUME DatabaseInv, NEW h \in Handles, NEW p \in Protocols,
         NEW d \in Agents \cup {Core}, NEW a \in Attributes, Open(h, p, d, a)
  PROVE  DatabaseInv'
<1>1. PICK x \in {CoreGetProtocolInterface(h, p)} \ {0} : AddOpen(x, d, a)
  BY DEF Open
<1>2. x \in Live
  BY GetLive DEF DatabaseInv
<1>3. StackOK' /\ StartedKept
  BY StackSame DEF Open, DatabaseInv
<1> QED BY <1>1, <1>2, <1>3, AddOpenInv

\* An exclusive open that begins to have a driver stopped,
LEMMA OpenExclusiveInv ==
  ASSUME DatabaseInv, NEW h \in Handles, NEW p \in Protocols,
         NEW d \in Agents \cup {Core}, NEW a \in Attributes, OpenExclusive(h, p, d, a)
  PROVE  DatabaseInv'
<1>0. PICK x \in {CoreGetProtocolInterface(h, p)} \ {0} :
        \E o \in Managed(x) :
          Begin([NewCall("open", h, p, prot[x].interface) EXCEPT
                   !.opener = d, !.attr = a, !.prot = x, !.agent = o.agent, !.pc = "stop"])
  BY DEF OpenExclusive
<1>1. PICK o \in Managed(x) :
        Begin([NewCall("open", h, p, prot[x].interface) EXCEPT
                 !.opener = d, !.attr = a, !.prot = x, !.agent = o.agent, !.pc = "stop"])
  BY <1>0
<1>2. x \in Live
  BY GetLive DEF DatabaseInv
<1>3. x \in 0..MaxProt /\ o.agent \in Agents \cup {Core}
  BY <1>2, ManagedFacts, ConstantsAssumption DEF DatabaseInv, Live, ProtId
<1>4. prot[x].interface \in Interfaces
  <2>1. prot[x] \in ProtocolInterface
    BY <1>2, LiveFacts DEF DatabaseInv
  <2> QED BY <2>1 DEF ProtocolInterface
<1> DEFINE c == NewCall("open", h, p, prot[x].interface)
           e == [c EXCEPT !.opener = d, !.attr = a, !.prot = x, !.agent = o.agent, !.pc = "stop"]
<1>5. c \in Call
  BY <1>4, NewCallType
<1>6. Begin(e)
  BY <1>1
<1> HIDE DEF c
<1>7. e \in Call
  BY <1>3, <1>5 DEF Call
<1>8. UNCHANGED <<database, notify>>
  BY DEF OpenExclusive
<1> HIDE DEF e
<1> QED BY <1>6, <1>7, <1>8, BeginInv

\* and one that is back under the lock.
LEMMA OpenAgainInv ==
  ASSUME DatabaseInv, OpenAgain
  PROVE  DatabaseInv'
<1>1. stack # <<>> /\ Top.op = "open" /\ Top.prot \in Live
  BY DEF OpenAgain, At
<1>2. /\ Top.opener \in Agents \cup {Core} /\ Top.attr \in Attributes
      /\ Top.prot \in 0..MaxProt
  BY <1>1, TopType DEF DatabaseInv
<1>3. CASE \E o \in Managed(Top.prot) :
             AwaitStop(Top.prot, o.agent) /\ UNCHANGED <<database, notify>>
  <2>1. PICK o \in Managed(Top.prot) : AwaitStop(Top.prot, o.agent)
    BY <1>3
  <2>2. o.agent \in Agents \cup {Core}
    BY <1>1, ManagedFacts DEF DatabaseInv
  <2> QED BY <1>1, <1>2, <1>3, <2>1, <2>2, GotoInv DEF AwaitStop
<1>4. CASE AddOpen(Top.prot, Top.opener, Top.attr) /\ Return
  <2>1. StackOK' /\ StartedKept
    BY <1>1, <1>4, StackReturn DEF DatabaseInv
  <2> QED BY <1>1, <1>2, <1>4, <2>1, AddOpenInv
<1> QED BY <1>3, <1>4 DEF OpenAgain

\* A close.
LEMMA CloseInv ==
  ASSUME DatabaseInv, NEW h \in Handles, NEW p \in Protocols, NEW d, Close(h, p, d)
  PROVE  DatabaseInv'
<1>1. PICK x \in {CoreGetProtocolInterface(h, p)} \ {0} :
        prot' = [prot EXCEPT ![x].open = {o \in @ : o.agent # d}]
  BY DEF Close
<1>2. x \in Live
  BY GetLive DEF DatabaseInv
<1> DEFINE O == {o \in prot[x].open : o.agent # d}
<1>3. O \in SUBSET OpenData
  BY <1>2, LiveFacts DEF DatabaseInv
<1>4. /\ prot' = [prot EXCEPT ![x].open = O]
      /\ UNCHANGED <<gHandleList, byHandle, byProtocol, notify>>
  BY <1>1 DEF Close
<1>5. StackOK' /\ StartedKept
  BY StackSame DEF Close, DatabaseInv
<1> HIDE DEF O
<1> QED BY <1>2, <1>3, <1>4, <1>5, DatabaseOpen

\* The end of a reinstallation signals the registrations of the protocol.
LEMMA NotifyReinstalledInv ==
  ASSUME DatabaseInv, NotifyReinstalled
  PROVE  DatabaseInv'
<1>1. /\ stack # <<>> /\ stack' = Tail(stack) /\ CoreNotifyProtocolEntry(Top.protocol)
      /\ UNCHANGED database /\ UNCHANGED <<Position, registered, notifying, seen, old>>
      /\ UNCHANGED byProtocol
  BY DEF NotifyReinstalled, At, Return, database
<1>2. Lists /\ Notices /\ StackOK /\ ToldSoon
  BY DEF DatabaseInv
<1>3. Lists'
  BY <1>1, <1>2, ListsSame
<1>4. Notices'
  <2>1. signaled' \subseteq registered
    BY <1>1, <1>2 DEF Notices, CoreNotifyProtocolEntry
  <2> QED BY <1>1, <1>2, <2>1 DEF Notices
<1>5. stack \in Seq(Call) /\ Top = stack[1]
  BY <1>1, <1>2, TopType DEF StackOK
<1>6. /\ stack' \in Seq(Call) /\ Len(stack') = Len(stack) - 1
      /\ \A k \in DOMAIN stack : k = 1 \/ (k - 1 \in DOMAIN stack' /\ stack'[k - 1] = stack[k])
  BY <1>1, <1>5, PopFacts
<1>7. StackOK'
  BY <1>2, <1>5, <1>6, ConstantsAssumption DEF StackOK
<1>8. ASSUME NEW q \in registered \ (signaled' \cup notifying')
      PROVE  /\ q \notin signaled \cup notifying
             /\ Started(stack, q) => Started(stack', q)
             /\ ToSet(byProtocol'[q]) \ (seen'[q] \cup old'[q])
                  \subseteq ToSet(byProtocol[q]) \ (seen[q] \cup old[q])
  <2>1. q # Top.protocol /\ q \notin signaled \cup notifying
    BY <1>1 DEF CoreNotifyProtocolEntry
  <2>2. ASSUME Started(stack, q)
        PROVE  Started(stack', q)
    <3>1. PICK k \in DOMAIN stack : stack[k].op = "reinstall" /\ stack[k].pc = "started"
                                    /\ stack[k].protocol = q
      BY <2>2 DEF Started
    <3>2. k # 1
      BY <1>5, <2>1, <3>1
    <3> QED BY <1>6, <3>1, <3>2 DEF Started
  <2> QED BY <1>1, <2>1, <2>2
<1>9. ToldSoon'
  BY <1>1, <1>2, <1>8, SoonKept
<1> QED BY <1>3, <1>4, <1>7, <1>9 DEF DatabaseInv

\* A registration begins at the head of the list, before every interface.
LEMMA RegisterInv ==
  ASSUME DatabaseInv, NEW p \in Watched, CoreRegisterProtocolNotify(p)
  PROVE  DatabaseInv'
<1>1. /\ p \notin registered /\ registered' = registered \cup {p}
      /\ Position' = [Position EXCEPT ![p] = 0]
      /\ old' = [old EXCEPT ![p] = ToSet(byProtocol[p])]
      /\ seen' = [seen EXCEPT ![p] = {}]
      /\ UNCHANGED database /\ UNCHANGED byProtocol
      /\ UNCHANGED signaled /\ UNCHANGED notifying /\ UNCHANGED stack
  BY DEF CoreRegisterProtocolNotify, database
<1>2. Lists /\ Notices /\ StackOK /\ ToldSoon /\ p \in Protocols
  BY ConstantsAssumption DEF DatabaseInv
<1>3. Lists' /\ StackOK'
  BY <1>1, <1>2, ListsSame, StackSame
<1>4. /\ Position'[p] = 0 /\ old'[p] = ToSet(byProtocol[p]) /\ seen'[p] = {}
      /\ \A q \in Protocols : q # p =>
           Position'[q] = Position[q] /\ old'[q] = old[q] /\ seen'[q] = seen[q]
  BY <1>1, <1>2 DEF Notices
<1>5. ToSet(byProtocol[p]) \subseteq ProtId /\ byProtocol[p] \in Seq(ProtId)
  BY <1>2 DEF Lists, Live
<1>6. /\ Position' \in [Protocols -> 0..MaxProt]
      /\ seen' \in [Protocols -> SUBSET ProtId] /\ old' \in [Protocols -> SUBSET ProtId]
  BY <1>1, <1>2, <1>5, ConstantsAssumption DEF Notices
<1>7. Told(byProtocol[p], 0, {})
  <2>1. 0 \in 0..Len(byProtocol[p]) /\ {byProtocol[p][k] : k \in 1..0} = {}
    BY <1>5
  <2> QED BY <2>1 DEF Told
<1>8. \A q \in registered' : Told(byProtocol'[q], Position'[q], seen'[q])
  <2>1. \A q \in registered : q \in Protocols /\ Told(byProtocol[q], Position[q], seen[q])
    BY <1>2, ConstantsAssumption DEF Notices
  <2> QED BY <1>1, <1>4, <1>7, <2>1
<1>9. \A q \in Protocols \ registered' : Position'[q] = 0
  BY <1>1, <1>2, <1>4 DEF Notices
<1>10. Notices'
  <2>1. registered' \subseteq Watched /\ signaled' \subseteq registered' /\ notifying' \subseteq registered'
    BY <1>1, <1>2 DEF Notices
  <2> QED BY <1>6, <1>8, <1>9, <2>1 DEF Notices
<1>11. ToldSoon'
  <2> SUFFICES ASSUME NEW q \in registered' \ (signaled' \cup notifying'),
                      NEW x \in ToSet(byProtocol'[q]) \ (seen'[q] \cup old'[q])
               PROVE  Started(stack', q)
    BY DEF ToldSoon, Started
  <2>1. q # p
    BY <1>1, <1>4
  <2>2. q \in registered \ (signaled \cup notifying) /\ q \in Protocols
    BY <1>1, <1>2, <2>1, ConstantsAssumption DEF Notices
  <2>3. x \in ToSet(byProtocol[q]) \ (seen[q] \cup old[q])
    BY <1>1, <1>4, <2>1, <2>2
  <2>4. Started(stack, q)
    BY <1>2, <2>2, <2>3 DEF ToldSoon, Started
  <2> QED BY <1>1, <2>4
<1> QED BY <1>3, <1>10, <1>11 DEF DatabaseInv

\* The end of a registration leaves no Position behind.
LEMMA UnregisterInv ==
  ASSUME DatabaseInv, NEW p \in Watched, CoreUnregisterProtocolNotify(p)
  PROVE  DatabaseInv'
<1>1. /\ p \in registered /\ notifying' = notifying \ {p}
      /\ registered' = registered \ {p} /\ signaled' = signaled \ {p}
      /\ Position' = [Position EXCEPT ![p] = 0]
      /\ seen' = [seen EXCEPT ![p] = {}] /\ old' = [old EXCEPT ![p] = {}]
      /\ UNCHANGED database /\ UNCHANGED byProtocol
      /\ UNCHANGED stack
  BY DEF CoreUnregisterProtocolNotify, database
<1>2. Lists /\ Notices /\ StackOK /\ ToldSoon /\ p \in Protocols
  BY ConstantsAssumption DEF DatabaseInv
<1>3. Lists' /\ StackOK'
  BY <1>1, <1>2, ListsSame, StackSame
<1>4. /\ Position'[p] = 0
      /\ \A q \in Protocols : q # p =>
           Position'[q] = Position[q] /\ old'[q] = old[q] /\ seen'[q] = seen[q]
  BY <1>1, <1>2 DEF Notices
<1>5. /\ Position' \in [Protocols -> 0..MaxProt]
      /\ seen' \in [Protocols -> SUBSET ProtId] /\ old' \in [Protocols -> SUBSET ProtId]
  BY <1>1, <1>2, ConstantsAssumption DEF Notices
<1>6. \A q \in registered : q \in Protocols /\ Told(byProtocol[q], Position[q], seen[q])
  BY <1>2, ConstantsAssumption DEF Notices
<1>7. \A q \in registered' : Told(byProtocol'[q], Position'[q], seen'[q])
  BY <1>1, <1>4, <1>6
<1>8. \A q \in Protocols \ registered' : Position'[q] = 0
  BY <1>1, <1>2, <1>4 DEF Notices
<1>9. Notices'
  <2>1. registered' \subseteq Watched /\ signaled' \subseteq registered' /\ notifying' \subseteq registered'
    BY <1>1, <1>2 DEF Notices
  <2> QED BY <1>5, <1>7, <1>8, <2>1 DEF Notices
<1>10. ToldSoon'
  <2> SUFFICES ASSUME NEW q \in registered' \ (signaled' \cup notifying'),
                      NEW x \in ToSet(byProtocol'[q]) \ (seen'[q] \cup old'[q])
               PROVE  Started(stack', q)
    BY DEF ToldSoon, Started
  <2>1. q \in registered \ (signaled \cup notifying) /\ q # p /\ q \in Protocols
    BY <1>1, <1>6
  <2>2. x \in ToSet(byProtocol[q]) \ (seen[q] \cup old[q])
    BY <1>1, <1>4, <2>1
  <2>3. Started(stack, q)
    BY <1>2, <2>1, <2>2 DEF ToldSoon, Started
  <2> QED BY <1>1, <2>3
<1> QED BY <1>3, <1>9, <1>10 DEF DatabaseInv

\* The notification function takes over from the signal.
LEMMA NotificationInv ==
  ASSUME DatabaseInv, NEW p \in Watched, Notification(p)
  PROVE  DatabaseInv'
<1>1. /\ p \in signaled /\ signaled' = signaled \ {p} /\ notifying' = notifying \cup {p}
      /\ UNCHANGED database /\ UNCHANGED byProtocol
      /\ UNCHANGED <<Position, registered, seen, old>> /\ UNCHANGED stack
  BY DEF Notification, database
<1>2. Lists /\ Notices /\ StackOK /\ ToldSoon
  BY DEF DatabaseInv
<1>3. Lists' /\ StackOK'
  BY <1>1, <1>2, ListsSame, StackSame
<1>4. signaled' \subseteq registered /\ notifying' \subseteq registered
  BY <1>1, <1>2 DEF Notices
<1>5. Notices'
  BY <1>1, <1>2, <1>4 DEF Notices
<1>6. ToldSoon'
  <2>1. \A q \in registered \ (signaled' \cup notifying') : q \notin signaled \cup notifying
    BY <1>1
  <2> QED BY <1>1, <1>2, <2>1, SoonKept
<1> QED BY <1>3, <1>5, <1>6 DEF DatabaseInv

\* A notification function goes on to the next interface, and ends only when it
\* has been told of all.
LEMMA LocateInv ==
  ASSUME DatabaseInv, NEW p \in Watched, LocateByRegisterNotify(p)
  PROVE  DatabaseInv'
<1> DEFINE list == byProtocol[p]
           x == NextByRegisterNotify(p)
<1>1. /\ p \in notifying /\ UNCHANGED database /\ UNCHANGED byProtocol
      /\ UNCHANGED registered /\ UNCHANGED signaled /\ UNCHANGED stack
  BY DEF LocateByRegisterNotify, database
<1>2. IF x = 0 THEN notifying' = notifying \ {p} /\ UNCHANGED <<Position, seen, old>>
      ELSE /\ Position' = [Position EXCEPT ![p] = x]
           /\ seen' = [seen EXCEPT ![p] = @ \cup {x}]
           /\ old' = [old EXCEPT ![p] = @ \ {x}]
           /\ UNCHANGED notifying
  BY DEF LocateByRegisterNotify
<1>3. Lists /\ Notices /\ StackOK /\ ToldSoon /\ p \in Protocols /\ p \in registered
  BY <1>1, ConstantsAssumption DEF DatabaseInv, Notices
<1>4. Lists' /\ StackOK'
  BY <1>1, <1>3, ListsSame, StackSame
<1>5. list \in Seq(ProtId) /\ IsInjective(list) /\ Told(list, Position[p], seen[p])
  BY <1>3 DEF Lists, Notices
<1>6. /\ Place(p) \in 0..Len(list)
      /\ seen[p] = {list[k] : k \in 1..Place(p)}
  BY <1>5, PlaceFacts
<1>7. Len(list) \in Nat /\ DOMAIN list = 1..Len(list)
  BY <1>5
<1>8. CASE Place(p) < Len(list)
  <2>1. Place(p) + 1 \in 1..Len(list) /\ x = list[Place(p) + 1]
    BY <1>6, <1>7, <1>8 DEF NextByRegisterNotify
  <2>2. x \in ProtId
    BY <1>5, <2>1
  <2>3. x # 0 /\ x \in 0..MaxProt
    BY <2>2, ConstantsAssumption DEF ProtId
  <2> HIDE DEF x
  <2>4. /\ Position' = [Position EXCEPT ![p] = x]
        /\ seen' = [seen EXCEPT ![p] = @ \cup {x}] /\ old' = [old EXCEPT ![p] = @ \ {x}]
        /\ UNCHANGED notifying
    BY <1>2, <2>3
  <2>5. /\ Position'[p] = x /\ seen'[p] = seen[p] \cup {x}
        /\ \A q \in Protocols : q # p => /\ Position'[q] = Position[q] /\ seen'[q] = seen[q]
                                         /\ old'[q] = old[q]
    BY <1>3, <2>4 DEF Notices
  <2>6. /\ Position' \in [Protocols -> 0..MaxProt] /\ seen' \in [Protocols -> SUBSET ProtId]
        /\ old' \in [Protocols -> SUBSET ProtId]
    BY <1>3, <2>2, <2>3, <2>4 DEF Notices
  <2>7. Told(list, x, seen[p] \cup {x})
    <3>1. \A k \in 1..(Place(p) + 1) : k \in 1..Place(p) \/ k = Place(p) + 1
      BY <1>6, <1>7
    <3>2. \A k \in 1..Place(p) : k \in 1..(Place(p) + 1)
      BY <1>6, <1>7
    <3>3. Place(p) + 1 \in 1..(Place(p) + 1)
      BY <1>6, <1>7
    <3>4. seen[p] \cup {x} = {list[k] : k \in 1..(Place(p) + 1)}
      BY <1>6, <2>1, <3>1, <3>2, <3>3
    <3>5. Place(p) + 1 \in 0..Len(list) /\ Place(p) + 1 # 0
      BY <1>7, <2>1
    <3> QED BY <2>1, <3>4, <3>5 DEF Told
  <2>8. \A q \in registered : Told(byProtocol'[q], Position'[q], seen'[q])
    <3>1. \A q \in registered : q \in Protocols /\ Told(byProtocol[q], Position[q], seen[q])
      BY <1>3, ConstantsAssumption DEF Notices
    <3> QED BY <1>1, <2>5, <2>7, <3>1
  <2>9. \A q \in Protocols \ registered : Position'[q] = 0
    BY <1>3, <2>5 DEF Notices
  <2>10. Notices'
    BY <1>1, <1>3, <2>4, <2>6, <2>8, <2>9 DEF Notices
  <2>11. ASSUME NEW q \in registered \ (signaled' \cup notifying')
         PROVE  /\ q \notin signaled \cup notifying
                /\ Started(stack, q) => Started(stack', q)
                /\ ToSet(byProtocol'[q]) \ (seen'[q] \cup old'[q])
                     \subseteq ToSet(byProtocol[q]) \ (seen[q] \cup old[q])
    <3>1. q # p /\ q \in Protocols /\ q \notin signaled \cup notifying
      BY <1>1, <1>3, <2>4, ConstantsAssumption DEF Notices
    <3> QED BY <1>1, <2>5, <3>1
  <2>12. ToldSoon'
    BY <1>1, <1>3, <2>11, SoonKept
  <2> QED BY <1>4, <2>10, <2>12 DEF DatabaseInv
<1>9. CASE ~(Place(p) < Len(list))
  <2>1. x = 0 /\ Place(p) = Len(list)
    BY <1>6, <1>7, <1>9 DEF NextByRegisterNotify
  <2>2. notifying' = notifying \ {p} /\ UNCHANGED <<Position, seen, old>>
    BY <1>2, <2>1
  <2>3. Notices'
    <3>1. notifying' \subseteq registered
      BY <1>3, <2>2 DEF Notices
    <3> QED BY <1>1, <1>3, <2>2, <3>1 DEF Notices
  <2>4. seen[p] = ToSet(list)
    BY <1>6, <1>7, <2>1 DEF ToSet
  <2> SUFFICES ASSUME NEW q \in registered \ (signaled' \cup notifying'),
                      NEW y \in ToSet(byProtocol'[q]) \ (seen'[q] \cup old'[q])
               PROVE  Started(stack', q)
    BY <1>1, <1>4, <2>3 DEF DatabaseInv, ToldSoon, Started
  <2>5. q # p
    BY <1>1, <2>2, <2>4
  <2>6. Started(stack, q)
    BY <1>1, <1>3, <2>2, <2>5 DEF ToldSoon, Started
  <2> QED BY <1>1, <2>6
<1> QED BY <1>8, <1>9

-----------------------------------------------------------------------------
(* The theorems that need no discipline of the callers. *)

\* At first there is nothing.
LEMMA DatabaseInit ==
  ASSUME Init
  PROVE  DatabaseInv
<1>1. Live = {} /\ prot \in [ProtId -> ProtocolInterface \cup {NoProt}]
  BY DEF Init, Live
<1>2. ToSet(<<>>) = {} /\ IsInjective(<<>>) /\ <<>> \in Seq(ProtId)
  BY DEF ToSet, IsInjective
<1>3. Lists
  BY <1>1, <1>2 DEF Init, Lists
<1>4. Notices
  BY ConstantsAssumption DEF Init, Notices
<1>5. StackOK
  BY ConstantsAssumption DEF Init, StackOK
<1>6. ToldSoon
  BY DEF Init, ToldSoon
<1> QED BY <1>3, <1>4, <1>5, <1>6 DEF DatabaseInv

\* Every step of Next keeps the database in order.
LEMMA DatabaseStep ==
  ASSUME DatabaseInv, [Next]_vars
  PROVE  DatabaseInv'
<1>1. ASSUME NEW h \in Handles, NEW p \in Protocols, NEW i \in Interfaces,
             \/ \E Notify \in BOOLEAN : InstallNewHandle(h, p, i, Notify)
             \/ Install(h, p, i) \/ Uninstall(h, p, i) \/ Reinstall(h, p, i)
      PROVE  DatabaseInv'
  <2>1. ASSUME NEW Notify \in BOOLEAN, InstallNewHandle(h, p, i, Notify)
        PROVE  DatabaseInv'
    BY <2>1, InstallNewHandleInv
  <2>2. \A op \in {"install", "uninstall", "reinstall"} : NewCall(op, h, p, i) \in Call
    BY NewCallType
  <2>3. CASE Install(h, p, i)
    BY <2>2, <2>3, BeginInv DEF Install
  <2>4. CASE Uninstall(h, p, i)
    BY <2>2, <2>4, BeginInv DEF Uninstall, UninstallOrReinstall
  <2>5. CASE Reinstall(h, p, i)
    BY <2>2, <2>5, BeginInv DEF Reinstall, UninstallOrReinstall
  <2> QED BY <1>1, <2>1, <2>3, <2>4, <2>5
<1>2. CASE InstallLocked
  BY <1>2, InstallLockedInv
<1>3. CASE FindAndDisconnect
  BY <1>3, FindAndDisconnectInv
<1>4. CASE StopSucceeds
  <2>1. /\ stack # <<>> /\ Top.pc = "stop" /\ Goto("rescan", Top.prot)
        /\ UNCHANGED <<database, notify>>
    BY <1>4 DEF StopSucceeds, At
  <2>2. Top.prot \in 0..MaxProt
    BY <2>1, TopType DEF DatabaseInv
  <2> QED BY <2>1, <2>2, GotoInv DEF Goto
<1>5. CASE StopFails
  <2>1. /\ stack # <<>> /\ Top.pc = "stop" /\ (Return \/ Goto("connect", 0))
        /\ UNCHANGED <<database, notify>>
    BY <1>5 DEF StopFails, At
  <2>2. 0 \in 0..MaxProt
    BY ConstantsAssumption
  <2> QED BY <2>1, <2>2, GotoInv DEF Goto
<1>6. CASE DisconnectAgain
  BY <1>6, DisconnectInv DEF DisconnectAgain, At
<1>7. CASE Connected
  BY <1>7, GotoInv DEF Connected, At
<1>8. CASE NotifyReinstalled
  BY <1>8, NotifyReinstalledInv
<1>9. CASE OpenAgain
  BY <1>9, OpenAgainInv
<1>10. ASSUME NEW h \in Handles, NEW p \in Protocols,
              \/ HandleProtocol(h, p)
              \/ \E d \in Agents : Close(h, p, d)
              \/ \E o \in Opens : Open(h, p, o[1], o[2]) \/ OpenExclusive(h, p, o[1], o[2])
       PROVE  DatabaseInv'
  <2>1. CASE HandleProtocol(h, p)
    <3>1. {GET_PROTOCOL} \in Attributes /\ Core \in Agents \cup {Core}
      BY DEF Attributes
    <3> QED BY <2>1, <3>1, OpenInv DEF HandleProtocol
  <2>2. CASE \E d \in Agents : Close(h, p, d)
    BY <2>2, CloseInv
  <2>3. ASSUME NEW o \in Opens, Open(h, p, o[1], o[2]) \/ OpenExclusive(h, p, o[1], o[2])
        PROVE  DatabaseInv'
    <3>1. o[1] \in Agents \cup {Core} /\ o[2] \in Attributes
      BY ConstantsAssumption
    <3> QED BY <2>3, <3>1, OpenInv, OpenExclusiveInv
  <2> QED BY <1>10, <2>1, <2>2, <2>3
<1>11. ASSUME NEW p \in Watched,
              \/ CoreRegisterProtocolNotify(p) \/ CoreUnregisterProtocolNotify(p)
              \/ Notification(p) \/ LocateByRegisterNotify(p)
       PROVE  DatabaseInv'
  BY <1>11, RegisterInv, UnregisterInv, NotificationInv, LocateInv
<1>12. CASE UNCHANGED vars
  <2>1. UNCHANGED <<database, notify>> /\ UNCHANGED stack
    BY <1>12 DEF vars
  <2>2. StackOK' /\ StartedKept
    BY <2>1, StackSame DEF DatabaseInv
  <2> QED BY <2>1, <2>2, DatabaseSame
<1> QED BY <1>1, <1>2, <1>3, <1>4, <1>5, <1>6, <1>7, <1>8, <1>9, <1>10, <1>11, <1>12 DEF Next

\* The lists hold what the structures say, at any depth of nesting: whatever is
\* installed, removed or opened wherever the database lock is dropped.
THEOREM DatabaseInvariant == Spec => []DatabaseInv
<1>1. Init => DatabaseInv
  BY DatabaseInit
<1>2. DatabaseInv /\ [Next]_vars => DatabaseInv'
  BY DatabaseStep
<1> QED BY <1>1, <1>2, PTL DEF Spec

\* The list of a handle and the list of a protocol agree, and a handle exists as
\* long as an interface is on it, though Install, Uninstall and OpenProtocol let go
\* of the lock half way.
THEOREM TheListsAgree == Spec => []ListsAgree
<1>1. ASSUME DatabaseInv
      PROVE  ListsAgree
  <2>1. Lists /\ Notices /\ StackOK
    BY <1>1 DEF DatabaseInv
  <2>2. \A x \in ProtId : prot[x] = NoProt \/ prot[x] \in ProtocolInterface
    BY <2>1 DEF Lists
  <2>3. gHandleList \subseteq Handles
    BY <2>1 DEF Lists
  <2>4. TypeOK
    BY <2>1, <2>2, <2>3 DEF TypeOK, Lists, Notices, StackOK, ProtocolInterface
  <2> QED BY <2>1, <2>4 DEF ListsAgree, Lists
<1> QED BY <1>1, DatabaseInvariant, PTL

\* A registration has been told of the interfaces up to its Position and of no
\* others, wherever interfaces are removed from or moved in the list it walks.
THEOREM RegistrationsToldOnce == Spec => []ToldOnce
<1>1. ASSUME DatabaseInv
      PROVE  ToldOnce
  <2>1. Lists /\ Notices
    BY <1>1 DEF DatabaseInv
  <2>2. ASSUME NEW p \in registered
        PROVE  /\ Position[p] \in ToSet(byProtocol[p]) \cup {0}
               /\ seen[p] = {byProtocol[p][k] : k \in 1..Place(p)}
    <3>1. p \in Protocols /\ Told(byProtocol[p], Position[p], seen[p])
      BY <2>1, ConstantsAssumption DEF Notices
    <3>2. byProtocol[p] \in Seq(ProtId) /\ IsInjective(byProtocol[p])
      BY <2>1, <3>1 DEF Lists
    <3>3. /\ Place(p) \in 0..Len(byProtocol[p])
          /\ Place(p) = 0 <=> Position[p] = 0
          /\ Place(p) > 0 => Position[p] = byProtocol[p][Place(p)]
          /\ seen[p] = {byProtocol[p][k] : k \in 1..Place(p)}
      BY <3>1, <3>2, PlaceFacts
    <3>4. CASE Place(p) = 0
      BY <3>3, <3>4
    <3>5. CASE Place(p) # 0
      <4>1. Place(p) \in DOMAIN byProtocol[p] /\ Place(p) > 0
        BY <3>2, <3>3, <3>5
      <4> QED BY <3>3, <4>1 DEF ToSet
    <3> QED BY <3>4, <3>5
  <2> QED BY <2>2 DEF ToldOnce
<1> QED BY <1>1, DatabaseInvariant, PTL

\* No reinstallation goes unnoticed and no installation with Notify = TRUE: what a
\* registration has not been told of yet, it is signalled for or will be.
THEOREM RegistrationsToldSoon == Spec => []ToldSoon
<1>1. DatabaseInv => ToldSoon
  BY DEF DatabaseInv
<1> QED BY <1>1, DatabaseInvariant, PTL

-----------------------------------------------------------------------------
(* Owners wait: nothing stale is used and nothing in use is removed. *)

\* What RemovedUnused says of a step.
OnlyUnused ==
  \A x \in Live :
    prot'[x] = NoProt \/ Replaces(x) => \A o \in prot[x].open : Droppable(o)

\* The step leaves every interface where it is,
Stay ==
  /\ Live' = Live
  /\ \A x \in Live : prot'[x].handle = prot[x].handle /\ prot'[x].protocol = prot[x].protocol

\* or adds or removes one of (h, p) only.
Elsewhere(h, p, removing) ==
  \A c \in Call :
    c.handle # h \/ c.protocol # p =>
      /\ Present(c, Live, prot) => Present(c, Live', prot')
      /\ /\ Fits(c, Live, prot)
         /\ removing /\ c.handle = h /\ Waits(c) => Present(c, Live, prot)
         => Fits(c, Live', prot')

\* The innermost call replaces nothing.
Resting ==
  ~(/\ At({"reinstall"}, "lock") \/ At({"reinstall"}, "rescan")
    /\ Len(stack') = Len(stack) /\ Head(stack').pc = "started")

\* A call fits as long as its interface stays,
LEMMA FitsStay ==
  ASSUME Stay, NEW c, Fits(c, Live, prot)
  PROVE  Fits(c, Live', prot')
<1>1. \A x \in Live : /\ On(prot, x, c) <=> On(prot', x, c)
                      /\ prot'[x].handle = prot[x].handle
  BY DEF Stay, On
<1> QED BY <1>1 DEF Fits, Stay

\* and finds what it found before.
LEMMA PresentStay ==
  ASSUME Stay, NEW c, Present(c, Live, prot)
  PROVE  Present(c, Live', prot')
BY DEF Stay, On, Present

\* So it does while another is added
LEMMA FitsAdd ==
  ASSUME NEW x \in ProtId \ Live, Live' = Live \cup {x}, \A y \in Live : prot'[y] = prot[y]
  PROVE  Elsewhere(prot'[x].handle, prot'[x].protocol, FALSE)
<1> SUFFICES ASSUME NEW c \in Call,
                    c.handle # prot'[x].handle \/ c.protocol # prot'[x].protocol
             PROVE  /\ Present(c, Live, prot) => Present(c, Live', prot')
                    /\ Fits(c, Live, prot) => Fits(c, Live', prot')
  BY DEF Elsewhere
<1>1. \A y \in Live : /\ On(prot, y, c) <=> On(prot', y, c)
                      /\ prot'[y].handle = prot[y].handle
  BY DEF On
<1>2. ~On(prot', x, c)
  BY DEF On
<1>3. Present(c, Live, prot) => Present(c, Live', prot')
  BY <1>1 DEF Present
<1>4. Fits(c, Live, prot) => Fits(c, Live', prot')
  BY <1>1, <1>2 DEF Fits
<1> QED BY <1>3, <1>4

\* or removed, unless it was the last one on a handle that a call will look at.
LEMMA FitsRemove ==
  ASSUME NEW x \in Live, Live' = Live \ {x}, \A y \in Live \ {x} : prot'[y] = prot[y]
  PROVE  Elsewhere(prot[x].handle, prot[x].protocol, TRUE)
<1> SUFFICES ASSUME NEW c \in Call,
                    c.handle # prot[x].handle \/ c.protocol # prot[x].protocol
             PROVE  /\ Present(c, Live, prot) => Present(c, Live', prot')
                    /\ /\ Fits(c, Live, prot)
                       /\ c.handle = prot[x].handle /\ Waits(c) => Present(c, Live, prot)
                       => Fits(c, Live', prot')
  BY DEF Elsewhere
<1>1. \A y \in Live \ {x} : /\ On(prot, y, c) <=> On(prot', y, c)
                            /\ prot'[y].handle = prot[y].handle
  BY DEF On
<1>2. ~On(prot, x, c)
  BY DEF On
<1>3. Present(c, Live, prot) => Present(c, Live', prot')
  BY <1>1, <1>2 DEF Present
<1>4. ASSUME Fits(c, Live, prot),
             c.handle = prot[x].handle /\ Waits(c) => Present(c, Live, prot)
      PROVE  Fits(c, Live', prot')
  <2>1. ASSUME Waits(c)
        PROVE  \E y \in Live' : prot'[y].handle = c.handle
    <3>1. CASE c.handle = prot[x].handle
      BY <1>3, <1>4, <2>1, <3>1 DEF Present, On
    <3>2. CASE c.handle # prot[x].handle
      <4>1. PICK y \in Live : prot[y].handle = c.handle
        BY <1>4, <2>1 DEF Fits
      <4> QED BY <1>1, <3>2, <4>1
    <3> QED BY <3>1, <3>2
  <2> QED BY <1>1, <1>2, <1>4, <2>1 DEF Fits
<1> QED BY <1>3, <1>4

\* One interface of a protocol on a handle, if they stay.
LEMMA OneStay ==
  ASSUME OneInterface, Stay
  PROVE  OneInterface'
BY DEF OneInterface, Stay

\* The stack of calls: one that begins stays away from the others' interfaces,
LEMMA ApartPush ==
  ASSUME StackOK, Apart(stack), NEW c \in Call, stack' = <<c>> \o stack,
         c.op = "open" \/ \A k \in DOMAIN stack : ~SamePlace(c, stack[k])
  PROVE  Apart(stack')
<1>1. /\ DOMAIN stack' = 1..(Len(stack) + 1) /\ stack'[1] = c
      /\ \A k \in DOMAIN stack' : k = 1 \/ (k - 1 \in DOMAIN stack /\ stack'[k] = stack[k - 1])
  BY PushFacts DEF StackOK
<1> SUFFICES ASSUME NEW j \in DOMAIN stack', NEW k \in DOMAIN stack', j < k, stack'[j].op # "open"
             PROVE  ~SamePlace(stack'[j], stack'[k])
  BY DEF Apart
<1>2. Len(stack) \in Nat
  BY DEF StackOK
<1>3. k # 1 /\ k - 1 \in DOMAIN stack /\ stack'[k] = stack[k - 1]
  BY <1>1, <1>2
<1>4. CASE j = 1
  BY <1>1, <1>3, <1>4
<1>5. CASE j # 1
  <2>1. j - 1 \in DOMAIN stack /\ stack'[j] = stack[j - 1]
    BY <1>1, <1>5
  <2>2. j - 1 < k - 1
    BY <1>1, <1>2
  <2> QED BY <1>3, <2>1, <2>2 DEF Apart
<1> QED BY <1>4, <1>5

\* the others stay as they are when it returns,
LEMMA ApartPop ==
  ASSUME StackOK, stack # <<>>, Apart(stack), stack' = Tail(stack)
  PROVE  Apart(stack')
<1>1. \A k \in DOMAIN stack' : k + 1 \in DOMAIN stack /\ stack'[k] = stack[k + 1]
  BY PopFacts DEF StackOK
<1>2. stack' \in Seq(Call)
  BY PopFacts DEF StackOK
<1> SUFFICES ASSUME NEW j \in DOMAIN stack', NEW k \in DOMAIN stack', j < k, stack'[j].op # "open"
             PROVE  ~SamePlace(stack'[j], stack'[k])
  BY DEF Apart
<1>3. j + 1 < k + 1
  BY <1>2
<1> QED BY <1>1, <1>3 DEF Apart

\* and it stays away when it goes on.
LEMMA ApartGoto ==
  ASSUME StackOK, stack # <<>>, Apart(stack), NEW c \in Call, stack' = <<c>> \o Tail(stack),
         c.op = Top.op, c.handle = Top.handle, c.protocol = Top.protocol
  PROVE  Apart(stack')
<1>1. Top = stack[1] /\ 1 \in DOMAIN stack /\ stack \in Seq(Call)
  BY TopType DEF StackOK
<1>2. /\ DOMAIN stack' = DOMAIN stack /\ stack'[1] = c
      /\ \A k \in DOMAIN stack : k # 1 => stack'[k] = stack[k]
  BY <1>1, GotoFacts
<1>3. \A k \in DOMAIN stack : /\ stack'[k].op = stack[k].op
                              /\ stack'[k].handle = stack[k].handle
                              /\ stack'[k].protocol = stack[k].protocol
  BY <1>1, <1>2
<1> SUFFICES ASSUME NEW j \in DOMAIN stack', NEW k \in DOMAIN stack', j < k, stack'[j].op # "open"
             PROVE  ~SamePlace(stack'[j], stack'[k])
  BY DEF Apart
<1>4. j \in DOMAIN stack /\ k \in DOMAIN stack /\ stack[j].op # "open"
  BY <1>2, <1>3
<1>5. ~SamePlace(stack[j], stack[k])
  BY <1>4 DEF Apart
<1> QED BY <1>3, <1>4, <1>5 DEF SamePlace

\* What calls that wait will find stays when another begins, unless that one is to
\* remove it,
LEMMA GuardedPush ==
  ASSUME StackOK, Guarded(stack, Live, prot), Stay, NEW c \in Call, stack' = <<c>> \o stack,
         c.op = "uninstall" => \A k \in DOMAIN stack :
           stack[k].handle = c.handle /\ Waits(stack[k]) => Present(stack[k], Live, prot)
  PROVE  Guarded(stack', Live', prot')
<1>1. /\ DOMAIN stack' = 1..(Len(stack) + 1) /\ stack'[1] = c
      /\ \A k \in DOMAIN stack' : k = 1 \/ (k - 1 \in DOMAIN stack /\ stack'[k] = stack[k - 1])
  BY PushFacts DEF StackOK
<1> SUFFICES ASSUME NEW j \in DOMAIN stack', NEW k \in DOMAIN stack', j < k,
                    stack'[j].op = "uninstall", stack'[j].handle = stack'[k].handle,
                    Waits(stack'[k])
             PROVE  Present(stack'[k], Live', prot')
  BY DEF Guarded
<1>2. Len(stack) \in Nat
  BY DEF StackOK
<1>3. k # 1 /\ k - 1 \in DOMAIN stack /\ stack'[k] = stack[k - 1]
  BY <1>1, <1>2
<1>4. PICK e : e = stack[k - 1]
  OBVIOUS
<1>5. Present(e, Live, prot)
  <2>1. CASE j = 1
    BY <1>1, <1>3, <1>4, <2>1
  <2>2. CASE j # 1
    <3>1. j - 1 \in DOMAIN stack /\ stack'[j] = stack[j - 1]
      BY <1>1, <2>2
    <3>2. j - 1 < k - 1
      BY <1>1, <1>2
    <3> QED BY <1>3, <1>4, <3>1, <3>2 DEF Guarded
  <2> QED BY <2>1, <2>2
<1>6. Present(e, Live', prot')
  BY <1>5, PresentStay
<1> QED BY <1>3, <1>4, <1>6

\* when one goes on,
LEMMA GuardedGoto ==
  ASSUME StackOK, stack # <<>>, Guarded(stack, Live, prot), Stay, NEW c \in Call,
         stack' = <<c>> \o Tail(stack), c.op = Top.op, c.handle = Top.handle
  PROVE  Guarded(stack', Live', prot')
<1>1. Top = stack[1] /\ 1 \in DOMAIN stack /\ stack \in Seq(Call)
  BY TopType DEF StackOK
<1>2. /\ DOMAIN stack' = DOMAIN stack /\ stack'[1] = c
      /\ \A k \in DOMAIN stack : k # 1 => stack'[k] = stack[k]
  BY <1>1, GotoFacts
<1> SUFFICES ASSUME NEW j \in DOMAIN stack', NEW k \in DOMAIN stack', j < k,
                    stack'[j].op = "uninstall", stack'[j].handle = stack'[k].handle,
                    Waits(stack'[k])
             PROVE  Present(stack'[k], Live', prot')
  BY DEF Guarded
<1>3. j \in DOMAIN stack /\ k \in DOMAIN stack /\ k # 1
  BY <1>1, <1>2
<1>4. PICK e : e = stack[k]
  OBVIOUS
<1>5. stack'[k] = e /\ stack[j].op = "uninstall" /\ stack[j].handle = e.handle /\ Waits(e)
  BY <1>1, <1>2, <1>3, <1>4
<1>6. Present(e, Live, prot)
  BY <1>3, <1>4, <1>5 DEF Guarded
<1>7. Present(e, Live', prot')
  BY <1>6, PresentStay
<1> QED BY <1>5, <1>7

\* and when one returns that has changed its own interface at most.
LEMMA GuardedPop ==
  ASSUME StackOK, stack # <<>>, Guarded(stack, Live, prot), stack' = Tail(stack),
         \A k \in DOMAIN stack : k # 1 /\ Present(stack[k], Live, prot)
                                => Present(stack[k], Live', prot')
  PROVE  Guarded(stack', Live', prot')
<1>1. /\ stack' \in Seq(Call)
      /\ \A k \in DOMAIN stack' : k + 1 \in DOMAIN stack /\ stack'[k] = stack[k + 1]
  BY PopFacts DEF StackOK
<1> SUFFICES ASSUME NEW j \in DOMAIN stack', NEW k \in DOMAIN stack', j < k,
                    stack'[j].op = "uninstall", stack'[j].handle = stack'[k].handle,
                    Waits(stack'[k])
             PROVE  Present(stack'[k], Live', prot')
  BY DEF Guarded
<1>2. /\ j + 1 \in DOMAIN stack /\ k + 1 \in DOMAIN stack /\ j + 1 < k + 1 /\ k + 1 # 1
      /\ stack'[j] = stack[j + 1] /\ stack'[k] = stack[k + 1]
  BY <1>1
<1>3. Present(stack[k + 1], Live, prot)
  BY <1>2 DEF Guarded
<1> QED BY <1>2, <1>3

\* A call that begins where nothing else changes.
LEMMA OwnersPush ==
  ASSUME StackOK, OwnersInv, Stay, NEW c \in Call, stack' = <<c>> \o stack,
         c.op = "open" \/ \A k \in DOMAIN stack : ~SamePlace(c, stack[k]),
         c.op = "uninstall" => \A k \in DOMAIN stack :
           stack[k].handle = c.handle /\ Waits(stack[k]) => Present(stack[k], Live, prot),
         Fits(c, Live, prot)
  PROVE  OwnersInv'
<1>1. OneInterface' /\ Apart(stack') /\ Guarded(stack', Live', prot')
  BY OneStay, ApartPush, GuardedPush DEF OwnersInv
<1>2. /\ stack'[1] = c
      /\ \A k \in DOMAIN stack' : k = 1 \/ (k - 1 \in DOMAIN stack /\ stack'[k] = stack[k - 1])
  BY PushFacts DEF StackOK
<1>3. ASSUME NEW k \in DOMAIN stack'
      PROVE  Fits(stack'[k], Live, prot)
  BY <1>2 DEF OwnersInv
<1>4. ASSUME NEW k \in DOMAIN stack'
      PROVE  Fits(stack'[k], Live', prot')
  <2> DEFINE e == stack'[k]
  <2>1. Fits(e, Live, prot)
    BY <1>3
  <2> HIDE DEF e
  <2>2. Fits(e, Live', prot')
    BY <2>1, FitsStay
  <2> QED BY <2>2 DEF e
<1> QED BY <1>1, <1>4 DEF OwnersInv

\* A call that goes on where the interfaces stay.
LEMMA OwnersGoto ==
  ASSUME StackOK, stack # <<>>, OwnersInv, Stay, NEW c \in Call, stack' = <<c>> \o Tail(stack),
         c.op = Top.op, c.handle = Top.handle, c.protocol = Top.protocol,
         Fits(c, Live, prot)
  PROVE  OwnersInv'
<1>1. OneInterface' /\ Apart(stack') /\ Guarded(stack', Live', prot')
  BY OneStay, ApartGoto, GuardedGoto DEF OwnersInv
<1>2. /\ DOMAIN stack' = DOMAIN stack /\ stack'[1] = c
      /\ \A k \in DOMAIN stack : k # 1 => stack'[k] = stack[k]
  BY GotoFacts DEF StackOK
<1>3. ASSUME NEW k \in DOMAIN stack'
      PROVE  Fits(stack'[k], Live, prot)
  BY <1>2 DEF OwnersInv
<1>4. ASSUME NEW k \in DOMAIN stack'
      PROVE  Fits(stack'[k], Live', prot')
  <2> DEFINE e == stack'[k]
  <2>1. Fits(e, Live, prot)
    BY <1>3
  <2> HIDE DEF e
  <2>2. Fits(e, Live', prot')
    BY <2>1, FitsStay
  <2> QED BY <2>2 DEF e
<1> QED BY <1>1, <1>4 DEF OwnersInv

\* A call that returns and has changed its own interface at most.
LEMMA OwnersPop ==
  ASSUME StackOK, stack # <<>>, OwnersInv, OneInterface', stack' = Tail(stack),
         \/ Stay
         \/ /\ Top.op # "open"
            /\ Elsewhere(Top.handle, Top.protocol, Top.op = "uninstall")
  PROVE  OwnersInv'
<1>1. Apart(stack')
  BY ApartPop DEF OwnersInv
<1>2. /\ Top = stack[1] /\ 1 \in DOMAIN stack /\ stack \in Seq(Call) /\ stack' \in Seq(Call)
      /\ \A k \in DOMAIN stack' : k + 1 \in DOMAIN stack /\ stack'[k] = stack[k + 1]
  <2>1. Top = stack[1] /\ 1 \in DOMAIN stack /\ stack \in Seq(Call)
    BY TopType DEF StackOK
  <2> QED BY <2>1, PopFacts
<1>3. ASSUME NEW k \in DOMAIN stack, k # 1
      PROVE  /\ Present(stack[k], Live, prot) => Present(stack[k], Live', prot')
             /\ Fits(stack[k], Live', prot')
  <2>1. PICK e : e = stack[k]
    OBVIOUS
  <2>2. e \in Call /\ Fits(e, Live, prot) /\ 1 < k
    BY <1>2, <1>3, <2>1 DEF OwnersInv
  <2>3. CASE Stay
    <3>1. Fits(e, Live', prot') /\ (Present(e, Live, prot) => Present(e, Live', prot'))
      BY <2>2, <2>3, FitsStay, PresentStay
    <3> QED BY <2>1, <3>1
  <2>4. CASE Top.op # "open" /\ Elsewhere(Top.handle, Top.protocol, Top.op = "uninstall")
    <3>1. e.handle # Top.handle \/ e.protocol # Top.protocol
      BY <1>2, <1>3, <2>1, <2>2, <2>4 DEF OwnersInv, Apart, SamePlace
    <3>2. Top.op = "uninstall" /\ e.handle = Top.handle /\ Waits(e) => Present(e, Live, prot)
      BY <1>2, <2>1, <2>2 DEF OwnersInv, Guarded
    <3>3. Fits(e, Live', prot') /\ (Present(e, Live, prot) => Present(e, Live', prot'))
      BY <2>2, <2>4, <3>1, <3>2 DEF Elsewhere
    <3> QED BY <2>1, <3>3
  <2> QED BY <2>3, <2>4
<1>4. Guarded(stack', Live', prot')
  BY <1>3, GuardedPop DEF OwnersInv
<1>5. ASSUME NEW k \in DOMAIN stack'
      PROVE  Fits(stack'[k], Live', prot')
  <2>1. k + 1 \in DOMAIN stack /\ k + 1 # 1 /\ stack'[k] = stack[k + 1]
    BY <1>2
  <2> QED BY <1>3, <2>1
<1> QED BY <1>1, <1>4, <1>5 DEF OwnersInv

\* No call begins, returns or goes on.
LEMMA OwnersSame ==
  ASSUME OwnersInv, Stay, UNCHANGED stack
  PROVE  OwnersInv'
<1>1. OneInterface'
  BY OneStay DEF OwnersInv
<1>2. \A k \in DOMAIN stack : Fits(stack[k], Live', prot')
  BY FitsStay DEF OwnersInv
<1>3. Guarded(stack, Live', prot')
  BY PresentStay DEF OwnersInv, Guarded
<1> QED BY <1>1, <1>2, <1>3 DEF OwnersInv

\* The steps that leave the interfaces where they are.
LEMMA StaySame ==
  ASSUME UNCHANGED database
  PROVE  Stay
BY DEF Stay, database, Live

\* A change of an open list is one of them.
LEMMA StayOpen ==
  ASSUME Lists, NEW x \in Live, NEW O \in SUBSET OpenData,
         prot' = [prot EXCEPT ![x].open = O], UNCHANGED <<gHandleList, byHandle, byProtocol>>
  PROVE  Stay
BY ListsOpen DEF Stay

\* Nothing in use is removed or replaced if nothing is.
LEMMA UnusedStay ==
  ASSUME Live \subseteq Live', Resting
  PROVE  OnlyUnused
BY DEF OnlyUnused, Live, Resting, Replaces

\* A call that returns replaces nothing.
LEMMA RestingReturn ==
  ASSUME StackOK, stack # <<>>, stack' = Tail(stack)
  PROVE  Resting
<1>1. Len(stack') = Len(stack) - 1 /\ Len(stack) \in Nat
  BY PopFacts DEF StackOK
<1>2. PICK n \in Nat : n = Len(stack) /\ Len(stack') = n - 1
  BY <1>1
<1>3. n - 1 # n
  BY <1>2
<1> QED BY <1>2, <1>3, Zenon DEF Resting

\* A call that begins, with nothing changed.
LEMMA BeginOwners ==
  ASSUME DatabaseInv, OwnersInv, NEW c \in Call, Begin(c), UNCHANGED <<database, notify>>,
         c.op = "open" \/ \A k \in DOMAIN stack : ~SamePlace(c, stack[k]),
         c.op = "uninstall" => \A k \in DOMAIN stack :
           stack[k].handle = c.handle /\ Waits(stack[k]) => Present(stack[k], Live, prot),
         Fits(c, Live, prot), c.pc # "started"
  PROVE  OwnersInv' /\ OnlyUnused
<1>1. stack' = <<c>> \o stack /\ StackOK /\ stack \in Seq(Call)
  BY DEF Begin, DatabaseInv, StackOK
<1>2. UNCHANGED database
  OBVIOUS
<1>3. Stay
  BY <1>2, StaySame
<1>4. OwnersInv'
  BY <1>1, <1>3, OwnersPush
<1>5. Head(stack') = c
  BY <1>1
<1> QED BY <1>3, <1>4, <1>5, UnusedStay DEF Stay, Resting

\* Nobody is at work on what the owner changes.
LEMMA MayChangeFacts ==
  ASSUME OwnersWait, NEW h, NEW p, MayChange(h, p), NEW c, c.handle = h, c.protocol = p
  PROVE  \A k \in DOMAIN stack : ~SamePlace(c, stack[k])
BY DEF MayChange, SamePlace

\* The fields of a new call.
LEMMA NewCallFields ==
  ASSUME NEW op, NEW h, NEW p, NEW i
  PROVE  /\ NewCall(op, h, p, i).op = op /\ NewCall(op, h, p, i).handle = h
         /\ NewCall(op, h, p, i).protocol = p /\ NewCall(op, h, p, i).pc = "lock"
BY DEF NewCall

\* Install finds no interface of the protocol on the handle.
LEMMA InstallOwners ==
  ASSUME OwnersWait, DatabaseInv, OwnersInv,
         NEW h \in Handles, NEW p \in Protocols, NEW i \in Interfaces, Install(h, p, i)
  PROVE  OwnersInv' /\ OnlyUnused
<1> DEFINE c == NewCall("install", h, p, i)
<1>1. /\ CoreGetProtocolInterface(h, p) = 0 /\ MayChange(h, p)
      /\ Begin(c) /\ UNCHANGED <<database, notify>>
  BY DEF Install
<1>2. c \in Call /\ c.op = "install" /\ c.handle = h /\ c.protocol = p /\ c.pc = "lock"
  BY NewCallType, NewCallFields
<1> HIDE DEF c
<1>3. \A k \in DOMAIN stack : ~SamePlace(c, stack[k])
  BY <1>1, <1>2, MayChangeFacts
<1>4. ASSUME NEW x \in Live
      PROVE  ~On(prot, x, c)
  <2>1. Lists
    BY DEF DatabaseInv
  <2>2. byHandle[h] \in Seq(ProtId)
    BY <2>1 DEF Lists
  <2>3. \A y \in ToSet(byHandle[h]) : prot[y].protocol # p
    BY <1>1, <2>2, GetFacts
  <2>4. x \in ToSet(byHandle[prot[x].handle])
    BY <2>1, LiveFacts
  <2> QED BY <1>2, <2>3, <2>4 DEF On
<1>5. Fits(c, Live, prot)
  BY <1>2, <1>4 DEF Fits, Waits
<1> QED BY <1>1, <1>2, <1>3, <1>5, BeginOwners

\* Uninstall and reinstall are asked for a handle that is there, and others that wait
\* for the handle find their interfaces.
LEMMA UninstallOwners ==
  ASSUME OwnersWait, DatabaseInv, OwnersInv, NEW op \in {"uninstall", "reinstall"},
         NEW h \in Handles, NEW p \in Protocols, NEW i \in Interfaces,
         UninstallOrReinstall(op, h, p, i)
  PROVE  OwnersInv' /\ OnlyUnused
<1> DEFINE c == NewCall(op, h, p, i)
<1>1. /\ h \in gHandleList /\ MayChange(h, p) /\ Begin(c) /\ UNCHANGED <<database, notify>>
      /\ op = "uninstall" => MayRemove(h)
  BY DEF UninstallOrReinstall
<1>2. c \in Call /\ c.op = op /\ c.handle = h /\ c.protocol = p /\ c.pc = "lock"
  BY NewCallType, NewCallFields
<1> HIDE DEF c
<1>3. \A k \in DOMAIN stack : ~SamePlace(c, stack[k])
  BY <1>1, <1>2, MayChangeFacts
<1>4. byHandle[h] \in Seq(ProtId) /\ Lists
  BY DEF DatabaseInv, Lists
<1>5. PICK x \in Live : prot[x].handle = h
  <2>1. byHandle[h] # <<>>
    BY <1>1, <1>4 DEF Lists
  <2>2. 1 \in DOMAIN byHandle[h]
    BY <1>4, <2>1
  <2>3. byHandle[h][1] \in ToSet(byHandle[h])
    BY <2>2 DEF ToSet
  <2> QED BY <1>4, <2>3, LiveFacts
<1>6. Fits(c, Live, prot)
  BY <1>2, <1>5 DEF Fits
<1>7. ASSUME op = "uninstall", NEW k \in DOMAIN stack,
             stack[k].handle = h, Waits(stack[k])
      PROVE  Present(stack[k], Live, prot)
  <2> DEFINE y == CoreFindProtocolInterface(h, stack[k].protocol, stack[k].interface)
  <2>1. y # 0
    BY <1>1, <1>7 DEF MayRemove, Waits
  <2>2. y \in ToSet(byHandle[h]) /\ prot[y].protocol = stack[k].protocol
    BY <1>4, <2>1, FindFacts
  <2> HIDE DEF y
  <2>3. y \in Live /\ prot[y].handle = h
    BY <1>4, <2>2, LiveFacts
  <2> QED BY <1>7, <2>2, <2>3 DEF Present, On
<1> QED BY <1>1, <1>2, <1>3, <1>6, <1>7, BeginOwners

\* What is added where nothing was is the only one.
LEMMA OneAdd ==
  ASSUME OneInterface, NEW x \in ProtId \ Live, Live' = Live \cup {x},
         \A y \in Live : prot'[y] = prot[y],
         \A y \in Live : prot[y].handle # prot'[x].handle \/ prot[y].protocol # prot'[x].protocol
  PROVE  OneInterface'
BY DEF OneInterface

\* A new handle has no interfaces, and no call knows it.
LEMMA InstallNewHandleOwners ==
  ASSUME DatabaseInv, OwnersInv,
         NEW h \in Handles, NEW p \in Protocols, NEW i \in Interfaces,
         NEW Notify \in BOOLEAN, InstallNewHandle(h, p, i, Notify)
  PROVE  OwnersInv' /\ OnlyUnused
<1>1. /\ Memory /\ h \notin gHandleList /\ gHandleList' = gHandleList \cup {h}
      /\ AddInterface(h, p, i, Notify) /\ UNCHANGED stack
      /\ \A k \in DOMAIN stack : stack[k].handle # h
  BY DEF InstallNewHandle
<1>2. Lists /\ StackOK
  BY DEF DatabaseInv
<1>3. PICK x \in ProtId \ Live :
        /\ Live' = Live \cup {x} /\ \A y \in Live : prot'[y] = prot[y]
        /\ prot'[x] = [handle |-> h, protocol |-> p, interface |-> i, open |-> {}]
  <2>1. \E x \in ProtId \ Live : Added(h, p, i, Notify, x)
    BY <1>1, <1>2, ListsAdd
  <2> QED BY <2>1 DEF Added
<1>4. prot'[x].handle = h /\ prot'[x].protocol = p
  BY <1>3
<1>5. \A y \in Live : prot[y].handle # h
  BY <1>1, <1>2, NoHandleFacts
<1>6. OneInterface'
  BY <1>3, <1>4, <1>5, OneAdd DEF OwnersInv
<1>7. Elsewhere(h, p, FALSE)
  BY <1>3, <1>4, FitsAdd
<1>8. \A k \in DOMAIN stack : stack[k] \in Call /\ Fits(stack[k], Live, prot)
  BY <1>2 DEF StackOK, OwnersInv
<1>9. \A k \in DOMAIN stack :
        /\ Fits(stack[k], Live', prot')
        /\ Present(stack[k], Live, prot) => Present(stack[k], Live', prot')
  BY <1>1, <1>7, <1>8 DEF Elsewhere
<1>10. OwnersInv'
  <2>1. Guarded(stack, Live', prot')
    BY <1>9 DEF OwnersInv, Guarded
  <2> QED BY <1>1, <1>6, <1>9, <2>1 DEF OwnersInv
<1>11. Resting
  BY <1>1 DEF At, Top, Resting
<1> QED BY <1>3, <1>10, <1>11, UnusedStay

\* Under the lock there is still no interface of the protocol on the handle.
LEMMA InstallLockedOwners ==
  ASSUME DatabaseInv, OwnersInv, InstallLocked
  PROVE  OwnersInv' /\ OnlyUnused
<1>1. /\ stack # <<>> /\ Top.op = "install" /\ stack' = Tail(stack) /\ UNCHANGED gHandleList
  BY DEF InstallLocked, At, Return
<1>2. Lists /\ StackOK
  BY DEF DatabaseInv
<1>3. /\ Top.handle \in Handles /\ Top.protocol \in Protocols /\ Top.interface \in Interfaces
      /\ Top = stack[1] /\ 1 \in DOMAIN stack
  BY <1>1, <1>2, TopType
<1>4. Resting
  BY <1>1, <1>2, RestingReturn
<1>5. CASE Top.handle \in gHandleList /\ Memory
  <2>1. AddInterface(Top.handle, Top.protocol, Top.interface, TRUE)
    BY <1>5 DEF InstallLocked
  <2>2. gHandleList' = gHandleList \cup {Top.handle}
    BY <1>1, <1>5
  <2>3. PICK x \in ProtId \ Live :
          /\ Live' = Live \cup {x} /\ \A y \in Live : prot'[y] = prot[y]
          /\ prot'[x] = [handle |-> Top.handle, protocol |-> Top.protocol,
                         interface |-> Top.interface, open |-> {}]
    <3>1. \E x \in ProtId \ Live : Added(Top.handle, Top.protocol, Top.interface, TRUE, x)
      BY <1>2, <1>3, <1>5, <2>1, <2>2, ListsAdd
    <3> QED BY <3>1 DEF Added
  <2>4. prot'[x].handle = Top.handle /\ prot'[x].protocol = Top.protocol
    BY <2>3
  <2>5. \A y \in Live : ~On(prot, y, Top)
    BY <1>1, <1>3 DEF OwnersInv, Fits
  <2>6. \A y \in Live : prot[y].handle # Top.handle \/ prot[y].protocol # Top.protocol
    BY <2>5 DEF On
  <2>7. OneInterface'
    BY <2>3, <2>4, <2>6, OneAdd DEF OwnersInv
  <2>8. Elsewhere(Top.handle, Top.protocol, Top.op = "uninstall")
    <3>1. Elsewhere(Top.handle, Top.protocol, FALSE)
      BY <2>3, <2>4, FitsAdd
    <3>2. (Top.op = "uninstall") = FALSE
      BY <1>1
    <3> QED BY <3>1, <3>2
  <2>9. OwnersInv'
    BY <1>1, <1>2, <2>7, <2>8, OwnersPop
  <2> QED BY <1>4, <2>3, <2>9, UnusedStay
<1>6. CASE ~(Top.handle \in gHandleList /\ Memory)
  <2>1. UNCHANGED database
    BY <1>1, <1>6 DEF InstallLocked, database
  <2>2. Stay
    BY <2>1, StaySame
  <2>3. OneInterface'
    BY <2>2, OneStay DEF OwnersInv
  <2>4. OwnersInv'
    BY <1>1, <1>2, <2>2, <2>3, OwnersPop
  <2> QED BY <1>4, <2>2, <2>4, UnusedStay DEF Stay
<1> QED BY <1>5, <1>6

\* A call that goes on refers to an interface of its own or to none any more.
LEMMA GotoOwners ==
  ASSUME StackOK, stack # <<>>, OwnersInv, Stay,
         NEW pc \in {"stop", "rescan", "connect", "started"},
         NEW x \in 0..MaxProt, NEW d \in Agents \cup {Core},
         stack' = <<[Top EXCEPT !.pc = pc, !.prot = x, !.agent = d]>> \o Tail(stack),
         \/ pc \in {"stop", "rescan"} /\ x \in Live /\ On(prot, x, Top) /\ Top.op # "install"
         \/ pc \in {"connect", "started"} /\ Top.op \in {"uninstall", "reinstall"}
  PROVE  OwnersInv' /\ Head(stack').pc = pc
<1> DEFINE c == [Top EXCEPT !.pc = pc, !.prot = x, !.agent = d]
<1>1. /\ c \in Call /\ c.op = Top.op /\ c.handle = Top.handle /\ c.protocol = Top.protocol
      /\ c.pc = pc /\ c.prot = x
  <2>1. Top \in Call /\ c \in Call
    BY TopType
  <2> QED BY <2>1 DEF Call
<1>2. stack' = <<c>> \o Tail(stack) /\ stack \in Seq(Call)
  BY DEF StackOK
<1> HIDE DEF c
<1>3. Fits(c, Live, prot)
  <2>1. x \in Live /\ On(prot, x, Top) => On(prot, x, c)
    BY <1>1 DEF On
  <2>2. CASE pc \in {"stop", "rescan"} /\ x \in Live /\ On(prot, x, Top) /\ Top.op # "install"
    BY <1>1, <2>1, <2>2 DEF Fits, Waits
  <2>3. CASE pc \in {"connect", "started"} /\ Top.op \in {"uninstall", "reinstall"}
    BY <1>1, <2>3 DEF Fits, Waits
  <2> QED BY <2>2, <2>3
<1>4. OwnersInv'
  BY <1>1, <1>2, <1>3, OwnersGoto
<1>5. Head(stack') = c
  BY <1>1, <1>2, GotoFacts
<1> QED BY <1>1, <1>4, <1>5

\* A stretch of an uninstall or reinstall, for the interface that was found.
LEMMA DisconnectOwners ==
  ASSUME DatabaseInv, OwnersInv, NEW x \in Live, On(prot, x, Top), stack # <<>>,
         Top.op \in {"uninstall", "reinstall"},
         Top.pc = "lock" \/ (Top.pc = "rescan" /\ Top.prot = x), Disconnect(x)
  PROVE  OwnersInv' /\ OnlyUnused
<1>1. Lists /\ StackOK /\ x \in ProtId
  BY DEF DatabaseInv, Live
<1>2. /\ Top.handle \in Handles /\ Top.protocol \in Protocols /\ Top.interface \in Interfaces
  BY <1>1, TopType
<1>3. Core \in Agents \cup {Core} /\ 0 \in 0..MaxProt /\ x \in 0..MaxProt
  BY <1>1, ConstantsAssumption DEF ProtId
<1>4. CASE \E o \in Managed(x) : AwaitStop(x, o.agent) /\ UNCHANGED <<database, notify>>
  <2>1. PICK o \in Managed(x) : AwaitStop(x, o.agent)
    BY <1>4
  <2>2. o.agent \in Agents \cup {Core}
    BY <1>1, ManagedFacts
  <2>3. stack' = <<[Top EXCEPT !.pc = "stop", !.prot = x, !.agent = o.agent]>> \o Tail(stack)
    BY <2>1 DEF AwaitStop
  <2>4. Stay
    BY <1>4, StaySame
  <2>5. OwnersInv' /\ Head(stack').pc = "stop"
    BY <1>1, <1>3, <2>2, <2>3, <2>4, GotoOwners
  <2> QED BY <2>4, <2>5, UnusedStay DEF Stay, Resting
<1>5. CASE /\ prot' = [prot EXCEPT ![x].open = {o \in @ : ~Droppable(o)}]
           /\ Goto("connect", 0)
           /\ UNCHANGED <<gHandleList, byHandle, byProtocol, notify>>
  <2> DEFINE O == {o \in prot[x].open : ~Droppable(o)}
  <2>1. O \in SUBSET OpenData
    BY <1>1, LiveFacts
  <2>2. prot' = [prot EXCEPT ![x].open = O]
    BY <1>5
  <2> HIDE DEF O
  <2>3. Stay
    BY <1>1, <1>5, <2>1, <2>2, StayOpen
  <2>4. OwnersInv' /\ Head(stack').pc = "connect"
    BY <1>1, <1>3, <1>5, <2>3, GotoOwners DEF Goto
  <2> QED BY <2>3, <2>4, UnusedStay DEF Stay, Resting
<1>6. CASE /\ \A o \in prot[x].open : Droppable(o)
           /\ LET y == CoreFindProtocolInterface(Top.handle, Top.protocol, Top.interface)
              IN  IF y = 0 THEN Return /\ UNCHANGED <<database, notify>>
                  ELSE IF Top.op = "uninstall"
                       THEN RemoveInterface(Top.handle, Top.protocol, y) /\ Return
                       ELSE \E i \in Interfaces :
                              /\ ReplaceInterface(Top.protocol, y, i)
                              /\ Goto("started", 0)
  <2> DEFINE y == CoreFindProtocolInterface(Top.handle, Top.protocol, Top.interface)
  <2>1. byHandle[Top.handle] \in Seq(ProtId)
    BY <1>1, <1>2 DEF Lists
  <2>2. y # 0 => y \in ToSet(byHandle[Top.handle]) /\ prot[y].protocol = Top.protocol
    BY <2>1, FindFacts
  <2>3. y # 0 => y \in Live /\ prot[y].handle = Top.handle
    BY <1>1, <1>2, <2>2, LiveFacts
  <2>4. y # 0 => y = x
    BY <2>2, <2>3 DEF OwnersInv, OneInterface, On
  <2>5. \A z \in Live : Replaces(z) => z = x
    BY <2>4 DEF Replaces, Live, ProtId
  <2>6. CASE y = 0
    <3>1. stack' = Tail(stack) /\ UNCHANGED database
      BY <1>6, <2>6 DEF Return
    <3>2. Stay
      BY <3>1, StaySame
    <3>3. OneInterface'
      BY <3>2, OneStay DEF OwnersInv
    <3>4. OwnersInv'
      BY <1>1, <3>1, <3>2, <3>3, OwnersPop
    <3>5. \A z \in Live : prot'[z] # NoProt
      BY <3>2 DEF Stay, Live
    <3> QED BY <1>6, <2>5, <3>4, <3>5 DEF OnlyUnused
  <2>7. CASE y # 0 /\ Top.op = "uninstall"
    <3>1. RemoveInterface(Top.handle, Top.protocol, y) /\ stack' = Tail(stack)
      BY <1>6, <2>7 DEF Return
    <3> HIDE DEF y
    <3>2. /\ Live' = Live \ {x} /\ \A z \in Live \ {x} : prot'[z] = prot[z]
      BY <1>1, <1>2, <2>2, <2>4, <2>7, <3>1, ListsRemove
    <3>3. Elsewhere(Top.handle, Top.protocol, Top.op = "uninstall")
      <4>1. Elsewhere(prot[x].handle, prot[x].protocol, TRUE)
        BY <3>2, FitsRemove
      <4>2. (Top.op = "uninstall") = TRUE
        BY <2>7
      <4> QED BY <4>1, <4>2 DEF On
    <3>4. OneInterface'
      BY <3>2 DEF OwnersInv, OneInterface
    <3>5. OwnersInv'
      BY <1>1, <2>7, <3>1, <3>3, <3>4, OwnersPop
    <3>6. \A z \in Live \ {x} : prot'[z] # NoProt
      BY <3>2 DEF Live
    <3> QED BY <1>6, <2>5, <3>5, <3>6 DEF OnlyUnused
  <2>8. CASE y # 0 /\ Top.op # "uninstall"
    <3>1. PICK i \in Interfaces : ReplaceInterface(Top.protocol, y, i) /\ Goto("started", 0)
      BY <1>6, <2>8
    <3> HIDE DEF y
    <3>2. Stay
      BY <1>1, <1>2, <2>2, <2>8, <3>1, ListsReplace DEF Stay
    <3>3. OwnersInv'
      BY <1>1, <1>3, <3>1, <3>2, GotoOwners DEF Goto
    <3>4. \A z \in Live : prot'[z] # NoProt
      BY <3>2 DEF Stay, Live
    <3> QED BY <1>6, <2>5, <3>3, <3>4 DEF OnlyUnused
  <2> QED BY <2>6, <2>7, <2>8
<1> QED BY <1>4, <1>5, <1>6 DEF Disconnect

\* The interface that is looked up under the lock.
LEMMA FindAndDisconnectOwners ==
  ASSUME DatabaseInv, OwnersInv, FindAndDisconnect
  PROVE  OwnersInv' /\ OnlyUnused
<1> DEFINE x == CoreFindProtocolInterface(Top.handle, Top.protocol, Top.interface)
<1>1. stack # <<>> /\ Top.op \in {"uninstall", "reinstall"} /\ Top.pc = "lock"
  BY DEF FindAndDisconnect, At
<1>2. IF x = 0 THEN Return /\ UNCHANGED <<database, notify>> ELSE Disconnect(x)
  BY DEF FindAndDisconnect
<1>3. Top.handle \in Handles /\ Lists /\ StackOK
  BY <1>1, TopType DEF DatabaseInv
<1>4. byHandle[Top.handle] \in Seq(ProtId)
  BY <1>3 DEF Lists
<1>5. x # 0 => x \in ToSet(byHandle[Top.handle]) /\ prot[x].protocol = Top.protocol
  BY <1>4, FindFacts
<1> HIDE DEF x
<1>6. x # 0 => x \in Live /\ On(prot, x, Top)
  BY <1>3, <1>5, LiveFacts DEF On
<1>7. CASE x = 0
  <2>1. stack' = Tail(stack) /\ UNCHANGED database
    BY <1>2, <1>7 DEF Return
  <2>2. Stay
    BY <2>1, StaySame
  <2>3. OneInterface'
    BY <2>2, OneStay DEF OwnersInv
  <2>4. OwnersInv'
    BY <1>1, <1>3, <2>1, <2>2, <2>3, OwnersPop
  <2> QED BY <1>1, <1>3, <2>1, <2>2, <2>4, RestingReturn, UnusedStay DEF Stay
<1>8. CASE x # 0
  BY <1>1, <1>2, <1>6, <1>8, DisconnectOwners
<1> QED BY <1>7, <1>8

\* A call that returns and has removed nothing.
LEMMA ReturnOwners ==
  ASSUME StackOK, stack # <<>>, OwnersInv, Stay, stack' = Tail(stack)
  PROVE  OwnersInv' /\ OnlyUnused
<1>1. OneInterface'
  BY OneStay DEF OwnersInv
<1>2. OwnersInv'
  BY <1>1, OwnersPop
<1> QED BY <1>2, RestingReturn, UnusedStay DEF Stay

\* No call begins, returns or goes on, and nothing is removed.
LEMMA SameOwners ==
  ASSUME OwnersInv, Stay, UNCHANGED stack
  PROVE  OwnersInv' /\ OnlyUnused
<1>1. OwnersInv'
  BY OwnersSame
<1>2. Resting
  BY DEF At, Top, Resting
<1> QED BY <1>1, <1>2, UnusedStay DEF Stay

\* An open has no influence on where interfaces are.
LEMMA StayAddOpen ==
  ASSUME Lists, NEW x \in Live, NEW d \in Agents \cup {Core}, NEW a \in Attributes,
         AddOpen(x, d, a)
  PROVE  Stay
<1> DEFINE O == prot[x].open \cup {[agent |-> d, attr |-> a]}
<1>1. O \in SUBSET OpenData
  BY LiveFacts DEF OpenData
<1>2. /\ prot' = [prot EXCEPT ![x].open = O]
      /\ UNCHANGED <<gHandleList, byHandle, byProtocol>>
  BY DEF AddOpen
<1> HIDE DEF O
<1> QED BY <1>1, <1>2, StayOpen

\* An exclusive open refers to the interface it has found.
LEMMA OpenExclusiveOwners ==
  ASSUME DatabaseInv, OwnersInv, NEW h \in Handles, NEW p \in Protocols,
         NEW d \in Agents \cup {Core}, NEW a \in Attributes, OpenExclusive(h, p, d, a)
  PROVE  OwnersInv' /\ OnlyUnused
<1>1. PICK x \in {CoreGetProtocolInterface(h, p)} \ {0} :
        \E o \in Managed(x) :
          Begin([NewCall("open", h, p, prot[x].interface) EXCEPT
                   !.opener = d, !.attr = a, !.prot = x, !.agent = o.agent, !.pc = "stop"])
  BY DEF OpenExclusive
<1>2. PICK o \in Managed(x) :
        Begin([NewCall("open", h, p, prot[x].interface) EXCEPT
                 !.opener = d, !.attr = a, !.prot = x, !.agent = o.agent, !.pc = "stop"])
  BY <1>1
<1>3. x \in Live /\ prot[x].handle = h /\ prot[x].protocol = p
  BY GetLive DEF DatabaseInv
<1>4. x \in 0..MaxProt /\ o.agent \in Agents \cup {Core}
  BY <1>3, ManagedFacts, ConstantsAssumption DEF DatabaseInv, Live, ProtId
<1>5. prot[x].interface \in Interfaces
  <2>1. prot[x] \in ProtocolInterface
    BY <1>3, LiveFacts DEF DatabaseInv
  <2> QED BY <2>1 DEF ProtocolInterface
<1> DEFINE c == NewCall("open", h, p, prot[x].interface)
           e == [c EXCEPT !.opener = d, !.attr = a, !.prot = x, !.agent = o.agent, !.pc = "stop"]
<1>6. c \in Call /\ c.op = "open" /\ c.handle = h /\ c.protocol = p
  BY <1>5, NewCallType, NewCallFields
<1>7. Begin(e)
  BY <1>2
<1> HIDE DEF c
<1>8. /\ e \in Call /\ e.op = "open" /\ e.handle = h /\ e.protocol = p
      /\ e.prot = x /\ e.pc = "stop"
  BY <1>4, <1>6 DEF Call
<1>9. UNCHANGED <<database, notify>>
  BY DEF OpenExclusive
<1> HIDE DEF e
<1>10. Fits(e, Live, prot)
  BY <1>3, <1>8 DEF Fits, On
<1> QED BY <1>7, <1>8, <1>9, <1>10, BeginOwners

\* Back under the lock it refers to it still.
LEMMA OpenAgainOwners ==
  ASSUME DatabaseInv, OwnersInv, OpenAgain
  PROVE  OwnersInv' /\ OnlyUnused
<1>1. stack # <<>> /\ Top.op = "open" /\ Top.pc = "rescan" /\ Top.prot \in Live
  BY DEF OpenAgain, At
<1>2. Lists /\ StackOK
  BY DEF DatabaseInv
<1>3. /\ Top.opener \in Agents \cup {Core} /\ Top.attr \in Attributes
      /\ Top.prot \in 0..MaxProt /\ Top = stack[1] /\ 1 \in DOMAIN stack
  BY <1>1, <1>2, TopType
<1>4. Resting
  BY <1>1 DEF At, Resting
<1>5. On(prot, Top.prot, Top)
  BY <1>1, <1>3 DEF OwnersInv, Fits
<1>6. CASE \E o \in Managed(Top.prot) :
             AwaitStop(Top.prot, o.agent) /\ UNCHANGED <<database, notify>>
  <2>1. PICK o \in Managed(Top.prot) : AwaitStop(Top.prot, o.agent)
    BY <1>6
  <2>2. o.agent \in Agents \cup {Core}
    BY <1>1, <1>2, ManagedFacts
  <2>3. Stay
    BY <1>6, StaySame
  <2>4. stack' = <<[Top EXCEPT !.pc = "stop", !.prot = Top.prot, !.agent = o.agent]>> \o Tail(stack)
    BY <2>1 DEF AwaitStop
  <2>5. OwnersInv'
    BY <1>1, <1>2, <1>3, <1>5, <2>2, <2>3, <2>4, GotoOwners
  <2> QED BY <1>4, <2>3, <2>5, UnusedStay DEF Stay
<1>7. CASE AddOpen(Top.prot, Top.opener, Top.attr) /\ Return
  <2>1. Stay
    BY <1>1, <1>2, <1>3, <1>7, StayAddOpen
  <2> QED BY <1>1, <1>2, <1>7, <2>1, ReturnOwners DEF Return
<1> QED BY <1>6, <1>7 DEF OpenAgain

\* Every step, while owners wait, leaves what calls refer to in place.
LEMMA OwnersStep ==
  ASSUME OwnersWait, DatabaseInv, OwnersInv, [Next]_vars
  PROVE  OwnersInv' /\ OnlyUnused
<1>0. Lists /\ StackOK
  BY DEF DatabaseInv
<1>1. ASSUME NEW h \in Handles, NEW p \in Protocols, NEW i \in Interfaces,
             \/ \E Notify \in BOOLEAN : InstallNewHandle(h, p, i, Notify)
             \/ Install(h, p, i) \/ Uninstall(h, p, i) \/ Reinstall(h, p, i)
      PROVE  OwnersInv' /\ OnlyUnused
  BY <1>1, InstallNewHandleOwners, InstallOwners, UninstallOwners DEF Uninstall, Reinstall
<1>2. CASE InstallLocked
  BY <1>2, InstallLockedOwners
<1>3. CASE FindAndDisconnect
  BY <1>3, FindAndDisconnectOwners
<1>4. CASE StopSucceeds
  <2>1. /\ stack # <<>> /\ Top.op \in {"uninstall", "reinstall", "open"} /\ Top.pc = "stop"
        /\ Goto("rescan", Top.prot) /\ UNCHANGED database
    BY <1>4 DEF StopSucceeds, At
  <2>2. Top.prot \in 0..MaxProt /\ Top = stack[1] /\ 1 \in DOMAIN stack
    BY <1>0, <2>1, TopType
  <2>3. Top.prot \in Live /\ On(prot, Top.prot, Top)
    BY <2>1, <2>2 DEF OwnersInv, Fits
  <2>4. Stay
    BY <2>1, StaySame
  <2>5. OwnersInv'
    BY <1>0, <2>1, <2>2, <2>3, <2>4, GotoOwners DEF Goto
  <2>6. Resting
    BY <2>1 DEF At, Resting
  <2> QED BY <2>4, <2>5, <2>6, UnusedStay DEF Stay
<1>5. CASE StopFails
  <2>1. /\ stack # <<>> /\ Top.op \in {"uninstall", "reinstall", "open"} /\ Top.pc = "stop"
        /\ IF Top.op = "open" THEN Return ELSE Goto("connect", 0)
        /\ UNCHANGED database
    BY <1>5 DEF StopFails, At
  <2>2. Stay
    BY <2>1, StaySame
  <2>3. Resting
    BY <2>1 DEF At, Resting
  <2>4. CASE Top.op = "open"
    BY <1>0, <2>1, <2>2, <2>4, ReturnOwners DEF Return
  <2>5. CASE Top.op # "open"
    <3>1. 0 \in 0..MaxProt /\ Core \in Agents \cup {Core}
      BY ConstantsAssumption
    <3>2. stack' = <<[Top EXCEPT !.pc = "connect", !.prot = 0, !.agent = Core]>> \o Tail(stack)
      BY <2>1, <2>5 DEF Goto
    <3>3. Top.op \in {"uninstall", "reinstall"}
      BY <2>1, <2>5
    <3>4. OwnersInv'
      BY <1>0, <2>1, <2>2, <3>1, <3>2, <3>3, GotoOwners
    <3> QED BY <2>2, <2>3, <3>4, UnusedStay DEF Stay
  <2> QED BY <2>4, <2>5
<1>6. CASE DisconnectAgain
  <2>1. /\ stack # <<>> /\ Top.op \in {"uninstall", "reinstall"} /\ Top.pc = "rescan"
        /\ Top.prot \in Live /\ Disconnect(Top.prot)
    BY <1>6 DEF DisconnectAgain, At
  <2>2. Top = stack[1] /\ 1 \in DOMAIN stack
    BY <1>0, <2>1, TopType
  <2>3. On(prot, Top.prot, Top)
    BY <2>1, <2>2 DEF OwnersInv, Fits
  <2> QED BY <2>1, <2>3, DisconnectOwners
<1>7. CASE Connected
  <2>1. /\ stack # <<>> /\ stack' = Tail(stack) /\ UNCHANGED database
    BY <1>7 DEF Connected, At, Return
  <2> QED BY <1>0, <2>1, StaySame, ReturnOwners
<1>8. CASE NotifyReinstalled
  <2>1. /\ stack # <<>> /\ stack' = Tail(stack) /\ UNCHANGED database
    BY <1>8 DEF NotifyReinstalled, At, Return
  <2> QED BY <1>0, <2>1, StaySame, ReturnOwners
<1>9. CASE OpenAgain
  BY <1>9, OpenAgainOwners
<1>10. ASSUME NEW h \in Handles, NEW p \in Protocols,
              \/ HandleProtocol(h, p)
              \/ \E d \in Agents : Close(h, p, d)
              \/ \E o \in Opens : Open(h, p, o[1], o[2]) \/ OpenExclusive(h, p, o[1], o[2])
       PROVE  OwnersInv' /\ OnlyUnused
  <2>1. ASSUME NEW d \in Agents \cup {Core}, NEW a \in Attributes, Open(h, p, d, a)
        PROVE  OwnersInv' /\ OnlyUnused
    <3>1. PICK x \in {CoreGetProtocolInterface(h, p)} \ {0} : AddOpen(x, d, a)
      BY <2>1 DEF Open
    <3>2. x \in Live
      BY <1>0, GetLive
    <3>3. Stay
      BY <1>0, <3>1, <3>2, StayAddOpen
    <3> QED BY <2>1, <3>3, SameOwners DEF Open
  <2>2. CASE HandleProtocol(h, p)
    <3>1. {GET_PROTOCOL} \in Attributes /\ Core \in Agents \cup {Core}
      BY DEF Attributes
    <3> QED BY <2>1, <2>2, <3>1 DEF HandleProtocol
  <2>3. ASSUME NEW d \in Agents, Close(h, p, d)
        PROVE  OwnersInv' /\ OnlyUnused
    <3>1. PICK x \in {CoreGetProtocolInterface(h, p)} \ {0} :
            prot' = [prot EXCEPT ![x].open = {o \in @ : o.agent # d}]
      BY <2>3 DEF Close
    <3>2. x \in Live
      BY <1>0, GetLive
    <3> DEFINE O == {o \in prot[x].open : o.agent # d}
    <3>3. O \in SUBSET OpenData
      BY <1>0, <3>2, LiveFacts
    <3>4. /\ prot' = [prot EXCEPT ![x].open = O]
          /\ UNCHANGED <<gHandleList, byHandle, byProtocol>> /\ UNCHANGED stack
      BY <2>3, <3>1 DEF Close
    <3> HIDE DEF O
    <3>5. Stay
      BY <1>0, <3>2, <3>3, <3>4, StayOpen
    <3> QED BY <3>4, <3>5, SameOwners
  <2>4. ASSUME NEW o \in Opens, Open(h, p, o[1], o[2]) \/ OpenExclusive(h, p, o[1], o[2])
        PROVE  OwnersInv' /\ OnlyUnused
    <3>1. o[1] \in Agents \cup {Core} /\ o[2] \in Attributes
      BY ConstantsAssumption
    <3> QED BY <2>1, <2>4, <3>1, OpenExclusiveOwners
  <2> QED BY <1>10, <2>2, <2>3, <2>4
<1>11. ASSUME NEW p \in Watched,
              \/ CoreRegisterProtocolNotify(p) \/ CoreUnregisterProtocolNotify(p)
              \/ Notification(p) \/ LocateByRegisterNotify(p)
       PROVE  OwnersInv' /\ OnlyUnused
  <2>1. UNCHANGED database /\ UNCHANGED stack
    BY <1>11 DEF CoreRegisterProtocolNotify, CoreUnregisterProtocolNotify, Notification,
                 LocateByRegisterNotify
  <2> QED BY <2>1, StaySame, SameOwners
<1>12. CASE UNCHANGED vars
  <2>1. UNCHANGED database /\ UNCHANGED stack
    BY <1>12 DEF vars
  <2> QED BY <2>1, StaySame, SameOwners
<1> QED BY <1>1, <1>2, <1>3, <1>4, <1>5, <1>6, <1>7, <1>8, <1>9, <1>10, <1>11, <1>12 DEF Next

\* While owners wait, a handle has a protocol once; a call that has let go of the lock
\* finds the interface it was at work on where it was, and one that is yet to take
\* the lock finds the handle.
THEOREM OwnersInvariant ==
  ASSUME OwnersWait
  PROVE  Spec => [](DatabaseInv /\ OwnersInv)
<1>1. Init => DatabaseInv /\ OwnersInv
  <2>1. Init => OwnersInv
    BY DEF Init, OwnersInv, OneInterface, Live, Apart, Guarded
  <2> QED BY <2>1, DatabaseInit
<1>2. DatabaseInv /\ OwnersInv /\ [Next]_vars => (DatabaseInv /\ OwnersInv)'
  BY DatabaseStep, OwnersStep
<1> QED BY <1>1, <1>2, PTL DEF Spec

\* No call goes on with a handle or a PROTOCOL_INTERFACE that has been freed while
\* it waited for drivers, also if it will end with EFI_NOT_FOUND, provided that the
\* callers keep to the discipline of MayChange and MayRemove.
THEOREM NothingStale ==
  ASSUME OwnersWait
  PROVE  Spec => []NoStalePointer
<1>1. ASSUME DatabaseInv, OwnersInv
      PROVE  NoStalePointer
  <2>1. Lists
    BY <1>1 DEF DatabaseInv
  <2>2. ASSUME NEW k \in DOMAIN stack
        PROVE  /\ stack[k].op \in {"uninstall", "reinstall"} /\ stack[k].pc \in {"lock", "rescan"}
                    => stack[k].handle \in gHandleList
               /\ stack[k].pc = "rescan" => stack[k].prot \in Live
    <3> DEFINE c == stack[k]
    <3>1. Fits(c, Live, prot)
      BY <1>1 DEF OwnersInv
    <3> HIDE DEF c
    <3>2. \A x \in Live : prot[x].handle = c.handle => c.handle \in gHandleList
      BY <2>1, LiveFacts
    <3>3. /\ c.op \in {"uninstall", "reinstall"} /\ c.pc \in {"lock", "rescan"}
               => c.handle \in gHandleList
          /\ c.pc = "rescan" => c.prot \in Live
      BY <3>1, <3>2 DEF Fits, Waits, On
    <3> QED BY <3>3 DEF c
  <2> QED BY <2>2 DEF NoStalePointer
<1> QED BY <1>1, OwnersInvariant, PTL

\* An interface is removed or replaced only when HandleProtocol alone has opened it,
\* also when a driver that was stopped for that has started again.
THEOREM OnlyUnusedRemoved ==
  ASSUME OwnersWait
  PROVE  Spec => RemovedUnused
<1> DEFINE A == \A x \in Live :
                  prot'[x] = NoProt \/ Replaces(x)
                  => \A o \in prot[x].open : Droppable(o)
<1>1. DatabaseInv /\ OwnersInv /\ [Next]_vars => [A]_vars
  <2>1. DatabaseInv /\ OwnersInv /\ [Next]_vars => OnlyUnused
    BY OwnersStep
  <2>2. OnlyUnused => A
    BY DEF OnlyUnused
  <2> QED BY <2>1, <2>2
<1> QED BY <1>1, OwnersInvariant, PTL DEF RemovedUnused, Spec

-----------------------------------------------------------------------------
(* No nested exclusive opens: an interface has one manager. *)

\* No open list gets longer, and that of a new interface is empty.
Shrink ==
  \A x \in Live' : \/ x \in Live /\ prot'[x].open \subseteq prot[x].open
                   \/ prot'[x].open = {}

\* Nobody becomes exclusive.
NoExclusive ==
  \A x \in Live' : \/ x \in Live /\ Excluding(prot', x) \subseteq Excluding(prot, x)
                   \/ Excluding(prot', x) = {}

\* With shorter lists there is still one claim at most, and nobody exclusive.
LEMMA ShrinkFacts ==
  ASSUME Shrink, Sole
  PROVE  Sole' /\ NoExclusive
<1>1. ASSUME NEW x \in Live'
      PROVE  /\ \A o, u \in Claims(prot', x) : o = u
             /\ \/ x \in Live /\ Excluding(prot', x) \subseteq Excluding(prot, x)
                \/ Excluding(prot', x) = {}
  <2>1. CASE x \in Live /\ prot'[x].open \subseteq prot[x].open
    <3>1. Claims(prot', x) \subseteq Claims(prot, x)
      BY <2>1 DEF Claims
    <3>2. Excluding(prot', x) \subseteq Excluding(prot, x)
      BY <2>1 DEF Excluding
    <3> QED BY <2>1, <3>1, <3>2 DEF Sole
  <2>2. CASE prot'[x].open = {}
    BY <2>2 DEF Claims, Excluding
  <2> QED BY <2>1, <2>2 DEF Shrink
<1>2. Sole'
  BY <1>1 DEF Sole
<1>3. NoExclusive
  BY <1>1 DEF NoExclusive
<1> QED BY <1>2, <1>3

\* The call that waits to be exclusive finds what it has found before.
LEMMA OpenerKept ==
  ASSUME NoExclusive, NEW c, Opener(c, Live, prot)
  PROVE  Opener(c, Live', prot')
BY DEF NoExclusive, Opener

\* And it stays the outermost call when others begin,
LEMMA OpenersPush ==
  ASSUME StackOK, OpenersInv, Sole', NoExclusive, NEW c \in Call, stack' = <<c>> \o stack,
         c.op = "open" => stack = <<>> /\ Opener(c, Live, prot)
  PROVE  OpenersInv'
<1>1. /\ stack'[1] = c /\ Len(stack') = Len(stack) + 1 /\ Len(stack) \in Nat
      /\ \A k \in DOMAIN stack' : k = 1 \/ (k - 1 \in DOMAIN stack /\ stack'[k] = stack[k - 1])
  BY PushFacts DEF StackOK
<1>2. stack' \in Seq(Call)
  BY PushFacts DEF StackOK
<1>3. ASSUME NEW k \in DOMAIN stack', stack'[k].op = "open"
      PROVE  k = Len(stack') /\ Opener(stack'[k], Live', prot')
  <2> DEFINE e == stack'[k]
  <2>1. k = Len(stack') /\ Opener(e, Live, prot)
    <3>1. CASE k = 1
      <4>1. c.op = "open"
        BY <1>1, <1>3, <3>1
      <4>2. Len(stack) = 0
        BY <4>1
      <4> QED BY <1>1, <3>1, <4>1, <4>2
    <3>2. CASE k # 1
      <4>1. k - 1 \in DOMAIN stack /\ stack'[k] = stack[k - 1]
        BY <1>1, <3>2
      <4>2. k - 1 = Len(stack) /\ Opener(stack[k - 1], Live, prot)
        BY <1>3, <4>1 DEF OpenersInv
      <4>3. k \in Nat
        BY <1>2
      <4> QED BY <1>1, <4>1, <4>2, <4>3
    <3> QED BY <3>1, <3>2
  <2> HIDE DEF e
  <2>2. Opener(e, Live', prot')
    BY <2>1, OpenerKept
  <2> QED BY <2>1, <2>2 DEF e
<1> QED BY <1>3 DEF OpenersInv

\* return
LEMMA OpenersPop ==
  ASSUME StackOK, stack # <<>>, OpenersInv, Sole', NoExclusive, stack' = Tail(stack)
  PROVE  OpenersInv'
<1>1. /\ Len(stack') = Len(stack) - 1 /\ Len(stack) \in Nat /\ stack' \in Seq(Call)
      /\ \A k \in DOMAIN stack' : k + 1 \in DOMAIN stack /\ stack'[k] = stack[k + 1]
  BY PopFacts DEF StackOK
<1>2. ASSUME NEW k \in DOMAIN stack', stack'[k].op = "open"
      PROVE  k = Len(stack') /\ Opener(stack'[k], Live', prot')
  <2> DEFINE e == stack'[k]
  <2>1. k + 1 = Len(stack) /\ Opener(e, Live, prot)
    BY <1>1, <1>2 DEF OpenersInv
  <2>2. k = Len(stack')
    BY <1>1, <2>1
  <2> HIDE DEF e
  <2>3. Opener(e, Live', prot')
    BY <2>1, OpenerKept
  <2> QED BY <2>2, <2>3 DEF e
<1> QED BY <1>2 DEF OpenersInv

\* or go on.
LEMMA OpenersGoto ==
  ASSUME StackOK, stack # <<>>, OpenersInv, Sole', NoExclusive,
         NEW c \in Call, stack' = <<c>> \o Tail(stack), c.op = Top.op,
         c.op = "open" => c.prot = Top.prot /\ c.pc \in {"stop", "rescan"}
  PROVE  OpenersInv'
<1>1. Top = stack[1] /\ 1 \in DOMAIN stack /\ stack \in Seq(Call)
  BY TopType DEF StackOK
<1>2. /\ DOMAIN stack' = DOMAIN stack /\ stack'[1] = c /\ Len(stack') = Len(stack)
      /\ \A k \in DOMAIN stack : k # 1 => stack'[k] = stack[k]
  BY <1>1, GotoFacts
<1>3. ASSUME NEW k \in DOMAIN stack', stack'[k].op = "open"
      PROVE  k = Len(stack') /\ Opener(stack'[k], Live', prot')
  <2> DEFINE e == stack'[k]
  <2>1. k = Len(stack') /\ Opener(e, Live, prot)
    <3>1. CASE k = 1
      <4>1. c.op = "open" /\ stack[1].op = "open"
        BY <1>1, <1>2, <1>3, <3>1
      <4>2. 1 = Len(stack) /\ Opener(Top, Live, prot)
        BY <1>1, <4>1 DEF OpenersInv
      <4>3. Opener(c, Live, prot)
        BY <4>1, <4>2 DEF Opener
      <4> QED BY <1>2, <3>1, <4>2, <4>3
    <3>2. CASE k # 1
      BY <1>2, <1>3, <3>2 DEF OpenersInv
    <3> QED BY <3>1, <3>2
  <2> HIDE DEF e
  <2>2. Opener(e, Live', prot')
    BY <2>1, OpenerKept
  <2> QED BY <2>1, <2>2 DEF e
<1> QED BY <1>3 DEF OpenersInv

\* No call begins, returns or goes on.
LEMMA OpenersSame ==
  ASSUME OpenersInv, Sole', NoExclusive, UNCHANGED stack
  PROVE  OpenersInv'
<1>1. \A k \in DOMAIN stack : stack[k].op = "open" =>
        k = Len(stack) /\ Opener(stack[k], Live', prot')
  BY OpenerKept DEF OpenersInv
<1> QED BY <1>1 DEF OpenersInv

\* The database as it was, with an open list cut, with an interface more or less.
LEMMA ShrinkSame ==
  ASSUME UNCHANGED database
  PROVE  Shrink
BY DEF Shrink, database, Live

\* An open list that is cut.
LEMMA ShrinkOpen ==
  ASSUME Lists, NEW x \in Live, NEW O \in SUBSET prot[x].open,
         prot' = [prot EXCEPT ![x].open = O], UNCHANGED <<gHandleList, byHandle, byProtocol>>
  PROVE  Shrink
<1>1. O \in SUBSET OpenData
  BY LiveFacts
<1>2. /\ Live' = Live /\ prot'[x].open = O
      /\ \A y \in Live : y # x => prot'[y] = prot[y]
  BY <1>1, ListsOpen
<1> QED BY <1>2 DEF Shrink

\* A call that goes on is of the same kind.
LEMMA GotoCall ==
  ASSUME StackOK, stack # <<>>, NEW pc \in {"stop", "rescan", "connect", "started"},
         NEW x \in 0..MaxProt, NEW d \in Agents \cup {Core},
         stack' = <<[Top EXCEPT !.pc = pc, !.prot = x, !.agent = d]>> \o Tail(stack)
  PROVE  \E c \in Call : /\ stack' = <<c>> \o Tail(stack)
                         /\ c.op = Top.op /\ c.pc = pc /\ c.prot = x
<1> DEFINE c == [Top EXCEPT !.pc = pc, !.prot = x, !.agent = d]
<1>1. Top \in Call /\ c \in Call
  BY TopType
<1>2. c.op = Top.op /\ c.pc = pc /\ c.prot = x
  BY <1>1 DEF Call
<1>3. stack' = <<c>> \o Tail(stack)
  OBVIOUS
<1> HIDE DEF c
<1> QED BY <1>1, <1>2, <1>3

\* A stretch of an uninstall or reinstall adds nothing to an open list.
LEMMA DisconnectOpeners ==
  ASSUME DatabaseInv, OpenersInv, NEW x \in Live, stack # <<>>,
         Top.op \in {"uninstall", "reinstall"}, Disconnect(x)
  PROVE  OpenersInv'
<1>1. Lists /\ StackOK /\ x \in ProtId /\ Sole
  BY DEF DatabaseInv, OpenersInv, Live
<1>2. /\ Top.handle \in Handles /\ Top.protocol \in Protocols /\ Top.interface \in Interfaces
  BY <1>1, TopType
<1>3. Core \in Agents \cup {Core} /\ 0 \in 0..MaxProt /\ x \in 0..MaxProt
  BY <1>1, ConstantsAssumption DEF ProtId
<1>4. CASE \E o \in Managed(x) : AwaitStop(x, o.agent) /\ UNCHANGED <<database, notify>>
  <2>1. PICK o \in Managed(x) : AwaitStop(x, o.agent)
    BY <1>4
  <2>2. o.agent \in Agents \cup {Core}
    BY <1>1, ManagedFacts
  <2>3. stack' = <<[Top EXCEPT !.pc = "stop", !.prot = x, !.agent = o.agent]>> \o Tail(stack)
    BY <2>1 DEF AwaitStop
  <2>4. Sole' /\ NoExclusive
    BY <1>1, <1>4, ShrinkSame, ShrinkFacts
  <2>5. PICK c \in Call : stack' = <<c>> \o Tail(stack) /\ c.op = Top.op
    BY <1>1, <1>3, <2>2, <2>3, GotoCall
  <2> QED BY <1>1, <2>4, <2>5, OpenersGoto
<1>5. CASE /\ prot' = [prot EXCEPT ![x].open = {o \in @ : ~Droppable(o)}]
           /\ Goto("connect", 0)
           /\ UNCHANGED <<gHandleList, byHandle, byProtocol, notify>>
  <2> DEFINE O == {o \in prot[x].open : ~Droppable(o)}
  <2>1. O \in SUBSET prot[x].open /\ prot' = [prot EXCEPT ![x].open = O]
    BY <1>5
  <2> HIDE DEF O
  <2>2. Sole' /\ NoExclusive
    BY <1>1, <1>5, <2>1, ShrinkOpen, ShrinkFacts
  <2>3. PICK c \in Call : stack' = <<c>> \o Tail(stack) /\ c.op = Top.op
    BY <1>1, <1>3, <1>5, GotoCall DEF Goto
  <2> QED BY <1>1, <2>2, <2>3, OpenersGoto
<1>6. CASE LET y == CoreFindProtocolInterface(Top.handle, Top.protocol, Top.interface)
           IN  IF y = 0 THEN Return /\ UNCHANGED <<database, notify>>
               ELSE IF Top.op = "uninstall"
                    THEN RemoveInterface(Top.handle, Top.protocol, y) /\ Return
                    ELSE \E i \in Interfaces :
                           /\ ReplaceInterface(Top.protocol, y, i)
                           /\ Goto("started", 0)
  <2> DEFINE y == CoreFindProtocolInterface(Top.handle, Top.protocol, Top.interface)
  <2>1. byHandle[Top.handle] \in Seq(ProtId)
    BY <1>1, <1>2 DEF Lists
  <2>2. y # 0 => y \in ToSet(byHandle[Top.handle]) /\ prot[y].protocol = Top.protocol
    BY <2>1, FindFacts
  <2>3. CASE y = 0
    <3>1. stack' = Tail(stack) /\ UNCHANGED database
      BY <1>6, <2>3 DEF Return
    <3>2. Sole' /\ NoExclusive
      BY <1>1, <3>1, ShrinkSame, ShrinkFacts
    <3> QED BY <1>1, <3>1, <3>2, OpenersPop
  <2>4. CASE y # 0 /\ Top.op = "uninstall"
    <3>1. RemoveInterface(Top.handle, Top.protocol, y) /\ stack' = Tail(stack)
      BY <1>6, <2>4 DEF Return
    <3> HIDE DEF y
    <3>2. /\ Live' = Live \ {y} /\ \A z \in Live \ {y} : prot'[z] = prot[z]
      BY <1>1, <1>2, <2>2, <2>4, <3>1, ListsRemove
    <3>3. Shrink
      BY <3>2 DEF Shrink
    <3>4. Sole' /\ NoExclusive
      BY <1>1, <3>3, ShrinkFacts
    <3> QED BY <1>1, <3>1, <3>4, OpenersPop
  <2>5. CASE y # 0 /\ Top.op # "uninstall"
    <3>1. PICK i \in Interfaces : ReplaceInterface(Top.protocol, y, i) /\ Goto("started", 0)
      BY <1>6, <2>5
    <3> HIDE DEF y
    <3>2. /\ Live' = Live /\ prot'[y].open = {}
          /\ \A z \in Live : z # y => prot'[z] = prot[z]
      BY <1>1, <1>2, <2>2, <2>5, <3>1, ListsReplace
    <3>3. Shrink
      BY <3>2 DEF Shrink
    <3>4. Sole' /\ NoExclusive
      BY <1>1, <3>3, ShrinkFacts
    <3>5. PICK c \in Call : stack' = <<c>> \o Tail(stack) /\ c.op = Top.op
      BY <1>1, <1>3, <3>1, GotoCall DEF Goto
    <3> QED BY <1>1, <3>4, <3>5, OpenersGoto
  <2> QED BY <2>3, <2>4, <2>5
<1> QED BY <1>4, <1>5, <1>6 DEF Disconnect

\* An open that claims an interface finds it free of claims.
LEMMA AddOpenFacts ==
  ASSUME Lists, Sole, NEW x \in Live, NEW d \in Agents \cup {Core}, NEW a \in Attributes,
         AddOpen(x, d, a),
         BY_DRIVER \in a \/ EXCLUSIVE \in a => Claims(prot, x) = {}
  PROVE  Sole' /\ (EXCLUSIVE \notin a => NoExclusive)
<1> DEFINE n == [agent |-> d, attr |-> a]
           O == prot[x].open \cup {n}
<1>1. O \in SUBSET OpenData
  BY LiveFacts DEF OpenData
<1>2. /\ prot' = [prot EXCEPT ![x].open = O] /\ UNCHANGED <<gHandleList, byHandle, byProtocol>>
  BY DEF AddOpen
<1>3. n.attr = a
  OBVIOUS
<1> HIDE DEF O
<1>4. /\ Live' = Live /\ prot'[x].open = O
      /\ \A y \in Live : y # x => prot'[y] = prot[y]
  BY <1>1, <1>2, ListsOpen
<1> HIDE DEF n
<1>5. \A y \in Live : y # x => Claims(prot', y) = Claims(prot, y)
                               /\ Excluding(prot', y) = Excluding(prot, y)
  BY <1>4 DEF Claims, Excluding
<1>6. CASE BY_DRIVER \in a \/ EXCLUSIVE \in a
  <2>1. Claims(prot', x) \subseteq {n}
    BY <1>4, <1>6 DEF Claims, O
  <2>2. Sole'
    BY <1>4, <1>5, <2>1 DEF Sole
  <2>3. EXCLUSIVE \notin a => Excluding(prot', x) \subseteq Excluding(prot, x)
    BY <1>3, <1>4 DEF Excluding, O
  <2> QED BY <1>4, <1>5, <2>2, <2>3 DEF NoExclusive
<1>7. CASE ~(BY_DRIVER \in a \/ EXCLUSIVE \in a)
  <2>1. Claims(prot', x) = Claims(prot, x)
    BY <1>3, <1>4, <1>7 DEF Claims, O
  <2>2. Excluding(prot', x) = Excluding(prot, x)
    BY <1>3, <1>4, <1>7 DEF Excluding, O
  <2>3. Sole'
    BY <1>4, <1>5, <2>1 DEF Sole
  <2> QED BY <1>4, <1>5, <2>2, <2>3 DEF NoExclusive
<1> QED BY <1>6, <1>7

\* The claims are what OpenProtocol looks at.
LEMMA ClaimFacts ==
  ASSUME NEW x
  PROVE  /\ Claims(prot, x) = Managed(x) \cup Exclusive(x)
         /\ Excluding(prot, x) = Exclusive(x)
BY DEF Claims, Excluding, Managed, Exclusive

\* An open that has nobody disconnected; an exclusive one finds no call at work.
LEMMA OpenOpeners ==
  ASSUME ~NestedExclusive, DatabaseInv, OpenersInv, NEW h \in Handles, NEW p \in Protocols,
         NEW d \in Agents \cup {Core}, NEW a \in Attributes, Open(h, p, d, a)
  PROVE  OpenersInv'
<1>1. Lists /\ Sole /\ UNCHANGED stack /\ (EXCLUSIVE \in a => stack = <<>>)
  BY DEF DatabaseInv, OpenersInv, Open
<1>2. PICK x \in {CoreGetProtocolInterface(h, p)} \ {0} :
        /\ a \cap {BY_DRIVER, EXCLUSIVE} # {} => Exclusive(x) = {} /\ Managed(x) = {}
        /\ AddOpen(x, d, a)
  BY DEF Open
<1>3. x \in Live
  BY <1>1, GetLive
<1>4. BY_DRIVER \in a \/ EXCLUSIVE \in a => Claims(prot, x) = {}
  BY <1>2, ClaimFacts
<1>5. Sole' /\ (EXCLUSIVE \notin a => NoExclusive)
  BY <1>1, <1>2, <1>3, <1>4, AddOpenFacts
<1>6. CASE EXCLUSIVE \notin a
  BY <1>1, <1>5, <1>6, OpenersSame
<1>7. CASE EXCLUSIVE \in a
  <2>1. DOMAIN stack' = {}
    BY <1>1, <1>7
  <2> QED BY <1>5, <2>1 DEF OpenersInv
<1> QED BY <1>6, <1>7

\* An exclusive open begins outside of all calls, where nobody else is exclusive.
LEMMA OpenExclusiveOpeners ==
  ASSUME ~NestedExclusive, DatabaseInv, OpenersInv, NEW h \in Handles, NEW p \in Protocols,
         NEW d \in Agents \cup {Core}, NEW a \in Attributes, OpenExclusive(h, p, d, a)
  PROVE  OpenersInv'
<1>1. Lists /\ StackOK /\ Sole /\ stack = <<>> /\ UNCHANGED database
  BY DEF DatabaseInv, OpenersInv, OpenExclusive
<1>2. PICK x \in {CoreGetProtocolInterface(h, p)} \ {0} :
        /\ Exclusive(x) = {}
        /\ \E o \in Managed(x) :
             Begin([NewCall("open", h, p, prot[x].interface) EXCEPT
                      !.opener = d, !.attr = a, !.prot = x, !.agent = o.agent, !.pc = "stop"])
  BY DEF OpenExclusive
<1>3. PICK o \in Managed(x) :
        Begin([NewCall("open", h, p, prot[x].interface) EXCEPT
                 !.opener = d, !.attr = a, !.prot = x, !.agent = o.agent, !.pc = "stop"])
  BY <1>2
<1>4. x \in Live /\ x \in ProtId
  BY <1>1, GetLive DEF Live
<1>5. x \in 0..MaxProt /\ o.agent \in Agents \cup {Core}
  BY <1>1, <1>4, ManagedFacts, ConstantsAssumption DEF ProtId
<1>6. prot[x].interface \in Interfaces
  <2>1. prot[x] \in ProtocolInterface
    BY <1>1, <1>4, LiveFacts
  <2> QED BY <2>1 DEF ProtocolInterface
<1> DEFINE c == NewCall("open", h, p, prot[x].interface)
           e == [c EXCEPT !.opener = d, !.attr = a, !.prot = x, !.agent = o.agent, !.pc = "stop"]
<1>7. c \in Call
  BY <1>6, NewCallType
<1>8. stack' = <<e>> \o stack
  BY <1>3 DEF Begin
<1> HIDE DEF c
<1>9. e \in Call /\ e.prot = x /\ e.pc = "stop"
  BY <1>5, <1>7 DEF Call
<1> HIDE DEF e
<1>10. Opener(e, Live, prot)
  BY <1>2, <1>4, <1>9, ClaimFacts DEF Opener
<1>11. Sole' /\ NoExclusive
  BY <1>1, ShrinkSame, ShrinkFacts
<1> QED BY <1>1, <1>8, <1>9, <1>10, <1>11, OpenersPush

\* The exclusive open that is back under the lock is the only call, and finds the
\* interface without a manager and without anybody exclusive.
LEMMA OpenAgainOpeners ==
  ASSUME DatabaseInv, OpenersInv, OpenAgain
  PROVE  OpenersInv'
<1>1. stack # <<>> /\ Top.op = "open" /\ Top.pc = "rescan" /\ Top.prot \in Live
  BY DEF OpenAgain, At
<1>2. Lists /\ StackOK /\ Sole
  BY DEF DatabaseInv, OpenersInv
<1>3. /\ Top.opener \in Agents \cup {Core} /\ Top.attr \in Attributes
      /\ Top.prot \in 0..MaxProt /\ Top = stack[1] /\ 1 \in DOMAIN stack
  BY <1>1, <1>2, TopType
<1>4. 1 = Len(stack) /\ Opener(Top, Live, prot)
  BY <1>1, <1>3 DEF OpenersInv
<1>5. CASE \E o \in Managed(Top.prot) :
             AwaitStop(Top.prot, o.agent) /\ UNCHANGED <<database, notify>>
  <2>1. PICK o \in Managed(Top.prot) : AwaitStop(Top.prot, o.agent)
    BY <1>5
  <2>2. o.agent \in Agents \cup {Core}
    BY <1>1, <1>2, ManagedFacts
  <2>3. Sole' /\ NoExclusive
    BY <1>2, <1>5, ShrinkSame, ShrinkFacts
  <2>4. stack' = <<[Top EXCEPT !.pc = "stop", !.prot = Top.prot, !.agent = o.agent]>> \o Tail(stack)
    BY <2>1 DEF AwaitStop
  <2>5. PICK c \in Call : stack' = <<c>> \o Tail(stack) /\ c.op = Top.op
                          /\ c.pc = "stop" /\ c.prot = Top.prot
    <3>1. PICK x \in 0..MaxProt : x = Top.prot
      BY <1>3
    <3>2. stack' = <<[Top EXCEPT !.pc = "stop", !.prot = x, !.agent = o.agent]>> \o Tail(stack)
      BY <2>4, <3>1
    <3>3. \E c \in Call : /\ stack' = <<c>> \o Tail(stack)
                          /\ c.op = Top.op /\ c.pc = "stop" /\ c.prot = x
      BY <1>1, <1>2, <2>2, <3>2, GotoCall
    <3> QED BY <3>1, <3>3
  <2> QED BY <1>1, <1>2, <2>3, <2>5, OpenersGoto
<1>6. CASE Managed(Top.prot) = {} /\ AddOpen(Top.prot, Top.opener, Top.attr) /\ Return
  <2>1. Claims(prot, Top.prot) = {}
    BY <1>1, <1>4, <1>6, ClaimFacts DEF Opener
  <2>2. Sole'
    BY <1>1, <1>2, <1>3, <1>6, <2>1, AddOpenFacts
  <2>3. stack' \in Seq(Call) /\ Len(stack') = 0
    <3>1. stack' = Tail(stack) /\ stack \in Seq(Call)
      BY <1>2, <1>6 DEF Return, StackOK
    <3>2. stack' \in Seq(Call) /\ Len(stack') = Len(stack) - 1
      BY <1>1, <3>1, PopFacts
    <3> QED BY <1>4, <3>2
  <2>4. DOMAIN stack' = {}
    BY <2>3
  <2> QED BY <2>2, <2>4 DEF OpenersInv
<1> QED BY <1>5, <1>6 DEF OpenAgain

\* Every step keeps the claims to one.
LEMMA OpenersStep ==
  ASSUME ~NestedExclusive, DatabaseInv, OpenersInv, [Next]_vars
  PROVE  OpenersInv'
<1>0. Lists /\ StackOK /\ Sole
  BY DEF DatabaseInv, OpenersInv
<1>1. ASSUME NEW h \in Handles, NEW p \in Protocols, NEW i \in Interfaces,
             \/ \E Notify \in BOOLEAN : InstallNewHandle(h, p, i, Notify)
             \/ Install(h, p, i) \/ Uninstall(h, p, i) \/ Reinstall(h, p, i)
      PROVE  OpenersInv'
  <2>1. ASSUME NEW Notify \in BOOLEAN, InstallNewHandle(h, p, i, Notify)
        PROVE  OpenersInv'
    <3>1. /\ Memory /\ gHandleList' = gHandleList \cup {h}
          /\ AddInterface(h, p, i, Notify) /\ UNCHANGED stack
      BY <2>1 DEF InstallNewHandle
    <3>2. PICK x \in ProtId \ Live :
            /\ Live' = Live \cup {x} /\ \A y \in Live : prot'[y] = prot[y]
            /\ prot'[x] = [handle |-> h, protocol |-> p, interface |-> i, open |-> {}]
      <4>1. \E x \in ProtId \ Live : Added(h, p, i, Notify, x)
        BY <1>0, <2>1, <3>1, ListsAdd
      <4> QED BY <4>1 DEF Added
    <3>3. Shrink
      BY <3>2 DEF Shrink
    <3> QED BY <1>0, <3>1, <3>3, ShrinkFacts, OpenersSame
  <2>2. ASSUME NEW op \in {"install", "uninstall", "reinstall"},
               Begin(NewCall(op, h, p, i)), UNCHANGED <<database, notify>>
        PROVE  OpenersInv'
    <3> DEFINE c == NewCall(op, h, p, i)
    <3>1. c \in Call /\ c.op = op
      BY NewCallType, NewCallFields
    <3>2. stack' = <<c>> \o stack /\ UNCHANGED database
      BY <2>2 DEF Begin
    <3> HIDE DEF c
    <3>3. Sole' /\ NoExclusive
      BY <1>0, <3>2, ShrinkSame, ShrinkFacts
    <3> QED BY <1>0, <3>1, <3>2, <3>3, OpenersPush
  <2>3. CASE Install(h, p, i)
    BY <2>2, <2>3 DEF Install
  <2>4. CASE Uninstall(h, p, i)
    BY <2>2, <2>4 DEF Uninstall, UninstallOrReinstall
  <2>5. CASE Reinstall(h, p, i)
    BY <2>2, <2>5 DEF Reinstall, UninstallOrReinstall
  <2> QED BY <1>1, <2>1, <2>3, <2>4, <2>5
<1>2. CASE InstallLocked
  <2>1. /\ stack # <<>> /\ stack' = Tail(stack) /\ UNCHANGED gHandleList
    BY <1>2 DEF InstallLocked, At, Return
  <2>2. /\ Top.handle \in Handles /\ Top.protocol \in Protocols /\ Top.interface \in Interfaces
    BY <1>0, <2>1, TopType
  <2>3. CASE Top.handle \in gHandleList /\ Memory
    <3>1. AddInterface(Top.handle, Top.protocol, Top.interface, TRUE)
      BY <1>2, <2>3 DEF InstallLocked
    <3>2. gHandleList' = gHandleList \cup {Top.handle}
      BY <2>1, <2>3
    <3>3. PICK x \in ProtId \ Live :
            /\ Live' = Live \cup {x} /\ \A y \in Live : prot'[y] = prot[y]
            /\ prot'[x] = [handle |-> Top.handle, protocol |-> Top.protocol,
                           interface |-> Top.interface, open |-> {}]
      <4>1. \E x \in ProtId \ Live : Added(Top.handle, Top.protocol, Top.interface, TRUE, x)
        BY <1>0, <2>2, <2>3, <3>1, <3>2, ListsAdd
      <4> QED BY <4>1 DEF Added
    <3>4. Shrink
      BY <3>3 DEF Shrink
    <3> QED BY <1>0, <2>1, <3>4, ShrinkFacts, OpenersPop
  <2>4. CASE ~(Top.handle \in gHandleList /\ Memory)
    <3>1. UNCHANGED database
      BY <1>2, <2>1, <2>4 DEF InstallLocked, database
    <3> QED BY <1>0, <2>1, <3>1, ShrinkSame, ShrinkFacts, OpenersPop
  <2> QED BY <2>3, <2>4
<1>3. CASE FindAndDisconnect
  <2> DEFINE x == CoreFindProtocolInterface(Top.handle, Top.protocol, Top.interface)
  <2>1. stack # <<>> /\ Top.op \in {"uninstall", "reinstall"}
    BY <1>3 DEF FindAndDisconnect, At
  <2>2. IF x = 0 THEN Return /\ UNCHANGED <<database, notify>> ELSE Disconnect(x)
    BY <1>3 DEF FindAndDisconnect
  <2>3. Top.handle \in Handles
    BY <1>0, <2>1, TopType
  <2>4. byHandle[Top.handle] \in Seq(ProtId)
    BY <1>0, <2>3 DEF Lists
  <2>5. x # 0 => x \in ToSet(byHandle[Top.handle])
    BY <2>4, FindFacts
  <2> HIDE DEF x
  <2>6. CASE x = 0
    <3>1. stack' = Tail(stack) /\ UNCHANGED database
      BY <2>2, <2>6 DEF Return
    <3> QED BY <1>0, <2>1, <3>1, ShrinkSame, ShrinkFacts, OpenersPop
  <2>7. CASE x # 0
    <3>1. x \in Live
      BY <1>0, <2>3, <2>5, <2>7, LiveFacts
    <3> QED BY <2>1, <2>2, <2>7, <3>1, DisconnectOpeners
  <2> QED BY <2>6, <2>7
<1>4. CASE StopSucceeds
  <2>1. /\ stack # <<>> /\ Goto("rescan", Top.prot) /\ UNCHANGED database
    BY <1>4 DEF StopSucceeds, At
  <2>2. Top.prot \in 0..MaxProt /\ Core \in Agents \cup {Core}
    BY <1>0, <2>1, TopType
  <2>3. PICK c \in Call : stack' = <<c>> \o Tail(stack) /\ c.op = Top.op
                          /\ c.pc = "rescan" /\ c.prot = Top.prot
    <3>1. PICK x \in 0..MaxProt : x = Top.prot
      BY <2>2
    <3>2. stack' = <<[Top EXCEPT !.pc = "rescan", !.prot = x, !.agent = Core]>> \o Tail(stack)
      BY <2>1, <3>1 DEF Goto
    <3>3. \E c \in Call : /\ stack' = <<c>> \o Tail(stack)
                          /\ c.op = Top.op /\ c.pc = "rescan" /\ c.prot = x
      BY <1>0, <2>1, <2>2, <3>2, GotoCall
    <3> QED BY <3>1, <3>3
  <2> QED BY <1>0, <2>1, <2>3, ShrinkSame, ShrinkFacts, OpenersGoto
<1>5. CASE StopFails
  <2>1. /\ stack # <<>> /\ UNCHANGED database
        /\ IF Top.op = "open" THEN Return ELSE Goto("connect", 0)
    BY <1>5 DEF StopFails, At
  <2>2. CASE Top.op = "open"
    BY <1>0, <2>1, <2>2, ShrinkSame, ShrinkFacts, OpenersPop DEF Return
  <2>3. CASE Top.op # "open"
    <3>1. 0 \in 0..MaxProt /\ Core \in Agents \cup {Core}
      BY ConstantsAssumption
    <3>2. PICK c \in Call : stack' = <<c>> \o Tail(stack) /\ c.op = Top.op
      BY <1>0, <2>1, <2>3, <3>1, GotoCall DEF Goto
    <3> QED BY <1>0, <2>1, <2>3, <3>2, ShrinkSame, ShrinkFacts, OpenersGoto
  <2> QED BY <2>2, <2>3
<1>6. CASE DisconnectAgain
  BY <1>6, DisconnectOpeners DEF DisconnectAgain, At
<1>7. CASE Connected
  <2>1. stack # <<>> /\ stack' = Tail(stack) /\ UNCHANGED database
    BY <1>7 DEF Connected, At, Return
  <2> QED BY <1>0, <2>1, ShrinkSame, ShrinkFacts, OpenersPop
<1>8. CASE NotifyReinstalled
  <2>1. stack # <<>> /\ stack' = Tail(stack) /\ UNCHANGED database
    BY <1>8 DEF NotifyReinstalled, At, Return
  <2> QED BY <1>0, <2>1, ShrinkSame, ShrinkFacts, OpenersPop
<1>9. CASE OpenAgain
  BY <1>9, OpenAgainOpeners
<1>10. ASSUME NEW h \in Handles, NEW p \in Protocols,
              \/ HandleProtocol(h, p)
              \/ \E d \in Agents : Close(h, p, d)
              \/ \E o \in Opens : Open(h, p, o[1], o[2]) \/ OpenExclusive(h, p, o[1], o[2])
       PROVE  OpenersInv'
  <2>1. CASE HandleProtocol(h, p)
    <3>1. {GET_PROTOCOL} \in Attributes /\ Core \in Agents \cup {Core}
      BY DEF Attributes
    <3> QED BY <2>1, <3>1, OpenOpeners DEF HandleProtocol
  <2>2. ASSUME NEW d \in Agents, Close(h, p, d)
        PROVE  OpenersInv'
    <3>1. PICK x \in {CoreGetProtocolInterface(h, p)} \ {0} :
            prot' = [prot EXCEPT ![x].open = {o \in @ : o.agent # d}]
      BY <2>2 DEF Close
    <3>2. x \in Live
      BY <1>0, GetLive
    <3> DEFINE O == {o \in prot[x].open : o.agent # d}
    <3>3. O \in SUBSET prot[x].open
      OBVIOUS
    <3>4. /\ prot' = [prot EXCEPT ![x].open = O]
          /\ UNCHANGED <<gHandleList, byHandle, byProtocol>> /\ UNCHANGED stack
      BY <2>2, <3>1 DEF Close
    <3> HIDE DEF O
    <3>5. Shrink
      BY <1>0, <3>2, <3>3, <3>4, ShrinkOpen
    <3> QED BY <1>0, <3>4, <3>5, ShrinkFacts, OpenersSame
  <2>3. ASSUME NEW o \in Opens, Open(h, p, o[1], o[2]) \/ OpenExclusive(h, p, o[1], o[2])
        PROVE  OpenersInv'
    <3>1. o[1] \in Agents \cup {Core} /\ o[2] \in Attributes
      BY ConstantsAssumption
    <3> QED BY <2>3, <3>1, OpenOpeners, OpenExclusiveOpeners
  <2> QED BY <1>10, <2>1, <2>2, <2>3
<1>11. ASSUME NEW p \in Watched,
              \/ CoreRegisterProtocolNotify(p) \/ CoreUnregisterProtocolNotify(p)
              \/ Notification(p) \/ LocateByRegisterNotify(p)
       PROVE  OpenersInv'
  <2>1. UNCHANGED database /\ UNCHANGED stack
    BY <1>11 DEF CoreRegisterProtocolNotify, CoreUnregisterProtocolNotify, Notification,
                 LocateByRegisterNotify
  <2> QED BY <1>0, <2>1, ShrinkSame, ShrinkFacts, OpenersSame
<1>12. CASE UNCHANGED vars
  <2>1. UNCHANGED database /\ UNCHANGED stack
    BY <1>12 DEF vars
  <2> QED BY <1>0, <2>1, ShrinkSame, ShrinkFacts, OpenersSame
<1> QED BY <1>1, <1>2, <1>3, <1>4, <1>5, <1>6, <1>7, <1>8, <1>9, <1>10, <1>11, <1>12 DEF Next

\* An interface is managed or held exclusively by one agent at most, though
\* CoreOpenProtocol does not look at the exclusive opens again after it has had the
\* driver stopped: provided that an exclusive open does not begin inside a call.
THEOREM OneManagerAtATime ==
  ASSUME ~NestedExclusive
  PROVE  Spec => []OneManager
<1>1. Init => DatabaseInv /\ OpenersInv
  <2>1. ASSUME Init
        PROVE  OpenersInv
    <3>1. Live = {} /\ DOMAIN stack = {}
      BY <2>1 DEF Init, Live
    <3> QED BY <3>1 DEF OpenersInv, Sole
  <2> QED BY <2>1, DatabaseInit
<1>2. DatabaseInv /\ OpenersInv /\ [Next]_vars => (DatabaseInv /\ OpenersInv)'
  BY DatabaseStep, OpenersStep
<1>3. OpenersInv => OneManager
  <2> SUFFICES ASSUME OpenersInv, NEW x \in Live
               PROVE  Cardinality(Managed(x) \cup Exclusive(x)) <= 1
    BY DEF OneManager
  <2> DEFINE C == Managed(x) \cup Exclusive(x)
  <2>1. \A o, u \in C : o = u
    BY ClaimFacts DEF OpenersInv, Sole
  <2> HIDE DEF C
  <2>2. CASE C = {}
    BY <2>2, FS_EmptySet DEF C
  <2>3. CASE C # {}
    <3>1. PICK o : C = {o}
      BY <2>1, <2>3
    <3>2. Cardinality(C) = 1
      BY <3>1, FS_Singleton
    <3> QED BY <3>2 DEF C
  <2> QED BY <2>2, <2>3
<1> QED BY <1>1, <1>2, <1>3, PTL DEF Spec
=============================================================================
