---------------------------- MODULE MemoryProofs ----------------------------
(***************************************************************************)
(* Proofs about the two memories under test.                               *)
(*                                                                         *)
(* MemoryKernel, for any items, dates and calls: an item found replaced    *)
(* has a heir in sight, and what a call may not see changes nothing in it. *)
(*                                                                         *)
(* RetentionGate, for any records, weights, ratio and length of the        *)
(* stream: the store fits its share to within one record, what leaves is   *)
(* the least of what is kept, and the inner store holds what the gate      *)
(* keeps.                                                                  *)
(***************************************************************************)
EXTENDS RetentionGate, MemoryKernel, FiniteSetTheorems, TLAPS

-----------------------------------------------------------------------------
(* The memory kernel                                                        *)

(* Of a non-empty set of naturals one is the least, and Min chooses it.     *)
LEMMA MinNat ==
  ASSUME NEW T, T \subseteq Nat, T # {}
  PROVE  Min(T) \in T /\ \A y \in T : Min(T) <= y
<1> DEFINE R == {ss \in Nat \X Nat : ss[1] < ss[2]}
<1>1. IsWellFoundedOn(R, Nat)
  BY NatLessThanWellFounded DEF OpToRel
<1>2. PICK x \in T : \A y \in T : <<y, x>> \notin R
  BY <1>1, WFMin, Zenon
<1>3. ASSUME NEW y \in T PROVE x <= y
  <2>1. x \in Nat /\ y \in Nat
    OBVIOUS
  <2>2. <<y, x>> \in Nat \X Nat /\ <<y, x>>[1] = y /\ <<y, x>>[2] = x
    BY <2>1
  <2>3. ~(y < x)
    BY <1>2, <2>2
  <2> QED
    BY <2>1, <2>3
<1>4. \E z \in T : \A y \in T : z <= y
  BY <1>3
<1> QED
  BY <1>4, Zenon DEF Min

-----------------------------------------------------------------------------
(* No id twice, and every item dated.                                       *)
Once(S) == \A x, y \in S : x.id = y.id => x = y
Dated(S) == \A x \in S : x.key \in Nat /\ x.key # NoDate

(* What may be listed.                                                      *)
Reasons == {"invalid", "future", "duplicate"}
Lists == [items : Seq(Inputs), rejected : [Reasons -> Nat]]
Sound(list) == list \in Lists /\ Once(Range(list.items)) /\ Dated(Range(list.items))

(* The elements of a sequence are finitely many inputs.                     *)
LEMMA RangeFinite ==
  ASSUME NEW s \in Seq(Inputs)
  PROVE  IsFiniteSet(Range(s)) /\ Range(s) \subseteq Inputs
<1>1. Len(s) \in Nat /\ DOMAIN s = 1 .. Len(s) /\ s \in [1 .. Len(s) -> Inputs]
  OBVIOUS
<1>2. s \in Surjection(1 .. Len(s), Range(s))
  BY <1>1 DEF Surjection, Range
<1>3. IsFiniteSet(1 .. Len(s))
  BY <1>1, FS_Interval
<1>4. Range(s) \subseteq Inputs
  BY <1>1 DEF Range
<1> QED
  BY <1>2, <1>3, <1>4, FS_Surjection

(* Appending adds the one element.                                          *)
LEMMA RangeAppend ==
  ASSUME NEW s \in Seq(Inputs), NEW it \in Inputs
  PROVE  Append(s, it) \in Seq(Inputs) /\ Range(Append(s, it)) = Range(s) \cup {it}
<1> DEFINE t == Append(s, it)
<1>1. /\ t \in Seq(Inputs) /\ Len(s) \in Nat /\ DOMAIN s = 1 .. Len(s) /\ DOMAIN t = 1 .. (Len(s) + 1)
      /\ t[Len(s) + 1] = it /\ \A i \in 1 .. Len(s) : t[i] = s[i]
  OBVIOUS
<1> HIDE DEF t
<1>2. ASSUME NEW x \in Range(t) PROVE x \in Range(s) \cup {it}
  <2>1. PICK i \in 1 .. (Len(s) + 1) : x = t[i]
    BY <1>1 DEF Range
  <2>2. i \in 1 .. Len(s) \/ i = Len(s) + 1
    BY <1>1
  <2> QED
    BY <1>1, <2>1, <2>2 DEF Range
<1>3. ASSUME NEW x \in Range(s) PROVE x \in Range(t)
  <2>1. PICK i \in 1 .. Len(s) : x = s[i]
    BY <1>1 DEF Range
  <2>2. i \in 1 .. (Len(s) + 1)
    BY <1>1
  <2> QED
    BY <1>1, <2>1, <2>2 DEF Range
<1>4. it \in Range(t)
  <2>1. Len(s) + 1 \in 1 .. (Len(s) + 1)
    BY <1>1
  <2> QED
    BY <1>1, <2>1 DEF Range
<1> QED
  BY <1>1, <1>2, <1>3, <1>4 DEF t

(* Accepting keeps a list sound, and adds the item when it is kept.         *)
LEMMA AcceptKeeps ==
  ASSUME NEW list, Sound(list), NEW it \in Inputs
  PROVE  /\ Sound(Accept(list, it))
         /\ Verdict(list.items, it) = "kept" => Range(Accept(list, it).items) = Range(list.items) \cup {it}
         /\ Verdict(list.items, it) # "kept" => Range(Accept(list, it).items) = Range(list.items)
<1> DEFINE v == Verdict(list.items, it)
           new == Accept(list, it)
<1>1. /\ list \in Lists /\ list.items \in Seq(Inputs) /\ list.rejected \in [Reasons -> Nat]
      /\ Once(Range(list.items)) /\ Dated(Range(list.items))
  BY DEF Sound, Lists
<1>2. v \in Reasons \cup {"kept"}
  BY DEF Verdict, Reasons
<1>3. CASE v = "kept"
  <2>1. new = [list EXCEPT !.items = Append(list.items, it)]
    BY <1>3 DEF Accept
  <2>2. Append(list.items, it) \in Seq(Inputs) /\ Range(Append(list.items, it)) = Range(list.items) \cup {it}
    BY <1>1, RangeAppend
  <2>3. new \in Lists /\ new.items = Append(list.items, it)
    BY <1>1, <2>1, <2>2 DEF Lists
  <2>4. it.key \in Nat /\ it.key # NoDate /\ ~\E i \in DOMAIN list.items : list.items[i].id = it.id
    BY <1>3, KernelAssumption DEF Verdict
  <2>5. \A x \in Range(list.items) : x.id # it.id
    BY <2>4 DEF Range
  <2>6. Once(Range(new.items)) /\ Dated(Range(new.items))
    BY <1>1, <2>2, <2>3, <2>4, <2>5 DEF Once, Dated
  <2> QED
    BY <1>3, <2>2, <2>3, <2>6 DEF Sound
<1>4. CASE v # "kept"
  <2>1. new = [list EXCEPT !.rejected[v] = list.rejected[v] + 1]
    BY <1>4 DEF Accept
  <2>2. v \in Reasons
    BY <1>2, <1>4
  <2>3. list.rejected[v] \in Nat
    BY <1>1, <2>2
  <2> HIDE DEF v, new
  <2>4. new.items = list.items /\ new.rejected = [list.rejected EXCEPT ![v] = list.rejected[v] + 1]
        /\ new \in [items : {new.items}, rejected : {new.rejected}]
    BY <1>1, <2>1 DEF Lists
  <2>5. new.rejected \in [Reasons -> Nat]
    BY <1>1, <2>2, <2>3, <2>4
  <2>6. new \in Lists
    BY <1>1, <2>4, <2>5 DEF Lists
  <2> QED
    BY <1>1, <1>4, <2>4, <2>6 DEF Sound, v, new
<1> QED
  BY <1>3, <1>4
-----------------------------------------------------------------------------
(* The links of a set without double ids: each item has one target.         *)
LEMMA LinkIs ==
  ASSUME NEW S, NEW link \in Replaces(S)
  PROVE  /\ link = <<link[1], link[2]>> /\ link[1] \in S /\ link[2] \in S
         /\ link[1].supersedes = link[2].id
  BY DEF Replaces

LEMMA IsLink ==
  ASSUME NEW S, NEW x \in S, NEW y \in S
  PROVE  <<x, y>> \in Replaces(S) <=> x.supersedes = y.id
  BY DEF Replaces

LEMMA OneTarget ==
  ASSUME NEW S, Once(S), NEW x, NEW y, NEW z, <<x, y>> \in Replaces(S), <<x, z>> \in Replaces(S)
  PROVE  y = z
<1>1. x \in S /\ y \in S /\ x.supersedes = y.id
  BY DEF Replaces
<1>2. z \in S /\ x.supersedes = z.id
  BY DEF Replaces
<1> QED
  BY <1>1, <1>2 DEF Once

(* What is reached is reached from itself on, stays in every set that has   *)
(* the start and that no link leaves, and is such a set.                    *)
LEMMA ReachedIn ==
  ASSUME NEW S, NEW L, NEW it, NEW P \in SUBSET S, it \in P,
         \A link \in L : link[1] \in P => link[2] \in P
  PROVE  Reached(S, L, it) \subseteq P
  BY DEF Reached

LEMMA ReachedFrom ==
  ASSUME NEW S, NEW L \in SUBSET (S \X S), NEW it \in S
  PROVE  /\ Reached(S, L, it) \subseteq S /\ it \in Reached(S, L, it)
         /\ \A link \in L : link[1] \in Reached(S, L, it) => link[2] \in Reached(S, L, it)
<1>1. Reached(S, L, it) \subseteq S /\ it \in Reached(S, L, it)
  BY DEF Reached
<1>2. ASSUME NEW link \in L, link[1] \in Reached(S, L, it) PROVE link[2] \in Reached(S, L, it)
  <2>1. link[2] \in S
    OBVIOUS
  <2>2. ASSUME NEW P \in SUBSET S, it \in P, \A l \in L : l[1] \in P => l[2] \in P
        PROVE  link[2] \in P
    <3>1. Reached(S, L, it) \subseteq P
      BY <2>2, ReachedIn
    <3> QED
      BY <1>2, <2>2, <3>1
  <2> QED
    BY <2>1, <2>2 DEF Reached
<1> QED
  BY <1>1, <1>2

(* The links within an instant, of which ClosesCycle makes its way.         *)
Within(S, key) == {link \in Replaces(S) : link[1].key = key /\ link[2].key = key}

LEMMA CycleIs ==
  ASSUME NEW S, NEW x, NEW y
  PROVE  ClosesCycle(S, x, y) <=>
           \/ x \in Reached(S, Within(S, y.key), y)
           \/ \A z \in Reached(S, Within(S, y.key), y) : \E link \in Within(S, y.key) : link[1] = z
  BY DEF ClosesCycle, Within

LEMMA WithinPairs ==
  ASSUME NEW S, NEW key
  PROVE  Within(S, key) \in SUBSET (S \X S)
  BY DEF Within, Replaces

LEMMA WithinIs ==
  ASSUME NEW S, NEW key, NEW x, NEW y
  PROVE  <<x, y>> \in Within(S, key) <=> /\ x \in S /\ y \in S /\ x.supersedes = y.id
                                         /\ x.key = key /\ y.key = key
  BY DEF Within, Replaces

LEMMA LinksIs ==
  ASSUME NEW S, NEW x, NEW y
  PROVE  <<x, y>> \in Links(S) <=> /\ x \in S /\ y \in S /\ x.supersedes = y.id
                                   /\ x # y /\ x.key >= y.key
                                   /\ x.key = y.key => ~ClosesCycle(S, x, y)
  BY DEF Links, Replaces

(* superseded_by, read: an item is replaced by a date when a link that      *)
(* counts and is dated before it leads to the item.                         *)
LEMMA ReplacedIs ==
  ASSUME NEW S, Once(S), Dated(S), NEW ix, ix.superseded = SupersededBy(S), NEW it \in S, NEW now \in Nat
  PROVE  Replaced(ix, it, now) <=> \E y \in S : <<y, it>> \in Links(S) /\ y.key < now
<1> DEFINE Dates(id) == {link[1].key : link \in {l \in Links(S) : l[2].id = id}}
<1>1. ASSUME NEW link \in Links(S)
      PROVE  /\ link = <<link[1], link[2]>> /\ link[1] \in S /\ link[2] \in S /\ link[1].key \in Nat
             /\ link[2].id = it.id => link[2] = it
  BY DEF Links, Replaces, Once, Dated
<1>2. it.id \in DOMAIN ix.superseded <=> \E link \in Links(S) : link[2].id = it.id
  BY DEF SupersededBy
<1>3. ASSUME it.id \in DOMAIN ix.superseded
      PROVE  ix.superseded[it.id] = Min(Dates(it.id))
  BY <1>3 DEF SupersededBy, FirstDate
<1>4. Dates(it.id) \subseteq Nat
  BY <1>1
<1>5. \A n : n \in Dates(it.id) <=> \E link \in Links(S) : link[2].id = it.id /\ n = link[1].key
  OBVIOUS
<1> HIDE DEF Dates
<1>6. ASSUME Replaced(ix, it, now) PROVE \E y \in S : <<y, it>> \in Links(S) /\ y.key < now
  <2>1. it.id \in DOMAIN ix.superseded /\ ix.superseded[it.id] < now
    BY <1>6 DEF Replaced
  <2>2. Dates(it.id) # {}
    BY <1>2, <1>5, <2>1
  <2>3. Min(Dates(it.id)) \in Dates(it.id)
    BY <1>4, <2>2, MinNat
  <2>4. PICK link \in Links(S) : link[2].id = it.id /\ Min(Dates(it.id)) = link[1].key
    BY <1>5, <2>3
  <2>5. link[1] \in S /\ link = <<link[1], it>>
    BY <1>1, <2>4
  <2>6. link[1].key < now
    BY <1>3, <2>1, <2>4
  <2> QED
    BY <2>5, <2>6
<1>7. ASSUME NEW y \in S, <<y, it>> \in Links(S), y.key < now PROVE Replaced(ix, it, now)
  <2>1. <<y, it>>[1] = y /\ <<y, it>>[2] = it
    OBVIOUS
  <2>2. it.id \in DOMAIN ix.superseded /\ y.key \in Dates(it.id)
    BY <1>2, <1>5, <1>7, <2>1
  <2>3. Min(Dates(it.id)) <= y.key /\ Min(Dates(it.id)) \in Nat
    BY <1>4, <2>2, MinNat
  <2>4. ix.superseded[it.id] < now
    <3>1. y.key \in Nat
      BY <1>4, <2>2
    <3>2. ix.superseded[it.id] = Min(Dates(it.id))
      BY <1>3, <2>2
    <3> DEFINE m == Min(Dates(it.id))
    <3> HIDE DEF m
    <3>3. m \in Nat /\ m <= y.key /\ ix.superseded[it.id] = m
      BY <2>3, <3>2 DEF m
    <3> QED
      BY <1>7, <3>1, <3>3
  <2> QED
    BY <2>2, <2>4 DEF Replaced
<1> QED
  BY <1>6, <1>7
-----------------------------------------------------------------------------
(* Some member of a set of naturals below a bound has the largest key.      *)
LEMMA LatestBelow ==
  ASSUME NEW R, NEW now \in Nat, R # {}, \A x \in R : x.key \in Nat /\ x.key < now
  PROVE  \E x \in R : \A y \in R : y.key <= x.key
<1> DEFINE Left == {now - x.key : x \in R}
<1>1. Left \subseteq Nat /\ Left # {}
  OBVIOUS
<1>2. Min(Left) \in Left /\ \A n \in Left : Min(Left) <= n
  BY <1>1, MinNat
<1>3. PICK x \in R : Min(Left) = now - x.key
  BY <1>2
<1>4. ASSUME NEW y \in R PROVE y.key <= x.key
  <2>1. now - x.key <= now - y.key
    BY <1>2, <1>3
  <2> QED
    BY <2>1
<1> QED
  BY <1>4

(* If every member of a finite set is linked to by a member, and a member   *)
(* links to one item only, then every member links to a member.             *)
LEMMA LinkedBack ==
  ASSUME NEW M, IsFiniteSet(M), NEW L,
         \A x \in M : \E y \in M : <<y, x>> \in L,
         \A x, y, z \in M : <<x, y>> \in L /\ <<x, z>> \in L => y = z
  PROVE  \A y \in M : \E x \in M : <<y, x>> \in L
<1> DEFINE From(x) == CHOOSE y \in M : <<y, x>> \in L
           f == [x \in M |-> From(x)]
<1>1. \A x \in M : From(x) \in M /\ <<From(x), x>> \in L
  OBVIOUS
<1> HIDE DEF From
<1>2. f \in [M -> M] /\ \A x \in M : f[x] \in M /\ <<f[x], x>> \in L
  BY <1>1
<1> HIDE DEF f
<1>3. \A x, z \in M : f[x] = f[z] => x = z
  BY <1>2
<1>4. f \in Injection(M, M)
  BY <1>2, <1>3 DEF Injection, IsInjective
<1>5. f \in Surjection(M, M)
  BY <1>4, FS_Injection
<1>6. \A y \in M : \E x \in M : f[x] = y
  BY <1>5 DEF Surjection
<1> QED
  BY <1>2, <1>6

(* If nothing that replaces an item, directly or not, by links that count   *)
(* and are dated before a call stood unreplaced, the latest of them would   *)
(* link to one another in a ring, whose links do not count.                 *)
LEMMA HeirStands ==
  ASSUME NEW S, Once(S), Dated(S), IsFiniteSet(S), NEW ix, ix.superseded = SupersededBy(S),
         NEW now \in Nat, NEW it \in S, Replaced(ix, it, now)
  PROVE  \E heir \in Reached(S, Heirs(S, now), it) :
           heir # it /\ heir.key < now /\ ~Replaced(ix, heir, now)
<1> DEFINE back == Heirs(S, now)
           H == Reached(S, back, it)
           R == {x \in H : x.key < now}
<1> SUFFICES ASSUME \A x \in R : x # it => Replaced(ix, x, now) PROVE FALSE
  OBVIOUS
<1>1. back \in SUBSET (S \X S)
  BY DEF Heirs, Links, Replaces
<1>2. \A x, y : <<x, y>> \in Links(S) /\ x.key < now => <<y, x>> \in back
  <2> SUFFICES ASSUME NEW x, NEW y, <<x, y>> \in Links(S), x.key < now PROVE <<y, x>> \in back
    OBVIOUS
  <2>1. <<x, y>>[1] = x /\ <<x, y>>[2] = y
    OBVIOUS
  <2> QED
    BY <2>1 DEF Heirs
<1>a. it.key < now
  <2>1. PICK y \in S : <<y, it>> \in Links(S) /\ y.key < now
    BY ReplacedIs
  <2>2. y.key >= it.key /\ y.key \in Nat /\ it.key \in Nat
    BY <2>1, LinksIs DEF Dated
  <2> QED
    BY <2>1, <2>2
<1> HIDE DEF back
<1>3. H \subseteq S /\ it \in H /\ \A link \in back : link[1] \in H => link[2] \in H
  BY <1>1, ReachedFrom
<1> HIDE DEF H
<1>4. /\ R \subseteq S /\ it \in R /\ IsFiniteSet(R)
      /\ \A x \in R : x.key \in Nat /\ x.key < now
      /\ \A x \in R : Replaced(ix, x, now)
  BY <1>a, <1>3, FS_Subset DEF Dated
<1>5. ASSUME NEW x \in R
      PROVE  \E y \in R : <<y, x>> \in Links(S) /\ y.key >= x.key
  <2>1. PICK y \in S : <<y, x>> \in Links(S) /\ y.key < now
    BY <1>4, ReplacedIs
  <2>2. y.key >= x.key
    BY <2>1, LinksIs
  <2>3. <<x, y>> \in back /\ <<x, y>>[1] = x /\ <<x, y>>[2] = y
    BY <1>2, <2>1
  <2>4. y \in H
    BY <1>3, <2>3
  <2> QED
    BY <2>1, <2>2, <2>4
<1>6. PICK top \in R : \A y \in R : y.key <= top.key
  BY <1>4, LatestBelow
<1> DEFINE M == {x \in R : x.key = top.key}
<1>7. /\ M \subseteq S /\ IsFiniteSet(M) /\ top \in M /\ \A x \in M : x.key = top.key
  BY <1>4, FS_Subset
<1>8. ASSUME NEW x \in M PROVE \E y \in M : <<y, x>> \in Links(S)
  <2>1. PICK y \in R : <<y, x>> \in Links(S) /\ y.key >= x.key
    BY <1>5
  <2>2. y.key \in Nat /\ top.key \in Nat /\ y.key <= top.key /\ x.key = top.key
    BY <1>4, <1>6
  <2>3. y.key = top.key
    BY <2>1, <2>2
  <2> QED
    BY <2>1, <2>3
<1> HIDE DEF M, R
<1>9. ASSUME NEW x, NEW y, NEW z, <<x, y>> \in Links(S), <<x, z>> \in Links(S) PROVE y = z
  BY <1>9, OneTarget DEF Links
<1>10. \A y \in M : \E x \in M : <<y, x>> \in Links(S)
  <2> DEFINE L == Links(S)
  <2>1. \A x, y, z \in M : <<x, y>> \in L /\ <<x, z>> \in L => y = z
    BY <1>9
  <2>2. \A x \in M : \E y \in M : <<y, x>> \in L
    BY <1>8
  <2> HIDE DEF L
  <2>3. \A y \in M : \E x \in M : <<y, x>> \in L
    BY <1>7, <2>1, <2>2, LinkedBack
  <2> QED
    BY <2>3 DEF L
<1>11. PICK y \in M : <<y, top>> \in Links(S)
  BY <1>7, <1>8
<1> DEFINE ring == Reached(S, Within(S, top.key), top)
<1>12. \A x \in M : \E z \in M : <<x, z>> \in Within(S, top.key)
  <2> SUFFICES ASSUME NEW x \in M PROVE \E z \in M : <<x, z>> \in Within(S, top.key)
    OBVIOUS
  <2>1. PICK z \in M : <<x, z>> \in Links(S)
    BY <1>10
  <2>2. x \in S /\ z \in S /\ x.supersedes = z.id /\ x.key = top.key /\ z.key = top.key
    BY <1>7, <2>1, LinksIs
  <2> QED
    BY <2>2, WithinIs
<1>13. \A link \in Within(S, top.key) : link[1] \in M => link[2] \in M
  <2> SUFFICES ASSUME NEW link \in Within(S, top.key), link[1] \in M PROVE link[2] \in M
    OBVIOUS
  <2>1. link = <<link[1], link[2]>> /\ link \in Replaces(S)
    BY DEF Within, Replaces
  <2>2. PICK z \in M : <<link[1], z>> \in Within(S, top.key)
    BY <1>12
  <2>3. <<link[1], z>> \in Replaces(S) /\ <<link[1], link[2]>> \in Replaces(S)
    BY <2>1, <2>2 DEF Within
  <2>4. z = link[2]
    BY <2>3, OneTarget
  <2> QED
    BY <2>4
<1>14. ring \subseteq M
  BY <1>7, <1>13, ReachedIn
<1>15. \A z \in ring : \E link \in Within(S, top.key) : link[1] = z
  <2> SUFFICES ASSUME NEW z \in ring PROVE \E link \in Within(S, top.key) : link[1] = z
    OBVIOUS
  <2>1. PICK x \in M : <<z, x>> \in Within(S, top.key)
    BY <1>12, <1>14
  <2>2. <<z, x>>[1] = z
    OBVIOUS
  <2> QED
    BY <2>1, <2>2
<1>16. ClosesCycle(S, y, top)
  BY <1>15, CycleIs
<1>17. ~ClosesCycle(S, y, top)
  <2>1. y.key = top.key
    BY <1>7, <1>11
  <2> QED
    BY <1>11, <2>1, LinksIs
<1> QED
  BY <1>16, <1>17
-----------------------------------------------------------------------------
(* Within an instant, the way from an item a call knows of is the same with *)
(* and without what the call does not know of, which has no link there:     *)
(* B is the part of S that holds every item of the instant with a link.     *)
LEMMA CycleSame ==
  ASSUME NEW S, Once(S), NEW B \in SUBSET S, NEW x \in B, NEW y \in B,
         \A link \in Within(S, y.key) : link[1] \in B
  PROVE  ClosesCycle(S, x, y) <=> ClosesCycle(B, x, y)
<1> DEFINE LS == Within(S, y.key)
           LB == Within(B, y.key)
           metS == Reached(S, LS, y)
           metB == Reached(B, LB, y)
<1>1. /\ \A link \in LB : link \in LS /\ link[1] \in B /\ link[2] \in B
      /\ \A link \in LS : link[1] \in B
      /\ \A link \in LS : link[2] \in B => link \in LB
      /\ \A link \in LS : link[2] \in S
  BY DEF Within, Replaces
<1>2. \A l, m \in LS : l[1] = m[1] => l[2] = m[2]
  <2> SUFFICES ASSUME NEW l \in LS, NEW m \in LS, l[1] = m[1] PROVE l[2] = m[2]
    OBVIOUS
  <2>1. <<l[1], l[2]>> \in Replaces(S) /\ <<l[1], m[2]>> \in Replaces(S)
    BY DEF Within, Replaces
  <2> QED
    BY <2>1, OneTarget
<1>3. /\ metS \subseteq S /\ y \in metS /\ \A link \in LS : link[1] \in metS => link[2] \in metS
      /\ metB \subseteq B /\ y \in metB /\ \A link \in LB : link[1] \in metB => link[2] \in metB
  BY WithinPairs, ReachedFrom
<1>4. metB \subseteq metS
  <2> DEFINE P == metS \cap B
  <2>1. P \in SUBSET B /\ y \in P
    BY <1>3
  <2>2. \A link \in LB : link[1] \in P => link[2] \in P
    BY <1>1, <1>3
  <2> HIDE DEF P, LB
  <2>3. Reached(B, LB, y) \subseteq P
    BY <2>1, <2>2, ReachedIn
  <2> QED
    BY <2>3 DEF P
<1>5. metS \subseteq metB \cup (S \ B)
  <2> DEFINE P == metB \cup (S \ B)
  <2>1. P \in SUBSET S /\ y \in P
    BY <1>3
  <2>2. ASSUME NEW link \in LS, link[1] \in P PROVE link[2] \in P
    BY <1>1, <1>3, <2>2
  <2> HIDE DEF P, LS
  <2>3. Reached(S, LS, y) \subseteq P
    BY <2>1, <2>2, ReachedIn
  <2> QED
    BY <2>3 DEF P
<1> HIDE DEF metS, metB, LS, LB
<1>6. x \in metS <=> x \in metB
  BY <1>4, <1>5
<1>7. ASSUME \A z \in metS : \E link \in LS : link[1] = z
      PROVE  \A z \in metB : \E link \in LB : link[1] = z
  <2>1. metS \subseteq B
    BY <1>1, <1>7
  <2> SUFFICES ASSUME NEW z \in metB PROVE \E link \in LB : link[1] = z
    OBVIOUS
  <2>2. PICK link \in LS : link[1] = z
    BY <1>4, <1>7
  <2>3. link[2] \in B
    BY <1>3, <1>4, <2>1, <2>2
  <2> QED
    BY <1>1, <2>2, <2>3
<1>8. ASSUME \A z \in metB : \E link \in LB : link[1] = z
      PROVE  \A z \in metS : \E link \in LS : link[1] = z
  <2>1. ASSUME NEW link \in LS, link[1] \in metB PROVE link[2] \in metB
    <3>1. PICK m \in LB : m[1] = link[1]
      BY <1>8, <2>1
    <3>2. m[2] \in metB /\ m \in LS
      BY <1>1, <1>3, <2>1, <3>1
    <3> QED
      BY <1>2, <3>1, <3>2
  <2>2. metB \in SUBSET S /\ y \in metB
    BY <1>3
  <2>3. metS \subseteq metB
    BY <2>1, <2>2, ReachedIn DEF metS
  <2> QED
    BY <1>1, <1>8, <2>3
<1> QED
  BY <1>6, <1>7, <1>8, CycleIs DEF metS, metB, LS, LB

(* The items of S that a call knows of.                                     *)
KnownOf(call, S) == {it \in S : KnownTo(call, it)}

(* What has a link dated before the call is known to it.                    *)
LEMMA ReplacerKnown ==
  ASSUME NEW S, Dated(S), S \subseteq Inputs, NEW call \in Calling,
         NEW x \in S, NEW y \in S, x.supersedes = y.id, x.key < call[1]
  PROVE  x \in KnownOf(call, S)
<1>1. x.key # NoDate /\ x.supersedes # None
  BY KernelAssumption DEF Dated
<1> QED
  BY <1>1 DEF KnownOf, KnownTo

LEMMA LinkSame ==
  ASSUME NEW S, Once(S), Dated(S), S \subseteq Inputs, NEW call \in Calling,
         NEW x \in KnownOf(call, S), NEW y \in KnownOf(call, S)
  PROVE  <<x, y>> \in Links(S) <=> <<x, y>> \in Links(KnownOf(call, S))
<1> DEFINE B == KnownOf(call, S)
<1>1. B \subseteq S /\ y.key < call[1]
  BY DEF KnownOf, KnownTo
<1>2. \A link \in Within(S, y.key) : link[1] \in B
  <2> SUFFICES ASSUME NEW link \in Within(S, y.key) PROVE link[1] \in B
    OBVIOUS
  <2>1. link[1] \in S /\ link[2] \in S /\ link[1].supersedes = link[2].id /\ link[1].key = y.key
    BY DEF Within, Replaces
  <2>2. link[1].key < call[1]
    BY <1>1, <2>1
  <2> QED
    BY <2>1, <2>2, ReplacerKnown
<1> HIDE DEF B
<1>3. x \in B /\ y \in B
  BY DEF B
<1>4. ClosesCycle(S, x, y) <=> ClosesCycle(B, x, y)
  BY <1>1, <1>2, <1>3, CycleSame
<1>5. <<x, y>> \in Links(S) <=> <<x, y>> \in Links(B)
  BY <1>1, <1>3, <1>4, LinksIs
<1> QED
  BY <1>5 DEF B

(* So a call finds the same items replaced.                                 *)
LEMMA ReplacedSame ==
  ASSUME NEW S, Once(S), Dated(S), S \subseteq Inputs, NEW call \in Calling, NEW B, B = KnownOf(call, S),
         NEW ix, ix.superseded = SupersededBy(S), NEW bx, bx.superseded = SupersededBy(B), NEW it \in B
  PROVE  Replaced(ix, it, call[1]) <=> Replaced(bx, it, call[1])
<1>1. B \subseteq S /\ Once(B) /\ Dated(B) /\ call[1] \in Nat
  BY KernelAssumption DEF KnownOf, Once, Dated, Calling
<1>2. Replaced(ix, it, call[1]) <=> \E y \in S : <<y, it>> \in Links(S) /\ y.key < call[1]
  BY <1>1, ReplacedIs
<1>3. Replaced(bx, it, call[1]) <=> \E y \in B : <<y, it>> \in Links(B) /\ y.key < call[1]
  BY <1>1, ReplacedIs
<1>4. ASSUME NEW y \in S, <<y, it>> \in Links(S), y.key < call[1]
      PROVE  y \in B
  <2>1. it \in S /\ y.supersedes = it.id
    BY <1>1, <1>4, LinksIs
  <2> QED
    BY <1>4, <2>1, ReplacerKnown
<1>5. ASSUME NEW y \in B PROVE <<y, it>> \in Links(S) <=> <<y, it>> \in Links(B)
  BY LinkSame
<1> QED
  BY <1>1, <1>2, <1>3, <1>4, <1>5

-----------------------------------------------------------------------------
(* The frequencies of a call are those of what it shows.                    *)
LEMMA CountShown ==
  ASSUME NEW S, IsFiniteSet(S), NEW G \in SUBSET S, NEW t
  PROVE  CountWith(t, S) - CountWith(t, G) = CountWith(t, S \ G)
<1> DEFINE a == {it \in S : t \in it.stems}
           b == {it \in G : t \in it.stems}
           c == {it \in S \ G : t \in it.stems}
<1>1. a = b \cup c /\ b \cap c = {} /\ b \subseteq S /\ c \subseteq S
  OBVIOUS
<1> HIDE DEF a, b, c
<1>2. IsFiniteSet(b) /\ IsFiniteSet(c)
  BY <1>1, FS_Subset
<1>3. Cardinality(b) \in Nat /\ Cardinality(c) \in Nat /\ Cardinality({}) = 0
  BY <1>2, FS_CardinalityType, FS_EmptySet
<1>4. Cardinality(b \cup c) = Cardinality(b) + Cardinality(c) - Cardinality(b \cap c)
  BY <1>2, FS_Union
<1>5. Cardinality(a) - Cardinality(b) = Cardinality(c)
  <2>1. Cardinality(a) = Cardinality(b) + Cardinality(c) - 0
    BY <1>1, <1>3, <1>4, Zenon
  <2>2. \A m, n \in Nat : (m + n - 0) - m = n
    OBVIOUS
  <2> QED
    BY <1>3, <2>1, <2>2
<1> QED
  BY <1>5 DEF CountWith, a, b, c

(* A call, as a function of what it shows.                                  *)
ShownFrequency(V) == [t \in Stems |-> CountWith(t, V)]
ShownRare(V) == {t \in Stems : ~Lowered(V, t) /\ ShownFrequency(V)[t] \in 1 .. RareDf}
ShownCall(V) ==
  [shown |-> V, frequency |-> ShownFrequency(V), hits |-> {it \in V : it.names \cap ShownRare(V) # {}}]

LEMMA CallIs ==
  ASSUME NEW list, Sound(list), NEW now, NEW persona, NEW V,
         V = {it \in Range(list.items) : ~Hidden(IndexOf(list), it, now, persona)}
  PROVE  Call(IndexOf(list), now, persona) = ShownCall(V)
<1> DEFINE ix == IndexOf(list)
           S == Range(list.items)
           G == {it \in ix.items : Hidden(ix, it, now, persona)}
<1>1. ix.items = S /\ ix.df = [t \in Stems |-> CountWith(t, S)]
  BY DEF IndexOf
<1>2. IsFiniteSet(S) /\ G \in SUBSET S /\ ix.items \ G = V
  BY <1>1, RangeFinite DEF Sound, Lists
<1> HIDE DEF ix, S, G
<1>3. Frequencies(ix, G) = ShownFrequency(V)
  <2>1. \A t \in Stems : ix.df[t] - CountWith(t, G) = CountWith(t, V)
    BY <1>1, <1>2, CountShown
  <2> QED
    BY <2>1 DEF Frequencies, ShownFrequency
<1>4. Call(ix, now, persona) =
        LET rare == {t \in Stems : ~Lowered(V, t) /\ ShownFrequency(V)[t] \in 1 .. RareDf}
        IN  [shown |-> V, frequency |-> ShownFrequency(V), hits |-> {it \in V : it.names \cap rare # {}}]
  BY <1>2, <1>3 DEF Call, G
<1> QED
  BY <1>4 DEF ShownCall, ShownRare, ix
-----------------------------------------------------------------------------
(* With and without what it does not know of, a call is the same.           *)
LEMMA CallSame ==
  ASSUME NEW whole, Sound(whole), NEW part, Sound(part), NEW call \in Calling,
         Range(part.items) = KnownOf(call, Range(whole.items))
  PROVE  Call(IndexOf(whole), call[1], call[2]) = Call(IndexOf(part), call[1], call[2])
<1> DEFINE S == Range(whole.items)
           B == Range(part.items)
           ix == IndexOf(whole)
           bx == IndexOf(part)
           V == {it \in S : ~Hidden(ix, it, call[1], call[2])}
           W == {it \in B : ~Hidden(bx, it, call[1], call[2])}
<1>1. Once(S) /\ Dated(S) /\ S \subseteq Inputs /\ B = KnownOf(call, S) /\ B \subseteq S
  BY RangeFinite DEF Sound, Lists, KnownOf
<1>2. ix.superseded = SupersededBy(S) /\ bx.superseded = SupersededBy(B)
  BY DEF IndexOf
<1>3. /\ Call(ix, call[1], call[2]) = ShownCall(V)
      /\ Call(bx, call[1], call[2]) = ShownCall(W)
  BY CallIs
<1> HIDE DEF S, B, ix, bx
<1>4. ASSUME NEW it \in B
      PROVE  Hidden(ix, it, call[1], call[2]) <=> Hidden(bx, it, call[1], call[2])
  <2>1. Replaced(ix, it, call[1]) <=> Replaced(bx, it, call[1])
    BY <1>1, <1>2, ReplacedSame
  <2> QED
    BY <2>1 DEF Hidden
<1>5. ASSUME NEW it \in S, it \notin B
      PROVE  Hidden(ix, it, call[1], call[2])
  <2>1. it.key \in Nat /\ it.key # NoDate /\ ~KnownTo(call, it) /\ call[1] \in Nat
    BY <1>1, <1>5, KernelAssumption DEF Dated, KnownOf, Calling
  <2>2. it.key >= call[1] \/ (it.origin = "fiction" /\ ~call[2])
    BY <2>1 DEF KnownTo
  <2> QED
    BY <2>2 DEF Hidden
<1>6. V = W
  BY <1>1, <1>4, <1>5
<1> HIDE DEF V, W
<1> QED
  BY <1>3, <1>6 DEF ix, bx

-----------------------------------------------------------------------------
(* The lists are sound; while no id is passed twice, the list of a call is  *)
(* what it knows of of the whole list; the index is made of the whole list. *)
KernelInv ==
  /\ feed \in Seq(Inputs) /\ phase \in {"listing", "ready"}
  /\ Sound(listed) /\ Range(listed.items) \subseteq Range(feed)
  /\ bare \in [Calling -> Lists]
  /\ \A call \in Calling : Sound(bare[call]) /\ Range(bare[call].items) \subseteq Range(feed)
  /\ OnceEach => \A call \in Calling : Range(bare[call].items) = KnownOf(call, Range(listed.items))
  /\ phase = "ready" => index = IndexOf(listed)

LEMMA NothingSound == Sound(NothingListed) /\ Range(NothingListed.items) = {}
<1>1. NothingListed.items = <<>> /\ DOMAIN <<>> = {}
  BY DEF NothingListed
<1>2. Range(NothingListed.items) = {}
  BY <1>1 DEF Range
<1>3. NothingListed \in Lists
  <2>1. <<>> \in Seq(Inputs)
    OBVIOUS
  <2>2. [invalid |-> 0, future |-> 0, duplicate |-> 0] \in [Reasons -> Nat]
    BY DEF Reasons
  <2> QED
    BY <2>1, <2>2 DEF NothingListed, Lists
<1> QED
  BY <1>2, <1>3 DEF Sound, Once, Dated

(* The initial state satisfies the invariant.                               *)
LEMMA KernelInitInv == KernelInit => KernelInv
<1> SUFFICES ASSUME KernelInit PROVE KernelInv
  OBVIOUS
<1>1. /\ phase = "listing" /\ feed = <<>> /\ listed = NothingListed
      /\ bare = [call \in Calling |-> NothingListed]
  BY DEF KernelInit
<1>2. Sound(listed) /\ Range(listed.items) = {} /\ listed \in Lists
  BY <1>1, NothingSound DEF Sound
<1>3. \A call \in Calling : bare[call] = listed
  BY <1>1
<1>4. bare \in [Calling -> Lists]
  BY <1>1, <1>2
<1>5. \A call \in Calling : Range(bare[call].items) = KnownOf(call, Range(listed.items))
  BY <1>2, <1>3 DEF KnownOf
<1>6. feed \in Seq(Inputs) /\ phase \in {"listing", "ready"} /\ phase # "ready"
  BY <1>1
<1> QED
  BY <1>2, <1>3, <1>4, <1>5, <1>6 DEF KernelInv

(* An item whose id is new is not a duplicate in any list.                  *)
LEMMA NotTwice ==
  ASSUME feed \in Seq(Inputs), NEW it \in Inputs, feed' = Append(feed, it), OnceEach'
  PROVE  OnceEach /\ \A x \in Range(feed) : x.id # it.id
<1>1. /\ Len(feed) \in Nat /\ DOMAIN feed = 1 .. Len(feed) /\ DOMAIN feed' = 1 .. (Len(feed) + 1)
      /\ feed'[Len(feed) + 1] = it /\ \A i \in 1 .. Len(feed) : feed'[i] = feed[i]
  OBVIOUS
<1> DEFINE n == Len(feed)
<1> HIDE DEF n
<1>2. /\ n \in Nat /\ DOMAIN feed = 1 .. n /\ DOMAIN feed' = 1 .. (n + 1)
      /\ feed'[n + 1] = it /\ \A i \in 1 .. n : feed'[i] = feed[i]
  BY <1>1 DEF n
<1>3. \A i, j \in 1 .. (n + 1) : feed'[i].id = feed'[j].id => i = j
  BY <1>2 DEF OnceEach
<1>4. \A i \in 1 .. n : i \in 1 .. (n + 1) /\ i # n + 1 /\ n + 1 \in 1 .. (n + 1)
  BY <1>2
<1>5. OnceEach
  BY <1>2, <1>3, <1>4 DEF OnceEach
<1>6. \A i \in 1 .. n : feed[i].id # it.id
  BY <1>2, <1>3, <1>4
<1> QED
  BY <1>2, <1>5, <1>6 DEF Range

(* Listing an item keeps the invariant.                                     *)
LEMMA ListKeeps ==
  ASSUME KernelInv, NEW it \in Inputs, List(it)
  PROVE  KernelInv'
<1>1. /\ phase = "listing" /\ phase' = phase /\ feed' = Append(feed, it) /\ listed' = Accept(listed, it)
      /\ bare' = [call \in Calling |-> IF KnownTo(call, it) THEN Accept(bare[call], it) ELSE bare[call]]
  BY DEF List
<1>2. /\ feed \in Seq(Inputs) /\ Sound(listed) /\ Range(listed.items) \subseteq Range(feed)
      /\ bare \in [Calling -> Lists]
      /\ \A call \in Calling : Sound(bare[call]) /\ Range(bare[call].items) \subseteq Range(feed)
      /\ OnceEach => \A call \in Calling : Range(bare[call].items) = KnownOf(call, Range(listed.items))
  BY DEF KernelInv
<1>3. feed' \in Seq(Inputs) /\ Range(feed') = Range(feed) \cup {it}
  BY <1>1, <1>2, RangeAppend
<1>4. Sound(listed') /\ Range(listed'.items) \subseteq Range(feed')
  BY <1>1, <1>2, <1>3, AcceptKeeps
<1>5. ASSUME NEW call \in Calling
      PROVE  Sound(bare'[call]) /\ Range(bare'[call].items) \subseteq Range(feed')
  <2>1. CASE KnownTo(call, it)
    <3>1. bare'[call] = Accept(bare[call], it)
      BY <1>1, <2>1
    <3>2. Sound(bare[call]) /\ Range(bare[call].items) \subseteq Range(feed)
      BY <1>2
    <3>3. Sound(Accept(bare[call], it)) /\ Range(Accept(bare[call], it).items) \subseteq Range(bare[call].items) \cup {it}
      BY <3>2, AcceptKeeps
    <3> QED
      BY <1>3, <3>1, <3>2, <3>3
  <2>2. CASE ~KnownTo(call, it)
    <3>1. bare'[call] = bare[call]
      BY <1>1, <2>2
    <3> QED
      BY <1>2, <1>3, <3>1
  <2> QED
    BY <2>1, <2>2
<1>6. bare' \in [Calling -> Lists]
  <2>1. \A call \in Calling : bare'[call] \in Lists
    BY <1>5 DEF Sound
  <2> QED
    BY <1>1, <2>1
<1>7. ASSUME OnceEach', NEW call \in Calling
      PROVE  Range(bare'[call].items) = KnownOf(call, Range(listed'.items))
  <2>1. OnceEach /\ \A x \in Range(feed) : x.id # it.id
    BY <1>1, <1>2, <1>7, NotTwice
  <2>2. Range(bare[call].items) = KnownOf(call, Range(listed.items))
    BY <1>2, <2>1
  <2>3. /\ ~\E i \in DOMAIN listed.items : listed.items[i].id = it.id
        /\ ~\E i \in DOMAIN bare[call].items : bare[call].items[i].id = it.id
    BY <1>2, <2>1 DEF Range
  <2>4. Verdict(bare[call].items, it) = Verdict(listed.items, it)
    BY <2>3 DEF Verdict
  <2>5. Range(listed'.items) = Range(listed.items) \cup (IF Verdict(listed.items, it) = "kept" THEN {it} ELSE {})
    BY <1>1, <1>2, AcceptKeeps
  <2>6. CASE KnownTo(call, it)
    <3>1. bare'[call] = Accept(bare[call], it)
      BY <1>1, <2>6
    <3>2. Range(bare'[call].items) = Range(bare[call].items) \cup (IF Verdict(listed.items, it) = "kept" THEN {it} ELSE {})
      <4>1. Sound(bare[call])
        BY <1>2
      <4>2. Range(Accept(bare[call], it).items)
              = Range(bare[call].items) \cup (IF Verdict(bare[call].items, it) = "kept" THEN {it} ELSE {})
        BY <4>1, AcceptKeeps
      <4> QED
        BY <2>4, <3>1, <4>2
    <3> QED
      BY <2>2, <2>5, <2>6, <3>2 DEF KnownOf
  <2>7. CASE ~KnownTo(call, it)
    <3>1. bare'[call] = bare[call]
      BY <1>1, <2>7
    <3> QED
      BY <2>2, <2>5, <2>7, <3>1 DEF KnownOf
  <2> QED
    BY <2>6, <2>7
<1> QED
  BY <1>1, <1>3, <1>4, <1>5, <1>6, <1>7 DEF KernelInv

(* So does making the index, whether reading the items failed or not.       *)
LEMMA BuildKeeps ==
  ASSUME KernelInv, Build
  PROVE  KernelInv'
<1>1. phase' = "ready" /\ index' = IndexOf(listed) /\ feed' = feed /\ bare' = bare
  BY DEF Build
<1>2. Sound(listed) /\ listed \in Lists
  BY DEF KernelInv, Sound
<1>3. listed' \in Lists /\ listed'.items = listed.items
  <2>1. CASE listed' = listed
    BY <1>2, <2>1
  <2>2. CASE listed' = [listed EXCEPT !.rejected.invalid = listed.rejected.invalid + 1]
    <3>1. /\ listed' = [listed EXCEPT !.rejected = [listed.rejected EXCEPT !["invalid"] = listed.rejected.invalid + 1]]
          /\ listed.rejected.invalid \in Nat
      BY <1>2, <2>2 DEF Lists, Reasons
    <3>2. [listed.rejected EXCEPT !["invalid"] = listed.rejected.invalid + 1] \in [Reasons -> Nat]
      BY <1>2, <3>1 DEF Lists, Reasons
    <3> QED
      BY <1>2, <3>1, <3>2 DEF Lists
  <2> QED
    BY <2>1, <2>2 DEF Build
<1>4. Sound(listed') /\ Range(listed'.items) = Range(listed.items)
  BY <1>2, <1>3 DEF Sound
<1>5. index' = IndexOf(listed')
  BY <1>1, <1>3 DEF IndexOf
<1>6. OnceEach' <=> OnceEach
  BY <1>1 DEF OnceEach
<1> QED
  BY <1>1, <1>4, <1>5, <1>6 DEF KernelInv

LEMMA KernelNextInv == KernelInv /\ [KernelNext]_kernelVars => KernelInv'
<1> SUFFICES ASSUME KernelInv, [KernelNext]_kernelVars PROVE KernelInv'
  OBVIOUS
<1>1. ASSUME NEW it \in Inputs, List(it) PROVE KernelInv'
  BY <1>1, ListKeeps
<1>2. CASE Build
  BY <1>2, BuildKeeps
<1>3. CASE UNCHANGED kernelVars
  BY <1>3 DEF kernelVars, KernelInv, OnceEach
<1> QED
  BY <1>1, <1>2, <1>3 DEF KernelNext

(* The lists of every run are sound, and the index is that of the list.     *)
THEOREM Listing == KernelSpec => []KernelInv
<1> QED
  BY KernelInitInv, KernelNextInv, PTL DEF KernelSpec

(* ReplacedHasHeir: an item that a call finds replaced has, down the        *)
(* replacements that count and are dated before the call, one that is not   *)
(* replaced: the cycle rule of build_index.                                 *)
THEOREM HeirStaysVisible == KernelSpec => []ReplacedHasHeir
<1>1. KernelInv => ReplacedHasHeir
  <2> SUFFICES ASSUME KernelInv, phase = "ready", NEW now \in Nows, NEW it \in index.items,
                      Replaced(index, it, now)
               PROVE  \E heir \in Reached(index.items, Heirs(index.items, now), it) :
                        heir # it /\ heir.key < now /\ ~Replaced(index, heir, now)
    BY DEF ReplacedHasHeir
  <2> DEFINE S == index.items
  <2>1. S = Range(listed.items) /\ index.superseded = SupersededBy(S)
    BY DEF KernelInv, IndexOf
  <2>2. Once(S) /\ Dated(S) /\ IsFiniteSet(S) /\ now \in Nat
    BY <2>1, RangeFinite, KernelAssumption DEF KernelInv, Sound, Lists
  <2> HIDE DEF S
  <2>3. it \in S
    BY DEF S
  <2>4. \E heir \in Reached(S, Heirs(S, now), it) :
          heir # it /\ heir.key < now /\ ~Replaced(index, heir, now)
    BY <2>1, <2>2, <2>3, HeirStands
  <2> QED
    BY <2>4 DEF S
<1> QED
  BY <1>1, Listing, PTL

(* What a call may not see cannot change what it shows, nor the frequencies *)
(* and the name hits it ranks by: _survey over the whole index.             *)
THEOREM HiddenIsAbsent == KernelSpec => []HiddenChangesNothing
<1>1. KernelInv => HiddenChangesNothing
  <2> SUFFICES ASSUME KernelInv, phase = "ready", OnceEach, NEW call \in Calling
               PROVE  Call(index, call[1], call[2]) = Call(IndexOf(bare[call]), call[1], call[2])
    BY DEF HiddenChangesNothing
  <2>1. /\ index = IndexOf(listed) /\ Sound(listed) /\ Sound(bare[call])
        /\ Range(bare[call].items) = KnownOf(call, Range(listed.items))
    BY DEF KernelInv
  <2>2. Call(IndexOf(listed), call[1], call[2]) = Call(IndexOf(bare[call]), call[1], call[2])
    BY <2>1, CallSame
  <2> QED
    BY <2>1, <2>2
<1> QED
  BY <1>1, Listing, PTL

-----------------------------------------------------------------------------
(* The retention gate                                                       *)

(* Records are told apart by their order of arrival.                        *)
Arrivals ==
  /\ \A id \in Kept : kept[id].seq < seq
  /\ \A x \in heap : x.seq < seq
  /\ \A id, k \in Kept : kept[id].seq = kept[k].seq => id = k

(* Nothing is lost from the heap but what is stale.                         *)
HeapCovers == \A id \in Kept : ItemOf(id, kept[id]) \in heap

Order == Arrivals /\ HeapCovers

(* What was evicted last is not larger than the largest, so that the gap is *)
(* less than that.                                                          *)
Share ==
  /\ \A id \in Kept : kept[id].words <= largest
  /\ policy # "ALL" =>
       /\ pc # "evict" => Den * stored <= Num * seen
       /\ stored = seen \/ Num * seen < Den * (stored + largest)
       /\ Num = Den => stored = seen

(* Under GR the weights follow the order of arrival.                        *)
Recency ==
  policy = "GR" =>
    /\ \A id \in Kept : kept[id].tb = kept[id].seq /\ kept[id].weight <= last
    /\ \A id, k \in Kept : kept[id].seq < kept[k].seq => kept[id].weight <= kept[k].weight

IInv == TypeOK /\ Order /\ Share /\ Recency /\ NewestStay

USE GateAssumption, NoRecordAssumption

(* The initial state satisfies the inductive invariant.                     *)
LEMMA InitIInv == Init => IInv
<1> SUFFICES ASSUME Init PROVE IInv
  OBVIOUS
<1>1. Kept = {}
  BY DEF Init, Kept
<1>2. TypeOK
  <2>1. <<>> \in Seq(Line)
    OBVIOUS
  <2>2. kept \in [Ids -> Entry \cup {NoRecord}] /\ df \in [Tokens -> Nat]
    BY DEF Init
  <2>3. post \in [Tokens -> SUBSET Kept]
    BY <1>1 DEF Init
  <2>4. /\ pc = "idle" /\ policy \in Policies /\ heap = {} /\ batch = <<>> /\ fresh = {} /\ gone = {}
        /\ last = 0 /\ seen = 0 /\ stored = 0 /\ seq = 0 /\ largest = 0
    BY DEF Init
  <2>5. failed \in BOOLEAN /\ twice \in BOOLEAN
    BY Zenon DEF Init
  <2> QED
    BY <2>1, <2>2, <2>3, <2>4, <2>5 DEF TypeOK
<1> QED
  BY <1>1, <1>2 DEF Init, IInv, Order, Arrivals, HeapCovers, Share, Recency, NewestStay

-----------------------------------------------------------------------------
(* What the steps that change the kept records do to them                   *)

(* An admitted record is new and last in the order of arrival; what was kept*)
(* stays, and only its weight may grow, under GM alone.  The heap has the   *)
(* present item of each.                                                    *)
Admits(id, words, length, ts, tokens) ==
  /\ id \in Ids /\ id \notin Kept /\ Kept' = Kept \cup {id}
  /\ kept' \in [Ids -> Entry \cup {NoRecord}]
  /\ kept'[id].words = words /\ kept'[id].length = length
  /\ kept'[id].tokens = tokens /\ kept'[id].seq = seq
  /\ policy = "GR" => kept'[id].weight = ts /\ kept'[id].tb = seq
  /\ \A k \in Kept :
       /\ kept'[k].words = kept[k].words /\ kept'[k].length = kept[k].length
       /\ kept'[k].tokens = kept[k].tokens
       /\ kept'[k].seq = kept[k].seq /\ kept'[k].tb = kept[k].tb
       /\ kept'[k].weight = kept[k].weight \/ policy = "GM"
       /\ kept'[k] = kept[k] \/ ItemOf(k, kept'[k]) \in heap'
  /\ ItemOf(id, kept'[id]) \in heap'
  /\ heap \subseteq heap' /\ heap' \subseteq Item
  /\ \A x \in heap' \ heap : x.seq = seq \/ \E k \in Kept : x.seq = kept[k].seq

(* Admit has that effect.                                                   *)
LEMMA AdmitEffect ==
  ASSUME TypeOK, NEW id \in Ids, NEW words \in Sizes, NEW length \in Lengths, NEW ts \in Times,
         NEW tokens \in SUBSET Tokens, NEW w \in Weights, NEW draw \in Draws,
         Admit(id, words, length, ts, tokens, w, draw)
  PROVE  Admits(id, words, length, ts, tokens)
<1> DEFINE e == [words |-> words, length |-> length, tokens |-> tokens,
                 weight |-> WeightOf(w, ts), tb |-> TieOf(draw), seq |-> seq]
           bumped == Bumped(tokens)
<1>1. /\ kept' = [k \in Ids |-> IF k = id THEN e ELSE IF k \in bumped THEN Raised(k) ELSE kept[k]]
      /\ heap' = heap \cup {ItemOf(id, e)} \cup {ItemOf(b, Raised(b)) : b \in bumped}
      /\ id \notin Kept
  BY DEF Admit, Push
<1>2. e \in Entry
  BY DEF TypeOK, Entry, WeightOf, TieOf
<1>3. bumped \subseteq Kept /\ (policy # "GM" => bumped = {})
  BY DEF Bumped, TypeOK
<1>4. \A k \in Kept : k \in Ids /\ kept[k] \in Entry
  BY DEF TypeOK, Kept
<1>5. \A k \in Kept :
        /\ Raised(k) \in Entry /\ Raised(k).words = kept[k].words /\ Raised(k).length = kept[k].length
        /\ Raised(k).tokens = kept[k].tokens /\ Raised(k).seq = kept[k].seq /\ Raised(k).tb = kept[k].tb
  BY <1>4 DEF Raised, Entry
<1>6. kept' \in [Ids -> Entry \cup {NoRecord}]
  BY <1>1, <1>2, <1>3, <1>5 DEF TypeOK
<1>7. Kept' = Kept \cup {id}
  BY <1>1, <1>2, <1>3, <1>4, <1>5 DEF Kept
<1>8. kept'[id] = e /\ ItemOf(id, kept'[id]) \in heap'
  BY <1>1
<1>9. \A k \in Kept :
       /\ kept'[k].words = kept[k].words /\ kept'[k].length = kept[k].length
       /\ kept'[k].tokens = kept[k].tokens
       /\ kept'[k].seq = kept[k].seq /\ kept'[k].tb = kept[k].tb
       /\ kept'[k].weight = kept[k].weight \/ policy = "GM"
       /\ kept'[k] = kept[k] \/ ItemOf(k, kept'[k]) \in heap'
  <2> SUFFICES ASSUME NEW k \in Kept
               PROVE  /\ kept'[k].words = kept[k].words /\ kept'[k].length = kept[k].length
                      /\ kept'[k].tokens = kept[k].tokens
                      /\ kept'[k].seq = kept[k].seq /\ kept'[k].tb = kept[k].tb
                      /\ kept'[k].weight = kept[k].weight \/ policy = "GM"
                      /\ kept'[k] = kept[k] \/ ItemOf(k, kept'[k]) \in heap'
    OBVIOUS
  <2>1. CASE k \in bumped
    <3>1. kept'[k] = Raised(k)
      BY <1>1, <1>4, <2>1
    <3> HIDE DEF bumped
    <3> QED
      BY <1>1, <1>3, <1>5, <2>1, <3>1
  <2>2. CASE k \notin bumped
    BY <1>1, <1>4, <2>2
  <2> QED
    BY <2>1, <2>2
<1>10. heap \subseteq heap'
  BY <1>1
<1>11. ItemOf(id, e) \in Item /\ \A k \in Kept : ItemOf(k, Raised(k)) \in Item
  BY <1>2, <1>4, <1>5 DEF ItemOf, Item, Entry
<1>12. heap' \subseteq Item
  BY <1>1, <1>3, <1>11 DEF TypeOK
<1>13. \A x \in heap' \ heap : x.seq = seq \/ \E k \in Kept : x.seq = kept[k].seq
  BY <1>1, <1>3, <1>5 DEF ItemOf
<1>14. policy = "GR" => e.weight = ts /\ e.tb = seq
  BY DEF WeightOf, TieOf
<1> QED
  BY <1>1, <1>6, <1>7, <1>8, <1>9, <1>10, <1>12, <1>13, <1>14 DEF Admits

(* An evicted record is before every other kept one.                        *)
Evicts(x) ==
  /\ x \in heap /\ x.id \in Kept /\ x = ItemOf(x.id, kept[x.id])
  /\ Kept' = Kept \ {x.id}
  /\ kept' = [kept EXCEPT ![x.id] = NoRecord]
  /\ stored' = stored - kept[x.id].words
  /\ heap' = {y \in heap : Before(x, y)}
  /\ \A k \in Kept \ {x.id} : Before(x, ItemOf(k, kept[k]))

(* Evict has that effect on the least of the current items.                 *)
LEMMA EvictEffect ==
  ASSUME TypeOK, Order, Evict
  PROVE  \E x \in heap : /\ Evicts(x)
                         /\ post' = PostWithout(x.id)
                         /\ fresh' = fresh \ {x.id}
                         /\ gone' = IF x.id \in fresh THEN gone ELSE gone \cup {x.id}
<1>1. PICK x \in heap : /\ LeastCurrent(x)
                        /\ heap' = {y \in heap : Before(x, y)}
                        /\ stored' = stored - kept[x.id].words
                        /\ kept' = [kept EXCEPT ![x.id] = NoRecord]
                        /\ post' = PostWithout(x.id)
                        /\ fresh' = fresh \ {x.id}
                        /\ gone' = IF x.id \in fresh THEN gone ELSE gone \cup {x.id}
  BY DEF Evict
<1>2. x.id \in Kept /\ x = ItemOf(x.id, kept[x.id])
  BY <1>1 DEF LeastCurrent, IsCurrent
<1>3. Kept' = Kept \ {x.id}
  BY <1>1 DEF Kept, TypeOK
<1>4. ASSUME NEW k \in Kept \ {x.id} PROVE Before(x, ItemOf(k, kept[k]))
  <2>1. ItemOf(k, kept[k]) \in heap
    BY DEF Order, HeapCovers
  <2>2. ItemOf(k, kept[k]).id = k
    BY DEF ItemOf
  <2>3. IsCurrent(ItemOf(k, kept[k]))
    BY <2>2 DEF IsCurrent
  <2>4. ~Before(ItemOf(k, kept[k]), x)
    BY <1>1, <2>1, <2>3 DEF LeastCurrent
  <2>5. k \in Ids /\ x.id \in Ids /\ kept[k] \in Entry /\ kept[x.id] \in Entry
    BY <1>2 DEF Kept, TypeOK
  <2>6. kept[k].seq # kept[x.id].seq
    BY <1>2 DEF Order, Arrivals
  <2> QED
    BY <1>2, <2>4, <2>5, <2>6 DEF Before, ItemOf, Entry
<1> QED
  BY <1>1, <1>2, <1>3, <1>4 DEF Evicts

-----------------------------------------------------------------------------
(* The steps keep the invariant                                             *)

(* Each step keeps the variables in their types.                            *)
LEMMA TypeStep == TypeOK /\ Order /\ [Next]_vars => TypeOK'
<1> SUFFICES ASSUME TypeOK, Order, [Next]_vars PROVE TypeOK'
  OBVIOUS
<1>1. ASSUME NEW id \in Ids, NEW words \in Sizes, NEW length \in Lengths, NEW ts \in Times,
             NEW tokens \in SUBSET Tokens, NEW w \in Weights, NEW draw \in Draws,
             Admit(id, words, length, ts, tokens, w, draw)
      PROVE  TypeOK'
  <2>1. Admits(id, words, length, ts, tokens)
    BY <1>1, AdmitEffect
  <2>2. kept' \in [Ids -> Entry \cup {NoRecord}] /\ heap' \subseteq Item
    BY <2>1 DEF Admits
  <2>3. post' \in [Tokens -> SUBSET Kept']
    <3>1. post \in [Tokens -> SUBSET Kept]
      BY DEF TypeOK
    <3>2. Kept' = Kept \cup {id}
      BY <2>1 DEF Admits
    <3> QED
      BY <1>1, <3>1, <3>2 DEF Admit
  <2>4. df' \in [Tokens -> Nat]
    <3>1. df \in [Tokens -> Nat]
      BY DEF TypeOK
    <3> QED
      BY <1>1, <3>1 DEF Admit
  <2>5. batch' \in Seq(Line) /\ fresh' \subseteq Ids /\ gone' \subseteq Ids
    <3>1. [id |-> id, length |-> length, tokens |-> tokens, seq |-> seq] \in Line
      BY DEF TypeOK, Line
    <3> QED
      BY <1>1, <3>1 DEF Admit, TypeOK
  <2>6. /\ policy' \in Policies /\ pc' \in {"idle", "loop", "evict", "deliver"}
        /\ last' \in Nat /\ seen' \in Nat /\ stored' \in Int /\ seq' \in Nat /\ largest' \in Nat
    <3>1. /\ policy' = policy /\ pc' \in {"loop", "evict"} /\ last' = ts /\ seq' = seq + 1
          /\ seen' = seen + words /\ stored' = stored + words /\ largest' \in {words, largest}
      BY <1>1 DEF Admit
    <3>2. words \in Nat /\ ts \in Nat
      OBVIOUS
    <3>3. /\ policy \in Policies /\ seen \in Nat /\ stored \in Int /\ seq \in Nat /\ largest \in Nat
      BY DEF TypeOK
    <3> QED
      BY <3>1, <3>2, <3>3
  <2>7. twice' \in BOOLEAN
    BY <1>1 DEF Admit
  <2>8. failed' \in BOOLEAN
    <3>1. failed' = failed
      BY <1>1 DEF Admit
    <3> QED
      BY <3>1 DEF TypeOK
  <2> QED
    BY <2>2, <2>3, <2>4, <2>5, <2>6, <2>7, <2>8 DEF TypeOK
<1>2. CASE Evict
  <2>1. PICK x \in heap : Evicts(x) /\ post' = PostWithout(x.id)
    BY <1>2, EvictEffect
  <2>2. x.id \in Kept /\ kept[x.id] \in Entry /\ Kept' = Kept \ {x.id}
    BY <2>1 DEF Evicts, TypeOK, Kept
  <2>3. kept' \in [Ids -> Entry \cup {NoRecord}] /\ heap' \subseteq Item
    BY <2>1 DEF Evicts, TypeOK
  <2>6. stored' \in Int
    <3>1. kept[x.id].words \in Nat
      BY <2>2 DEF Entry
    <3> QED
      BY <2>1, <3>1 DEF Evicts, TypeOK
  <2>4. post' \in [Tokens -> SUBSET Kept']
    <3>1. post \in [Tokens -> SUBSET Kept]
      BY DEF TypeOK
    <3>2. post' = [t \in Tokens |-> post[t] \ {x.id}]
      BY <2>1 DEF PostWithout
    <3>3. ASSUME NEW t \in Tokens PROVE post[t] \ {x.id} \in SUBSET Kept'
      BY <2>2, <3>1
    <3> QED
      BY <3>2, <3>3
  <2>5. fresh' \subseteq Ids /\ gone' \subseteq Ids
    BY <1>2 DEF Evict, TypeOK, Kept, LeastCurrent, IsCurrent
  <2> QED
    BY <1>2, <2>3, <2>4, <2>5, <2>6 DEF Evict, TypeOK
<1>3. CASE Reset
  <2>1. Kept' = {}
    BY <1>3 DEF Reset, Kept
  <2>2. kept' \in [Ids -> Entry \cup {NoRecord}] /\ df' \in [Tokens -> Nat] /\ post' \in [Tokens -> SUBSET Kept']
    BY <1>3, <2>1 DEF Reset
  <2>3. /\ pc' = "idle" /\ policy' = policy /\ heap' = {} /\ UNCHANGED <<batch, fresh, gone>>
        /\ last' = 0 /\ seen' = 0 /\ stored' = 0 /\ seq' = 0 /\ largest' = 0
    BY <1>3 DEF Reset, callVars
  <2>4. failed' \in BOOLEAN /\ twice' \in BOOLEAN
    BY <1>3, Zenon DEF Reset
  <2> QED
    BY <2>2, <2>3, <2>4 DEF TypeOK
<1>4. ASSUME NEW id \in Ids, NEW ts \in Times, Duplicate(id, ts) PROVE TypeOK'
  <2>1. <<>> \in Seq(Line)
    OBVIOUS
  <2> QED
    BY <1>4, <2>1 DEF Duplicate, TypeOK, Kept
<1>5. ASSUME NEW ts \in Times, Refuse(ts) PROVE TypeOK'
  BY <1>5 DEF Refuse, TypeOK, Kept, callVars
<1>6. CASE Start \/ Fits \/ UNCHANGED vars
  BY <1>6 DEF Start, Fits, TypeOK, Kept, vars, gateVars, callVars
<1>7. CASE Deliver \/ Return
  BY <1>7 DEF Deliver, Return, TypeOK, Kept, gateVars
<1>8. CASE Pass
  <2>1. Tail(batch) \in Seq(Line)
    BY <1>8 DEF Pass, TypeOK
  <2> QED
    BY <1>8, <2>1 DEF Pass, TypeOK, Kept, gateVars
<1> QED
  BY <1>1, <1>2, <1>3, <1>4, <1>5, <1>6, <1>7, <1>8 DEF Next

(* Only Admit, Evict and Reset touch the kept records and the heap.         *)
LEMMA OtherSteps ==
  ASSUME NEW id \in Ids, NEW ts \in Times,
         Start \/ Fits \/ Deliver \/ Pass \/ Return \/ Duplicate(id, ts) \/ Refuse(ts) \/ UNCHANGED vars
  PROVE  UNCHANGED <<policy, kept, heap, seq, seen, stored, largest>> /\ Kept' = Kept
  BY DEF Start, Fits, Deliver, Pass, Return, Duplicate, Refuse, vars, gateVars, callVars, Kept

(* The order of arrival tells the kept records apart, and the heap has the  *)
(* present item of each.                                                    *)
LEMMA OrderStep == TypeOK /\ Order /\ [Next]_vars => Order'
<1> SUFFICES ASSUME TypeOK, Order, [Next]_vars PROVE Order'
  OBVIOUS
<1> USE DEF Order, Arrivals, HeapCovers
<1>a. /\ seq \in Nat /\ heap \subseteq Item
      /\ \A k \in Kept : kept[k].seq \in Nat
  BY DEF TypeOK, Kept, Entry
<1>1. ASSUME NEW id \in Ids, NEW words \in Sizes, NEW length \in Lengths, NEW ts \in Times,
             NEW tokens \in SUBSET Tokens, NEW w \in Weights, NEW draw \in Draws,
             Admit(id, words, length, ts, tokens, w, draw)
      PROVE  Order'
  <2>1. Admits(id, words, length, ts, tokens) /\ seq' = seq + 1
    BY <1>1, AdmitEffect DEF Admit
  <2>2. kept'[id].seq = seq /\ Kept' = Kept \cup {id} /\ \A k \in Kept : kept'[k].seq = kept[k].seq
    BY <2>1 DEF Admits
  <2>3. \A k \in Kept' : kept'[k].seq < seq'
    BY <1>a, <2>1, <2>2
  <2>4. \A k, j \in Kept' : kept'[k].seq = kept'[j].seq => k = j
    BY <1>a, <2>2
  <2>5. \A x \in heap' : x.seq < seq'
    BY <1>a, <2>1 DEF Admits, Item
  <2>6. \A k \in Kept' : ItemOf(k, kept'[k]) \in heap'
    <3>1. ASSUME NEW k \in Kept PROVE ItemOf(k, kept'[k]) \in heap'
      BY <2>1 DEF Admits
    <3> QED
      BY <2>1, <2>2, <3>1 DEF Admits
  <2> QED
    BY <2>3, <2>4, <2>5, <2>6
<1>2. CASE Evict
  <2>1. PICK x \in heap : Evicts(x)
    BY <1>2, EvictEffect
  <2>2. Kept' = Kept \ {x.id} /\ \A k \in Kept' : kept'[k] = kept[k]
    BY <2>1 DEF Evicts, TypeOK, Kept
  <2>3. seq' = seq /\ heap' \subseteq heap
    BY <1>2, <2>1 DEF Evict, Evicts
  <2>4. \A k \in Kept' : ItemOf(k, kept'[k]) \in heap'
    BY <2>1, <2>2 DEF Evicts
  <2> QED
    BY <2>2, <2>3, <2>4
<1>3. CASE Reset
  <2>1. Kept' = {} /\ heap' = {}
    BY <1>3 DEF Reset, Kept
  <2> QED
    BY <2>1
<1>4. ASSUME NEW id \in Ids, NEW ts \in Times,
             Start \/ Fits \/ Deliver \/ Pass \/ Return \/ Duplicate(id, ts) \/ Refuse(ts) \/ UNCHANGED vars
      PROVE  Order'
  BY <1>4, OtherSteps
<1>5. CASE UNCHANGED <<kept, heap, seq>>
  BY <1>5 DEF Kept
<1> QED
  BY <1>1, <1>2, <1>3, <1>4, <1>5 DEF Next, Start, Fits, Deliver, Pass, Return, Refuse, vars, gateVars

(* Passing the batch on touches nothing of the gate but the call.           *)
LEMMA DeliverEffect ==
  Deliver \/ Pass \/ Return =>
    pc \in {"loop", "deliver"} /\ UNCHANGED <<policy, last, seen, stored, seq, kept, heap, df, post, largest>>
  BY Zenon DEF Deliver, Pass, Return, gateVars

(* The policy of a gate stands.                                             *)
LEMMA PolicyStands == [Next]_vars => policy' = policy
<1>1. ASSUME NEW id \in Ids, NEW words \in Sizes, NEW length \in Lengths, NEW ts \in Times,
             NEW tokens \in SUBSET Tokens, NEW w \in Weights, NEW draw \in Draws,
             Admit(id, words, length, ts, tokens, w, draw)
      PROVE  policy' = policy
  BY <1>1 DEF Admit
<1>2. ASSUME NEW ts \in Times, Refuse(ts) PROVE policy' = policy
  BY <1>2 DEF Refuse
<1>3. CASE Deliver \/ Pass \/ Return
  BY <1>3, DeliverEffect
<1>4. CASE Start \/ Evict \/ Fits \/ Reset \/ UNCHANGED vars
  BY <1>4 DEF Start, Evict, Fits, Reset, vars
<1>5. ASSUME NEW id \in Ids, NEW ts \in Times, Duplicate(id, ts) PROVE policy' = policy
  BY <1>5 DEF Duplicate
<1> QED
  BY <1>1, <1>2, <1>3, <1>4, <1>5 DEF Next

(* A product with a number that is not negative grows with its factor.      *)
LEMMA MulMono == \A a, b, c \in Int : a <= b /\ 0 <= c => c * a <= c * b
  BY SMTT(30)

(* A product distributes over a sum.                                       *)
LEMMA MulAdd == \A a, b, c \in Int : c * (a + b) = c * a + c * b
  BY SMTT(30)

(* What is kept stays within one record of its share.                       *)
LEMMA ShareStep == TypeOK /\ Order /\ Share /\ [Next]_vars => Share'
<1> SUFFICES ASSUME TypeOK, Order, Share, [Next]_vars PROVE Share'
  OBVIOUS
<1>a. /\ stored \in Int /\ seen \in Nat /\ largest \in Nat
      /\ \A k \in Kept : kept[k].words \in Nat /\ kept[k].words <= largest
  BY DEF TypeOK, Kept, Entry, Share
<1>1. ASSUME NEW id \in Ids, NEW words \in Sizes, NEW length \in Lengths, NEW ts \in Times,
             NEW tokens \in SUBSET Tokens, NEW w \in Weights, NEW draw \in Draws,
             Admit(id, words, length, ts, tokens, w, draw)
      PROVE  Share'
  <2>1. Admits(id, words, length, ts, tokens)
    BY <1>1, AdmitEffect
  <2>2. /\ seen' = seen + words /\ stored' = stored + words /\ words \in Nat /\ policy' = policy
        /\ largest' \in Nat /\ largest <= largest' /\ words <= largest'
        /\ policy # "ALL" => pc' = "evict"
    <3>1. /\ seen' = seen + words /\ stored' = stored + words /\ policy' = policy
          /\ largest' = IF words > largest THEN words ELSE largest
          /\ pc' = IF policy = "ALL" THEN "loop" ELSE "evict"
      BY <1>1 DEF Admit
    <3>2. words \in Nat
      OBVIOUS
    <3> QED
      BY <1>a, <3>1, <3>2
  <2>3. \A k \in Kept' : kept'[k].words <= largest'
    BY <1>a, <2>1, <2>2 DEF Admits
  <2>4. ASSUME policy # "ALL", Num * seen < Den * (stored + largest)
        PROVE  Num * seen' < Den * (stored' + largest')
    <3>1. Num * seen' = Num * seen + Num * words
      BY <1>a, <2>2, MulAdd
    <3>2. Den * (stored' + largest') = Den * (stored + largest') + Den * words
      <4>1. stored' + largest' = (stored + largest') + words
        BY <1>a, <2>2
      <4>2. \A a \in Int : Den * (a + words) = Den * a + Den * words
        BY <2>2, MulAdd
      <4>3. stored + largest' \in Int
        BY <1>a, <2>2
      <4> QED
        BY <4>1, <4>2, <4>3
    <3>3. Den * (stored + largest) <= Den * (stored + largest')
      <4>1. \A a, b, c \in Int : a <= b => Den * (c + a) <= Den * (c + b)
        <5>1. \A a, b, c \in Int : a <= b => c + a <= c + b /\ c + a \in Int /\ c + b \in Int
          OBVIOUS
        <5>2. \A a, b \in Int : a <= b => Den * a <= Den * b
          BY MulMono
        <5> QED
          BY <5>1, <5>2
      <4>2. stored \in Int /\ largest \in Int /\ largest' \in Int /\ largest <= largest'
        BY <1>a, <2>2
      <4> QED
        BY <4>1, <4>2
    <3>4. words * Num <= words * Den
      BY <2>2, MulMono
    <3>5. words * Num = Num * words /\ words * Den = Den * words
      BY <2>2
    <3>6. /\ Num * seen \in Int /\ Num * words \in Int /\ Den * words \in Int
          /\ Den * (stored + largest) \in Int /\ Den * (stored + largest') \in Int
      BY <1>a, <2>2
    <3> QED
      BY <2>4, <3>1, <3>2, <3>3, <3>4, <3>5, <3>6
  <2>5. policy # "ALL" => stored = seen \/ Num * seen < Den * (stored + largest)
    BY DEF Share
  <2>6. policy # "ALL" => stored' = seen' \/ Num * seen' < Den * (stored' + largest')
    BY <2>2, <2>4, <2>5
  <2>7. policy # "ALL" /\ Num = Den => stored' = seen'
    BY <2>2 DEF Share
  <2> QED
    BY <2>2, <2>3, <2>6, <2>7 DEF Share
<1>2. CASE Evict
  <2>1. PICK x \in heap : Evicts(x)
    BY <1>2, EvictEffect
  <2>2. /\ Kept' = Kept \ {x.id} /\ \A k \in Kept' : kept'[k] = kept[k]
        /\ stored' = stored - kept[x.id].words /\ x.id \in Kept
    BY <2>1 DEF Evicts, TypeOK, Kept
  <2>3. UNCHANGED <<policy, pc, seen, largest>> /\ pc = "evict" /\ Den * stored > Num * seen
    BY <1>2 DEF Evict, OverCapacity
  <2>4. stored <= stored' + largest /\ stored' \in Int /\ stored' + largest \in Int
    BY <1>a, <2>2
  <2>5. Den * stored <= Den * (stored' + largest)
    <3>1. \A b \in Int : stored <= b => Den * stored <= Den * b
      BY <1>a, MulMono
    <3> QED
      BY <2>4, <3>1
  <2>6. Num * seen < Den * (stored' + largest)
    <3>1. Num * seen \in Int /\ Den * stored \in Int /\ Den * (stored' + largest) \in Int
      BY <1>a, <2>4
    <3> QED
      BY <2>3, <2>5, <3>1
  <2>7. policy # "ALL" => Num # Den
    BY <1>a, <2>3 DEF Share
  <2> QED
    BY <1>a, <2>2, <2>3, <2>6, <2>7 DEF Share
<1>3. CASE Reset
  <2>1. Kept' = {} /\ seen' = 0 /\ stored' = 0
    BY <1>3 DEF Reset, Kept
  <2>2. 0 \in Int /\ Den * 0 <= Num * 0
    BY MulMono
  <2> QED
    BY <2>1, <2>2 DEF Share
<1>4. CASE Fits
  <2>1. UNCHANGED <<policy, kept, seen, stored, largest>> /\ ~OverCapacity
    BY <1>4 DEF Fits, gateVars
  <2>2. Kept' = Kept
    BY <2>1 DEF Kept
  <2>3. Den * stored <= Num * seen
    BY <1>a, <2>1 DEF OverCapacity
  <2> QED
    BY <1>a, <2>1, <2>2, <2>3 DEF Share
<1>5. ASSUME UNCHANGED <<policy, kept, seen, stored, largest>>, pc # "evict" \/ pc' = pc PROVE Share'
  <2>1. Kept' = Kept
    BY <1>5 DEF Kept
  <2> QED
    BY <1>5, <2>1 DEF Share
<1> QED
  BY <1>1, <1>2, <1>3, <1>4, <1>5, DeliverEffect
     DEF Next, Start, Duplicate, Refuse, vars, gateVars

(* Under GR the weights follow the order of arrival.                        *)
LEMMA RecencyStep == TypeOK /\ Order /\ Recency /\ [Next]_vars => Recency'
<1> SUFFICES ASSUME TypeOK, Order, Recency, [Next]_vars, policy' = "GR" PROVE Recency'
  BY DEF Recency
<1> USE DEF Recency
<1>a. policy = "GR"
  BY PolicyStands
<1>b. last \in Nat /\ \A k \in Kept : kept[k].weight \in Nat /\ kept[k].seq < seq
  BY DEF TypeOK, Kept, Entry, Order, Arrivals
<1>1. ASSUME NEW id \in Ids, NEW words \in Sizes, NEW length \in Lengths, NEW ts \in Times,
             NEW tokens \in SUBSET Tokens, NEW w \in Weights, NEW draw \in Draws,
             Admit(id, words, length, ts, tokens, w, draw)
      PROVE  Recency'
  <2>1. Admits(id, words, length, ts, tokens)
    BY <1>1, AdmitEffect
  <2>2. last' = ts /\ last <= ts /\ ts \in Nat
    BY <1>1 DEF Admit, InOrder
  <2>3. /\ Kept' = Kept \cup {id}
        /\ kept'[id].weight = ts /\ kept'[id].tb = seq /\ kept'[id].seq = seq
        /\ \A k \in Kept : /\ kept'[k].weight = kept[k].weight /\ kept'[k].tb = kept[k].tb
                           /\ kept'[k].seq = kept[k].seq
    BY <1>a, <2>1 DEF Admits
  <2>4. \A k \in Kept' : kept'[k].tb = kept'[k].seq /\ kept'[k].weight <= last'
    BY <1>a, <1>b, <2>2, <2>3
  <2>5. \A k, j \in Kept' : kept'[k].seq < kept'[j].seq => kept'[k].weight <= kept'[j].weight
    <3>1. ASSUME NEW k \in Kept', NEW j \in Kept', kept'[k].seq < kept'[j].seq
          PROVE  kept'[k].weight <= kept'[j].weight
      <4>1. CASE j = id
        BY <1>b, <2>2, <2>3, <2>4, <4>1
      <4>2. CASE j # id
        <5>1. k # id
          BY <1>b, <2>3, <3>1, <4>2 DEF TypeOK, Kept, Entry
        <5> QED
          BY <1>a, <2>3, <3>1, <4>2, <5>1
      <4> QED
        BY <4>1, <4>2
    <3> QED
      BY <3>1
  <2> QED
    BY <2>4, <2>5
<1>2. CASE Evict
  <2>1. PICK x \in heap : Evicts(x)
    BY <1>2, EvictEffect
  <2>2. Kept' = Kept \ {x.id} /\ \A k \in Kept' : kept'[k] = kept[k]
    BY <2>1 DEF Evicts, TypeOK, Kept
  <2>3. last' = last
    BY <1>2 DEF Evict
  <2> QED
    BY <1>a, <2>2, <2>3
<1>3. CASE Reset
  BY <1>3 DEF Reset, Kept
<1>4. ASSUME kept' = kept, last <= last', last' \in Nat PROVE Recency'
  <2>1. Kept' = Kept
    BY <1>4 DEF Kept
  <2> QED
    BY <1>a, <1>b, <1>4, <2>1
<1>5. ASSUME NEW id \in Ids, NEW ts \in Times, Duplicate(id, ts) PROVE Recency'
  BY <1>b, <1>4, <1>5 DEF Duplicate, InOrder
<1>6. ASSUME NEW ts \in Times, Refuse(ts) PROVE Recency'
  <2>1. kept' = kept /\ last' = ts /\ last < ts /\ ts \in Nat
    BY <1>b, <1>6 DEF Refuse
  <2> QED
    BY <1>b, <1>4, <2>1
<1>7. CASE Start \/ Fits \/ UNCHANGED vars
  BY <1>b, <1>4, <1>7 DEF Start, Fits, vars, gateVars
<1>8. CASE Deliver \/ Pass \/ Return
  BY <1>b, <1>4, <1>8, DeliverEffect
<1> QED
  BY <1>1, <1>2, <1>3, <1>5, <1>6, <1>7, <1>8 DEF Next

(* Under GR nothing that arrived before a kept record is missing after it.  *)
LEMMA NewestStep == TypeOK /\ Order /\ Recency /\ NewestStay /\ [Next]_vars => NewestStay'
<1> SUFFICES ASSUME TypeOK, Order, Recency, NewestStay, [Next]_vars, policy' = "GR" PROVE NewestStay'
  BY DEF NewestStay
<1> USE DEF NewestStay
<1>a. policy = "GR"
  BY PolicyStands
<1>b. seq \in Nat /\ \A k \in Kept : kept[k] \in Entry /\ kept[k].seq \in Nat
  BY DEF TypeOK, Kept, Entry
<1>1. ASSUME NEW id \in Ids, NEW words \in Sizes, NEW length \in Lengths, NEW ts \in Times,
             NEW tokens \in SUBSET Tokens, NEW w \in Weights, NEW draw \in Draws,
             Admit(id, words, length, ts, tokens, w, draw)
      PROVE  NewestStay'
  <2>1. Admits(id, words, length, ts, tokens) /\ seq' = seq + 1
    BY <1>1, AdmitEffect DEF Admit
  <2>2. Kept' = Kept \cup {id} /\ kept'[id].seq = seq /\ \A k \in Kept : kept'[k].seq = kept[k].seq
    BY <2>1 DEF Admits
  <2>3. ASSUME NEW k \in Kept', NEW s \in kept'[k].seq .. (seq' - 1)
        PROVE  \E j \in Kept' : kept'[j].seq = s
    <3>1. CASE s = seq
      BY <2>2, <3>1
    <3>2. CASE s # seq
      <4>1. k \in Kept /\ s \in kept[k].seq .. (seq - 1)
        BY <1>b, <2>1, <2>2, <2>3, <3>2
      <4>2. PICK j \in Kept : kept[j].seq = s
        BY <1>a, <4>1
      <4> QED
        BY <2>2, <4>2
    <3> QED
      BY <3>1, <3>2
  <2> QED
    BY <2>3
<1>2. CASE Evict
  <2>1. PICK x \in heap : Evicts(x)
    BY <1>2, EvictEffect
  <2>2. Kept' = Kept \ {x.id} /\ x.id \in Kept /\ (\A k \in Kept' : kept'[k] = kept[k])
    BY <2>1 DEF Evicts, TypeOK, Kept
  <2>3. seq' = seq
    BY <1>2 DEF Evict
  <2>4. ASSUME NEW k \in Kept', NEW s \in kept'[k].seq .. (seq' - 1)
        PROVE  \E j \in Kept' : kept'[j].seq = s
    <3>1. k \in Kept /\ k # x.id /\ kept[k].seq <= s
      BY <1>b, <2>2, <2>4
    <3>2. PICK j \in Kept : kept[j].seq = s
      BY <1>a, <2>2, <2>3, <2>4, <3>1
    <3>3. j # x.id
      <4>1. ASSUME j = x.id PROVE FALSE
        <5>1. kept[k].seq # kept[x.id].seq
          BY <2>2, <3>1 DEF Order, Arrivals
        <5>2. kept[k].seq < kept[x.id].seq
          BY <1>b, <2>2, <3>1, <3>2, <4>1, <5>1
        <5>3. kept[k].weight <= kept[x.id].weight /\ kept[k].tb = kept[k].seq /\ kept[x.id].tb = kept[x.id].seq
          BY <1>a, <2>2, <3>1, <5>2 DEF Recency
        <5>4. Before(x, ItemOf(k, kept[k])) /\ x = ItemOf(x.id, kept[x.id])
          BY <2>1, <3>1 DEF Evicts
        <5>5. kept[k] \in Entry /\ kept[x.id] \in Entry
          BY <1>b, <2>2, <3>1
        <5>6. /\ x.weight = kept[x.id].weight /\ x.tb = kept[x.id].tb /\ x.seq = kept[x.id].seq
              /\ ItemOf(k, kept[k]).weight = kept[k].weight /\ ItemOf(k, kept[k]).tb = kept[k].tb
              /\ ItemOf(k, kept[k]).seq = kept[k].seq
          BY <5>4 DEF ItemOf
        <5>7. /\ kept[k].weight \in Nat /\ kept[x.id].weight \in Nat
              /\ kept[k].seq \in Nat /\ kept[x.id].seq \in Nat
          BY <5>5 DEF Entry
        <5> QED
          BY <5>2, <5>3, <5>4, <5>6, <5>7 DEF Before
      <4> QED
        BY <4>1
    <3> QED
      BY <2>2, <3>2, <3>3
  <2> QED
    BY <2>4
<1>3. CASE Reset
  BY <1>3 DEF Reset, Kept
<1>4. ASSUME UNCHANGED <<kept, seq>> PROVE NewestStay'
  <2>1. Kept' = Kept
    BY <1>4 DEF Kept
  <2> QED
    BY <1>a, <1>4, <2>1
<1> QED
  BY <1>1, <1>2, <1>3, <1>4, DeliverEffect DEF Next, Start, Fits, Duplicate, Refuse, vars, gateVars

-----------------------------------------------------------------------------
(* What some records have by one of the measures                            *)

(* What the counts below need of arithmetic.                                *)
LEMMA Arithmetic ==
  /\ \A n \in Nat : 1 * n = n
  /\ \A m, n \in Nat : m + n - 0 = m + n
  /\ \A k, m, n \in Nat : k = m + n => m = k - n
  OBVIOUS

(* One record has as many as its measure says.                              *)
LEMMA UnitsOfOne ==
  ASSUME NEW recs, NEW m, NEW id, recs[id][m] \in Nat
  PROVE  IsFiniteSet(Units(recs, m, {id})) /\ Cardinality(Units(recs, m, {id})) = recs[id][m]
<1> DEFINE n == recs[id][m]
<1>1. Units(recs, m, {id}) = {id} \X (1 .. n)
  BY DEF Units
<1>2. IsFiniteSet({id}) /\ Cardinality({id}) = 1
  BY FS_Singleton
<1>3. IsFiniteSet(1 .. n) /\ Cardinality(1 .. n) = n
  <2>1. n \in Int /\ 1 \in Int /\ n \in Nat
    OBVIOUS
  <2> HIDE DEF n
  <2>2. IsFiniteSet(1 .. n) /\ Cardinality(1 .. n) = IF 1 > n THEN 0 ELSE n - 1 + 1
    BY <2>1, FS_Interval, Zenon
  <2> QED
    BY <2>1, <2>2
<1>4. IsFiniteSet({id} \X (1 .. n)) /\ Cardinality({id} \X (1 .. n)) = 1 * n
  BY <1>2, <1>3, FS_Product
<1>5. 1 * n = n
  BY Arithmetic, Zenon
<1> QED
  BY <1>1, <1>4, <1>5, Zenon

(* Different records have nothing in common.                                *)
LEMMA UnitsApart ==
  ASSUME NEW recs, NEW m, NEW S, NEW T, S \cap T = {}
  PROVE  Units(recs, m, S) \cap Units(recs, m, T) = {}
<1> SUFFICES ASSUME NEW x \in Units(recs, m, S), x \in Units(recs, m, T) PROVE FALSE
  OBVIOUS
<1>1. PICK s \in S : x \in {s} \X (1 .. recs[s][m])
  BY DEF Units
<1>2. PICK t \in T : x \in {t} \X (1 .. recs[t][m])
  BY DEF Units
<1>3. x[1] = s /\ x[1] = t
  BY <1>1, <1>2
<1> QED
  BY <1>3

(* What two sets of records have is what the one has and what the other has.*)
LEMMA UnitsOfBoth ==
  ASSUME NEW recs, NEW m, NEW S, NEW T, S \cap T = {},
         IsFiniteSet(Units(recs, m, S)), IsFiniteSet(Units(recs, m, T))
  PROVE  /\ IsFiniteSet(Units(recs, m, S \cup T))
         /\ Cardinality(Units(recs, m, S \cup T)) = Cardinality(Units(recs, m, S)) + Cardinality(Units(recs, m, T))
<1>1. Units(recs, m, S \cup T) = Units(recs, m, S) \cup Units(recs, m, T)
  BY Zenon DEF Units
<1>2. Units(recs, m, S) \cap Units(recs, m, T) = {}
  BY UnitsApart
<1>3. Cardinality({}) = 0
  BY FS_EmptySet
<1>4. Cardinality(Units(recs, m, S)) \in Nat /\ Cardinality(Units(recs, m, T)) \in Nat
  BY FS_CardinalityType
<1>5. /\ IsFiniteSet(Units(recs, m, S) \cup Units(recs, m, T))
      /\ Cardinality(Units(recs, m, S) \cup Units(recs, m, T)) =
           Cardinality(Units(recs, m, S)) + Cardinality(Units(recs, m, T))
             - Cardinality(Units(recs, m, S) \cap Units(recs, m, T))
  BY FS_Union
<1>6. Cardinality(Units(recs, m, S)) + Cardinality(Units(recs, m, T)) - 0 =
        Cardinality(Units(recs, m, S)) + Cardinality(Units(recs, m, T))
  BY <1>4, Arithmetic, Zenon
<1> QED
  BY <1>1, <1>2, <1>3, <1>5, <1>6, Zenon

(* What is left has what did not go.                                        *)
LEMMA UnitsLeft ==
  ASSUME NEW recs, NEW m, NEW S, NEW T \in SUBSET S, IsFiniteSet(Units(recs, m, S))
  PROVE  /\ IsFiniteSet(Units(recs, m, S \ T)) /\ IsFiniteSet(Units(recs, m, T))
         /\ Cardinality(Units(recs, m, S \ T)) = Cardinality(Units(recs, m, S)) - Cardinality(Units(recs, m, T))
         /\ Cardinality(Units(recs, m, S \ T)) \in Nat
<1>1. Units(recs, m, S \ T) \subseteq Units(recs, m, S) /\ Units(recs, m, T) \subseteq Units(recs, m, S)
  BY Zenon DEF Units
<1>2. IsFiniteSet(Units(recs, m, S \ T)) /\ IsFiniteSet(Units(recs, m, T))
  BY <1>1, FS_Subset
<1>3. (S \ T) \cap T = {} /\ (S \ T) \cup T = S
  OBVIOUS
<1>4. Cardinality(Units(recs, m, (S \ T) \cup T)) = Cardinality(Units(recs, m, S \ T)) + Cardinality(Units(recs, m, T))
  BY <1>2, <1>3, UnitsOfBoth
<1>5. /\ Cardinality(Units(recs, m, S)) \in Nat
      /\ Cardinality(Units(recs, m, S \ T)) \in Nat /\ Cardinality(Units(recs, m, T)) \in Nat
  BY <1>2, FS_CardinalityType
<1>6. Cardinality(Units(recs, m, S)) = Cardinality(Units(recs, m, S \ T)) + Cardinality(Units(recs, m, T))
  BY <1>3, <1>4, Zenon
<1>7. Cardinality(Units(recs, m, S \ T)) = Cardinality(Units(recs, m, S)) - Cardinality(Units(recs, m, T))
  BY <1>5, <1>6, Arithmetic
<1> QED
  BY <1>2, <1>5, <1>7

(* Two stores that agree on the measure of some records have the same.      *)
LEMMA UnitsAlike ==
  ASSUME NEW f, NEW g, NEW m, NEW S, \A id \in S : f[id][m] = g[id][m]
  PROVE  Units(f, m, S) = Units(g, m, S)
  BY Zenon DEF Units

(* A new record adds what it has.                                           *)
LEMMA UnitsWith ==
  ASSUME NEW recs, NEW m, NEW S, NEW id, id \notin S, recs[id][m] \in Nat, IsFiniteSet(Units(recs, m, S))
  PROVE  /\ IsFiniteSet(Units(recs, m, S \cup {id}))
         /\ Cardinality(Units(recs, m, S \cup {id})) = Cardinality(Units(recs, m, S)) + recs[id][m]
<1>1. IsFiniteSet(Units(recs, m, {id})) /\ Cardinality(Units(recs, m, {id})) = recs[id][m]
  BY UnitsOfOne
<1>2. S \cap {id} = {}
  OBVIOUS
<1>3. /\ IsFiniteSet(Units(recs, m, S \cup {id}))
      /\ Cardinality(Units(recs, m, S \cup {id})) = Cardinality(Units(recs, m, S)) + Cardinality(Units(recs, m, {id}))
  BY <1>1, <1>2, UnitsOfBoth
<1> QED
  BY <1>1, <1>3, Zenon

-----------------------------------------------------------------------------
(* The inner store                                                          *)

(* The postings and the total of the inner store are those of its records,  *)
(* and no record has a place that is still to be given.                     *)
Store == [recs : [Ids -> Slot \cup {NoRecord}], places : Nat, postings : [Tokens -> SUBSET Ids], total : Int]

Consistent(store) ==
  /\ store \in Store
  /\ \A t \in Tokens : store.postings[t] = {id \in Held(store.recs) : t \in store.recs[id].tokens}
  /\ IsFiniteSet(Units(store.recs, "length", Held(store.recs)))
  /\ store.total = Cardinality(Units(store.recs, "length", Held(store.recs)))
  /\ \A id \in Held(store.recs) : store.recs[id].place < store.places

(* What is held is a slot.                                                  *)
LEMMA Slots ==
  ASSUME NEW recs \in [Ids -> Slot \cup {NoRecord}]
  PROVE  \A id \in Held(recs) : /\ id \in Ids /\ recs[id] \in Slot
                                /\ recs[id].length \in Nat /\ recs[id].tokens \in SUBSET Tokens
                                /\ recs[id].seq \in Nat /\ recs[id].place \in Nat
<1>1. \A id \in Held(recs) : id \in Ids /\ recs[id] \in Slot
  BY DEF Held
<1> QED
  BY <1>1 DEF Slot

(* InnerDrop takes what it is given off records, postings and total alike.  *)
LEMMA Drops ==
  ASSUME NEW store, Consistent(store), NEW ids
  PROVE  /\ Consistent(InnerDrop(store, ids))
         /\ InnerDrop(store, ids).places = store.places
         /\ Held(InnerDrop(store, ids).recs) = Held(store.recs) \ ids
         /\ \A id \in Held(store.recs) \ ids : InnerDrop(store, ids).recs[id] = store.recs[id]
<1> DEFINE held    == Held(store.recs)
           dropped == ids \cap held
           after   == InnerDrop(store, ids)
<1>1. /\ after.recs = [id \in Ids |-> IF id \in dropped THEN NoRecord ELSE store.recs[id]]
      /\ after.places = store.places
      /\ after.postings = [t \in Tokens |-> store.postings[t] \ {id \in dropped : t \in store.recs[id].tokens}]
      /\ after.total = store.total - Cardinality(Units(store.recs, "length", dropped))
      /\ after = [recs |-> after.recs, places |-> after.places,
                  postings |-> after.postings, total |-> after.total]
  <2>1. store \in Store
    BY DEF Consistent
  <2>2. store = [recs |-> store.recs, places |-> store.places, postings |-> store.postings, total |-> store.total]
    BY <2>1 DEF Store
  <2>3. after = [store EXCEPT
                   !.recs = [id \in Ids |-> IF id \in dropped THEN NoRecord ELSE store.recs[id]],
                   !.postings = [t \in Tokens |-> store.postings[t] \ {id \in dropped : t \in store.recs[id].tokens}],
                   !.total = store.total - Cardinality(Units(store.recs, "length", dropped))]
    BY DEF InnerDrop
  <2> HIDE DEF after, dropped
  <2> QED
    BY <2>1, <2>2, <2>3 DEF Store
<1>2. /\ store.recs \in [Ids -> Slot \cup {NoRecord}] /\ store.places \in Nat
      /\ store.postings \in [Tokens -> SUBSET Ids] /\ store.total \in Int
  BY DEF Consistent, Store
<1> HIDE DEF after
<1>3. held \subseteq Ids /\ \A id \in held : store.recs[id] \in Slot
  BY <1>2, Slots
<1>4. Held(after.recs) = held \ ids
  <2>1. \A id \in Ids : after.recs[id] # NoRecord <=> id \notin dropped /\ store.recs[id] # NoRecord
    BY <1>1
  <2> QED
    BY <2>1 DEF Held
<1>5. \A id \in held \ ids : after.recs[id] = store.recs[id]
  BY <1>1, <1>3
<1>6. after.recs \in [Ids -> Slot \cup {NoRecord}]
  BY <1>1, <1>2
<1> HIDE DEF held
<1>7. \A t \in Tokens : after.postings[t] = {id \in Held(after.recs) : t \in after.recs[id].tokens}
  <2> SUFFICES ASSUME NEW t \in Tokens
               PROVE  after.postings[t] = {id \in held \ ids : t \in after.recs[id].tokens}
    BY <1>4
  <2>1. store.postings[t] = {id \in held : t \in store.recs[id].tokens}
    BY DEF Consistent, held
  <2>2. after.postings[t] = store.postings[t] \ {id \in dropped : t \in store.recs[id].tokens}
    BY <1>1
  <2>3. after.postings[t] = {id \in held \ ids : t \in store.recs[id].tokens}
    BY <2>1, <2>2
  <2> QED
    BY <1>5, <2>3
<1>8. after.postings \in [Tokens -> SUBSET Ids]
  <2>1. \A t \in Tokens : store.postings[t] \ {id \in dropped : t \in store.recs[id].tokens} \in SUBSET Ids
    BY <1>2
  <2> QED
    BY <1>1, <2>1
<1>9. /\ IsFiniteSet(Units(after.recs, "length", Held(after.recs)))
      /\ after.total = Cardinality(Units(after.recs, "length", Held(after.recs)))
      /\ after.total \in Nat
  <2>1. Units(after.recs, "length", held \ ids) = Units(store.recs, "length", held \ ids)
    <3>1. \A id \in held \ ids : after.recs[id].length = store.recs[id].length
      BY <1>5
    <3> QED
      BY <3>1, UnitsAlike
  <2>2. held \ ids = held \ dropped /\ dropped \in SUBSET held
    OBVIOUS
  <2>3. IsFiniteSet(Units(store.recs, "length", held)) /\ store.total = Cardinality(Units(store.recs, "length", held))
    BY DEF Consistent, held
  <2> HIDE DEF dropped
  <2>4. /\ IsFiniteSet(Units(store.recs, "length", held \ dropped))
        /\ Cardinality(Units(store.recs, "length", held \ dropped)) =
             Cardinality(Units(store.recs, "length", held)) - Cardinality(Units(store.recs, "length", dropped))
        /\ Cardinality(Units(store.recs, "length", held \ dropped)) \in Nat
    BY <2>2, <2>3, UnitsLeft
  <2> QED
    BY <1>1, <1>4, <2>1, <2>2, <2>3, <2>4
<1>10. \A id \in Held(after.recs) : after.recs[id].place < after.places
  <2>1. \A id \in held : store.recs[id].place < store.places
    BY DEF Consistent, held
  <2> QED
    BY <1>1, <1>4, <1>5, <2>1
<1>11. after \in Store
  BY <1>1, <1>2, <1>6, <1>8, <1>9 DEF Store
<1>12. Consistent(after)
  BY <1>7, <1>9, <1>10, <1>11 DEF Consistent
<1> QED
  BY <1>1, <1>4, <1>5, <1>12 DEF after, held

(* InnerAdd puts the record where it was, or at the end, and adds it to     *)
(* postings and total in place of what was there.                           *)
LEMMA Adds ==
  ASSUME NEW store, Consistent(store), NEW r \in Line
  PROVE  /\ Consistent(InnerAdd(store, r))
         /\ Held(InnerAdd(store, r).recs) = Held(store.recs) \cup {r.id}
         /\ InnerAdd(store, r).recs[r.id] = SlotFor(store, r)
         /\ \A id \in Held(store.recs) \ {r.id} : InnerAdd(store, r).recs[id] = store.recs[id]
<1> DEFINE held  == Held(store.recs)
           rest  == InnerDrop(store, {r.id})
           slot  == SlotFor(store, r)
           after == InnerAdd(store, r)
<1>a. /\ r.id \in Ids /\ r.length \in Nat /\ r.tokens \in SUBSET Tokens /\ r.seq \in Nat
  BY DEF Line
<1>1. /\ after.recs = [store.recs EXCEPT ![r.id] = slot]
      /\ after.places = store.places + (IF r.id \in held THEN 0 ELSE 1)
      /\ after.postings = [t \in Tokens |-> rest.postings[t] \cup (IF t \in r.tokens THEN {r.id} ELSE {})]
      /\ after.total = rest.total + r.length
      /\ after = [recs |-> after.recs, places |-> after.places,
                  postings |-> after.postings, total |-> after.total]
  BY DEF InnerAdd
<1>2. /\ store.recs \in [Ids -> Slot \cup {NoRecord}] /\ store.places \in Nat
      /\ \A id \in held : store.recs[id].place \in Nat /\ store.recs[id].place < store.places
  <2>1. store.recs \in [Ids -> Slot \cup {NoRecord}] /\ store.places \in Nat
    BY DEF Consistent, Store
  <2> QED
    BY <2>1, Slots DEF Consistent
<1>3. /\ slot.length = r.length /\ slot.tokens = r.tokens /\ slot.seq = r.seq
      /\ slot.place = IF r.id \in held THEN store.recs[r.id].place ELSE store.places
      /\ slot \in Slot
  <2>1. (IF r.id \in held THEN store.recs[r.id].place ELSE store.places) \in Nat
    BY <1>2
  <2> QED
    BY <1>a, <2>1 DEF SlotFor, Slot
<1>4. /\ Consistent(rest) /\ Held(rest.recs) = held \ {r.id}
      /\ \A id \in held \ {r.id} : rest.recs[id] = store.recs[id]
  BY Drops
<1> HIDE DEF after, rest, slot
<1>5. after.recs \in [Ids -> Slot \cup {NoRecord}]
  BY <1>1, <1>2, <1>3
<1>6. after.recs[r.id] = slot /\ \A id \in Ids \ {r.id} : after.recs[id] = store.recs[id]
  BY <1>a, <1>1, <1>2
<1>7. Held(after.recs) = held \cup {r.id}
  <2>1. slot # NoRecord
    BY <1>3
  <2> QED
    BY <1>a, <1>6, <2>1 DEF Held
<1>8. \A id \in held \ {r.id} : id \in Ids /\ after.recs[id] = store.recs[id] /\ after.recs[id] = rest.recs[id]
  BY <1>4, <1>6 DEF Held
<1> HIDE DEF held
<1>9. \A t \in Tokens : after.postings[t] = {id \in Held(after.recs) : t \in after.recs[id].tokens}
  <2> SUFFICES ASSUME NEW t \in Tokens
               PROVE  after.postings[t] = {id \in held \cup {r.id} : t \in after.recs[id].tokens}
    BY <1>7
  <2>1. rest.postings[t] = {id \in held \ {r.id} : t \in rest.recs[id].tokens}
    BY <1>4 DEF Consistent
  <2>2. after.postings[t] = rest.postings[t] \cup (IF t \in r.tokens THEN {r.id} ELSE {})
    BY <1>1
  <2>3. t \in after.recs[r.id].tokens <=> t \in r.tokens
    BY <1>3, <1>6
  <2>4. \A id \in held \ {r.id} : t \in after.recs[id].tokens <=> t \in rest.recs[id].tokens
    BY <1>8
  <2> QED
    BY <2>1, <2>2, <2>3, <2>4
<1>10. after.postings \in [Tokens -> SUBSET Ids]
  <2>1. rest.postings \in [Tokens -> SUBSET Ids]
    BY <1>4 DEF Consistent, Store
  <2>2. \A t \in Tokens : rest.postings[t] \cup (IF t \in r.tokens THEN {r.id} ELSE {}) \in SUBSET Ids
    BY <1>a, <2>1
  <2> QED
    BY <1>1, <2>2
<1>11. /\ IsFiniteSet(Units(after.recs, "length", Held(after.recs)))
       /\ after.total = Cardinality(Units(after.recs, "length", Held(after.recs)))
  <2>1. /\ IsFiniteSet(Units(rest.recs, "length", held \ {r.id}))
        /\ rest.total = Cardinality(Units(rest.recs, "length", held \ {r.id}))
    BY <1>4 DEF Consistent
  <2>2. after.recs[r.id].length = r.length /\ after.recs[r.id].length \in Nat
    BY <1>a, <1>3, <1>6
  <2>3. \A id \in held \ {r.id} : after.recs[id].length = rest.recs[id].length
    BY <1>8
  <2>4. r.id \notin held \ {r.id} /\ (held \ {r.id}) \cup {r.id} = held \cup {r.id}
    OBVIOUS
  <2>5. /\ IsFiniteSet(Units(after.recs, "length", (held \ {r.id}) \cup {r.id}))
        /\ Cardinality(Units(after.recs, "length", (held \ {r.id}) \cup {r.id})) =
             Cardinality(Units(rest.recs, "length", held \ {r.id})) + r.length
    <3> DEFINE rid == r.id
               others == held \ {rid}
               recs == after.recs
    <3>1. /\ recs[rid]["length"] = r.length /\ recs[rid]["length"] \in Nat /\ rid \notin others
          /\ \A id \in others : recs[id]["length"] = rest.recs[id]["length"]
      BY <1>a, <2>2, <2>3
    <3>2. IsFiniteSet(Units(rest.recs, "length", others))
      BY <2>1
    <3> HIDE DEF rid, others, recs
    <3>3. Units(recs, "length", others) = Units(rest.recs, "length", others)
      BY <3>1, UnitsAlike
    <3>4. /\ IsFiniteSet(Units(recs, "length", others \cup {rid}))
          /\ Cardinality(Units(recs, "length", others \cup {rid})) =
               Cardinality(Units(recs, "length", others)) + recs[rid]["length"]
      <4>1. IsFiniteSet(Units(recs, "length", others))
        BY <3>2, <3>3
      <4>2. recs[rid]["length"] \in Nat /\ rid \notin others
        BY <3>1
      <4> QED
        BY <4>1, <4>2, UnitsWith, Zenon
    <3>5. /\ IsFiniteSet(Units(recs, "length", others \cup {rid}))
          /\ Cardinality(Units(recs, "length", others \cup {rid})) =
               Cardinality(Units(rest.recs, "length", others)) + r.length
      BY <3>1, <3>3, <3>4, Zenon
    <3> QED
      BY <3>5 DEF rid, others, recs
  <2> QED
    BY <1>1, <1>7, <2>1, <2>2, <2>4, <2>5
<1>12. after.total \in Int
  <2>1. rest.total \in Int
    BY <1>4 DEF Consistent, Store
  <2> QED
    BY <1>a, <1>1, <2>1
<1>13. after.places \in Nat /\ store.places <= after.places /\ (r.id \notin held => store.places < after.places)
  BY <1>1, <1>2
<1>14. ASSUME NEW id \in Held(after.recs) PROVE after.recs[id].place < after.places
  <2>1. CASE id = r.id
    BY <1>2, <1>3, <1>6, <1>13, <2>1
  <2>2. CASE id # r.id
    <3>1. id \in held /\ after.recs[id] = store.recs[id]
      BY <1>7, <1>8, <1>14, <2>2
    <3> QED
      BY <1>2, <1>13, <3>1
  <2> QED
    BY <2>1, <2>2
<1>15. after \in Store
  BY <1>1, <1>5, <1>10, <1>12, <1>13 DEF Store
<1>16. Consistent(after)
  BY <1>9, <1>11, <1>14, <1>15 DEF Consistent
<1> QED
  BY <1>6, <1>7, <1>8, <1>16 DEF after, held, slot

-----------------------------------------------------------------------------
(* The inner store and the gate                                             *)

(* A line, or its slot, that says of a record what the gate keeps of it.    *)
Matches(r, e) == r.length = e.length /\ r.tokens = e.tokens /\ r.seq = e.seq

(* What the inner store has when the evicted records are dropped.           *)
Left == Held(inner.recs) \ gone

HasLine(id) == \E i \in DOMAIN batch : batch[i].id = id
LastLine(i, id) == batch[i].id = id /\ \A j \in DOMAIN batch : batch[j].id = id => j <= i

(* The last line of a record in the batch is what the gate keeps of it.     *)
Pending(id) == HasLine(id) /\ \A i \in DOMAIN batch : LastLine(i, id) => Matches(batch[i], kept[id])

(* The inner store has what the gate keeps of it.                           *)
Present(id) == id \in Left /\ Matches(inner.recs[id], kept[id])

(* The gate counts the words it keeps, and its postings are those of what it*)
(* keeps.                                                                   *)
Stock ==
  /\ IsFiniteSet(Units(kept, "words", Kept))
  /\ stored = Cardinality(Units(kept, "words", Kept))
  /\ policy = "GM" => \A t \in Tokens : post[t] = {id \in Kept : t \in kept[id].tokens}

(* Nothing of a call outlives it.                                           *)
Calls ==
  /\ pc = "idle" => batch = <<>> /\ fresh = {}
  /\ pc \in {"idle", "deliver"} => gone = {}

(* What the gate keeps is in the inner store as it is, or the last of its   *)
(* lines is still to be passed on; the rest is to be dropped.               *)
Agreement ==
  ~failed =>
    /\ fresh \subseteq Kept /\ Left \subseteq Kept
    /\ pc # "deliver" => fresh \cap Left = {}
    /\ \A id \in Kept : \/ id \in fresh /\ Pending(id)
                        \/ Present(id) /\ (id \notin fresh \/ ~HasLine(id))

(* Unless an id came twice in a batch, every line to be passed on is newer  *)
(* than what the inner store has, and its record is not there yet.          *)
Turns ==
  ~failed /\ ~twice =>
    /\ \A i, j \in DOMAIN batch : i < j => batch[i].id # batch[j].id /\ batch[i].seq < batch[j].seq
    /\ \A i \in DOMAIN batch : batch[i].seq < seq
    /\ \A i \in DOMAIN batch : batch[i].id \in fresh => batch[i].id \notin Left
    /\ \A id \in Left, i \in DOMAIN batch : inner.recs[id].seq < batch[i].seq
    /\ \A id, k \in Left : inner.recs[id].seq < inner.recs[k].seq => inner.recs[id].place < inner.recs[k].place

Mirrors == Stock /\ Consistent(inner) /\ Calls /\ Agreement /\ Turns

(* The initial state, and what a reset leaves: nothing in either store.     *)
LEMMA NothingThere ==
  /\ Held(Empty.recs) = {}
  /\ Consistent(Empty)
  /\ \A recs, m : Units(recs, m, {}) = {} /\ IsFiniteSet(Units(recs, m, {})) /\ Cardinality(Units(recs, m, {})) = 0
<1>1. Held(Empty.recs) = {}
  BY DEF Held, Empty
<1>2. \A recs, m : Units(recs, m, {}) = {}
  BY DEF Units
<1>3. IsFiniteSet({}) /\ Cardinality({}) = 0
  BY FS_EmptySet
<1>4. \A recs, m : IsFiniteSet(Units(recs, m, {})) /\ Cardinality(Units(recs, m, {})) = 0
  BY <1>2, <1>3, Zenon
<1>5. Empty \in Store
  BY DEF Empty, Store
<1>6. Empty.total = 0 /\ \A t \in Tokens : Empty.postings[t] = {}
  BY DEF Empty
<1>7. Consistent(Empty)
  BY <1>1, <1>4, <1>5, <1>6 DEF Consistent
<1> QED
  BY <1>1, <1>2, <1>4, <1>7

(* The initial state satisfies it.                                          *)
LEMMA InitMirrors == Init => Mirrors
<1> SUFFICES ASSUME Init PROVE Mirrors
  OBVIOUS
<1>1. Kept = {} /\ inner = Empty /\ batch = <<>> /\ fresh = {} /\ gone = {} /\ stored = 0
      /\ \A t \in Tokens : post[t] = {}
  BY DEF Init, Kept
<1>2. Held(inner.recs) = {} /\ Consistent(inner)
  BY <1>1, NothingThere
<1>3. Left = {}
  BY <1>2 DEF Left
<1>4. IsFiniteSet(Units(kept, "words", Kept)) /\ Cardinality(Units(kept, "words", Kept)) = 0
  BY <1>1, NothingThere
<1>5. Stock
  BY <1>1, <1>4 DEF Stock
<1> QED
  BY <1>1, <1>2, <1>3, <1>5 DEF Mirrors, Calls, Agreement, Turns

(* The gate keeps count of its words and its postings.                      *)
LEMMA StockStep == TypeOK /\ Order /\ Stock /\ [Next]_vars => Stock'
<1> SUFFICES ASSUME TypeOK, Order, Stock, [Next]_vars PROVE Stock'
  OBVIOUS
<1>a. policy' = policy
  BY PolicyStands
<1>1. ASSUME NEW id \in Ids, NEW words \in Sizes, NEW length \in Lengths, NEW ts \in Times,
             NEW tokens \in SUBSET Tokens, NEW w \in Weights, NEW draw \in Draws,
             Admit(id, words, length, ts, tokens, w, draw)
      PROVE  Stock'
  <2>1. Admits(id, words, length, ts, tokens)
    BY <1>1, AdmitEffect
  <2>2. /\ id \notin Kept /\ Kept' = Kept \cup {id} /\ words \in Nat
        /\ kept'[id].words = words /\ kept'[id].tokens = tokens
        /\ \A k \in Kept : kept'[k].words = kept[k].words /\ kept'[k].tokens = kept[k].tokens
    BY <2>1 DEF Admits
  <2>3. stored' = stored + words /\ post' = [t \in Tokens |-> post[t] \cup (IF policy = "GM" /\ t \in tokens THEN {id} ELSE {})]
    BY <1>1 DEF Admit
  <2>4. IsFiniteSet(Units(kept, "words", Kept)) /\ stored = Cardinality(Units(kept, "words", Kept))
    BY DEF Stock
  <2>5. /\ IsFiniteSet(Units(kept', "words", Kept \cup {id}))
        /\ Cardinality(Units(kept', "words", Kept \cup {id})) = Cardinality(Units(kept, "words", Kept)) + words
    <3>1. kept'[id]["words"] = words /\ kept'[id]["words"] \in Nat
          /\ \A k \in Kept : kept'[k]["words"] = kept[k]["words"]
      BY <2>2
    <3>2. Units(kept', "words", Kept) = Units(kept, "words", Kept)
      BY <3>1, UnitsAlike
    <3>3. /\ id \notin Kept /\ kept'[id]["words"] \in Nat
          /\ IsFiniteSet(Units(kept', "words", Kept))
      BY <2>2, <2>4, <3>1, <3>2
    <3>4. /\ IsFiniteSet(Units(kept', "words", Kept \cup {id}))
          /\ Cardinality(Units(kept', "words", Kept \cup {id})) =
               Cardinality(Units(kept', "words", Kept)) + kept'[id]["words"]
      BY <3>3, UnitsWith, Zenon
    <3> QED
      BY <3>1, <3>2, <3>4, Zenon
  <2>6. ASSUME policy = "GM", NEW t \in Tokens PROVE post'[t] = {k \in Kept' : t \in kept'[k].tokens}
    <3>1. post[t] = {k \in Kept : t \in kept[k].tokens}
      BY <2>6 DEF Stock
    <3>2. post'[t] = post[t] \cup (IF t \in tokens THEN {id} ELSE {})
      BY <2>3, <2>6
    <3> QED
      BY <2>2, <3>1, <3>2
  <2> QED
    BY <1>a, <2>2, <2>3, <2>4, <2>5, <2>6 DEF Stock
<1>2. CASE Evict
  <2>1. PICK x \in heap : Evicts(x) /\ post' = PostWithout(x.id)
    BY <1>2, EvictEffect
  <2>2. /\ x.id \in Kept /\ Kept' = Kept \ {x.id} /\ \A k \in Kept' : kept'[k] = kept[k]
        /\ stored' = stored - kept[x.id].words /\ kept[x.id].words \in Nat
    BY <2>1 DEF Evicts, TypeOK, Kept, Entry
  <2>3. IsFiniteSet(Units(kept, "words", Kept)) /\ stored = Cardinality(Units(kept, "words", Kept))
    BY DEF Stock
  <2>4. {x.id} \in SUBSET Kept
    BY <2>2
  <2>5. Units(kept', "words", Kept \ {x.id}) = Units(kept, "words", Kept \ {x.id})
    <3>1. \A k \in Kept \ {x.id} : kept'[k].words = kept[k].words
      BY <2>2
    <3> QED
      BY <3>1, UnitsAlike
  <2>6. /\ IsFiniteSet(Units(kept, "words", Kept \ {x.id}))
        /\ Cardinality(Units(kept, "words", Kept \ {x.id})) =
             Cardinality(Units(kept, "words", Kept)) - Cardinality(Units(kept, "words", {x.id}))
    BY <2>3, <2>4, UnitsLeft
  <2>7. Cardinality(Units(kept, "words", {x.id})) = kept[x.id].words
    BY <2>2, UnitsOfOne
  <2>8. ASSUME policy = "GM", NEW t \in Tokens PROVE post'[t] = {k \in Kept' : t \in kept'[k].tokens}
    <3>1. post[t] = {k \in Kept : t \in kept[k].tokens}
      BY <2>8 DEF Stock
    <3>2. post'[t] = post[t] \ {x.id}
      BY <2>1, <2>8 DEF PostWithout
    <3> QED
      BY <2>2, <3>1, <3>2
  <2> QED
    BY <1>a, <2>2, <2>3, <2>5, <2>6, <2>7, <2>8 DEF Stock
<1>3. CASE Reset
  <2>1. Kept' = {} /\ stored' = 0 /\ \A t \in Tokens : post'[t] = {}
    BY <1>3 DEF Reset, Kept
  <2>2. IsFiniteSet(Units(kept', "words", Kept')) /\ Cardinality(Units(kept', "words", Kept')) = 0
    BY <2>1, NothingThere
  <2> QED
    BY <2>1, <2>2 DEF Stock
<1>4. CASE UNCHANGED <<stored, kept, post>>
  <2>1. Kept' = Kept
    BY <1>4 DEF Kept
  <2> QED
    BY <1>a, <1>4, <2>1 DEF Stock
<1> QED
  BY <1>1, <1>2, <1>3, <1>4, DeliverEffect DEF Next, Start, Fits, Duplicate, Refuse, vars, gateVars

(* Only the delivery and a reset touch the inner store.                     *)
LEMMA InnerStands == [Next]_vars => Deliver \/ Pass \/ Reset \/ inner' = inner
<1>1. ASSUME NEW id \in Ids, NEW words \in Sizes, NEW length \in Lengths, NEW ts \in Times,
             NEW tokens \in SUBSET Tokens, NEW w \in Weights, NEW draw \in Draws,
             Admit(id, words, length, ts, tokens, w, draw)
      PROVE  inner' = inner
  BY <1>1 DEF Admit
<1>2. ASSUME NEW id \in Ids, NEW ts \in Times, Duplicate(id, ts) PROVE inner' = inner
  BY <1>2 DEF Duplicate
<1>3. ASSUME NEW ts \in Times, Refuse(ts) PROVE inner' = inner
  BY <1>3 DEF Refuse
<1>4. CASE Start \/ Evict \/ Fits \/ Return \/ UNCHANGED vars
  BY <1>4 DEF Start, Evict, Fits, Return, vars
<1> QED
  BY <1>1, <1>2, <1>3, <1>4 DEF Next

(* The inner store keeps its postings, its total and its places.            *)
LEMMA InnerStep == TypeOK /\ Consistent(inner) /\ [Next]_vars => Consistent(inner')
<1> SUFFICES ASSUME TypeOK, Consistent(inner), [Next]_vars PROVE Consistent(inner')
  OBVIOUS
<1>1. CASE Deliver
  BY <1>1, Drops DEF Deliver
<1>2. CASE Pass
  <2>1. Head(batch) \in Line
    BY <1>2 DEF Pass, TypeOK
  <2> QED
    BY <1>2, <2>1, Adds DEF Pass
<1>3. CASE Reset
  BY <1>3, NothingThere DEF Reset
<1>4. CASE inner' = inner
  BY <1>4
<1> QED
  BY <1>1, <1>2, <1>3, <1>4, InnerStands

(* A call leaves nothing of itself.                                         *)
LEMMA CallsStep == Calls /\ [Next]_vars => Calls'
<1> SUFFICES ASSUME Calls, [Next]_vars PROVE Calls'
  OBVIOUS
<1> USE DEF Calls
<1>1. ASSUME NEW id \in Ids, NEW words \in Sizes, NEW length \in Lengths, NEW ts \in Times,
             NEW tokens \in SUBSET Tokens, NEW w \in Weights, NEW draw \in Draws,
             Admit(id, words, length, ts, tokens, w, draw)
      PROVE  Calls'
  BY <1>1 DEF Admit
<1>2. ASSUME NEW id \in Ids, NEW ts \in Times, Duplicate(id, ts) PROVE Calls'
  BY <1>2 DEF Duplicate
<1>3. ASSUME NEW ts \in Times, Refuse(ts) PROVE Calls'
  BY <1>3 DEF Refuse, callVars
<1>4. CASE Start \/ Evict \/ Fits
  BY <1>4 DEF Start, Evict, Fits
<1>5. CASE Deliver \/ Pass \/ Return
  BY <1>5 DEF Deliver, Pass, Return
<1>6. CASE Reset \/ UNCHANGED vars
  BY <1>6 DEF Reset, vars, callVars
<1> QED
  BY <1>1, <1>2, <1>3, <1>4, <1>5, <1>6 DEF Next

(* What is left of a batch when its first line was passed on.               *)
LEMMA TailLines ==
  ASSUME NEW s \in Seq(Line), s # <<>>
  PROVE  /\ Head(s) = s[1] /\ Head(s) \in Line /\ 1 \in DOMAIN s /\ DOMAIN s = 1 .. Len(s)
         /\ Tail(s) \in Seq(Line) /\ DOMAIN Tail(s) = 1 .. (Len(s) - 1)
         /\ \A i \in DOMAIN Tail(s) : i \in Nat /\ i + 1 \in DOMAIN s /\ Tail(s)[i] = s[i + 1]
         /\ \A i \in DOMAIN s : i = 1 \/ (i - 1 \in DOMAIN Tail(s) /\ Tail(s)[i - 1] = s[i])
<1>1. Len(s) \in Nat /\ Len(s) # 0 /\ DOMAIN s = 1 .. Len(s)
  OBVIOUS
<1>2. Head(s) = s[1] /\ Head(s) \in Line
  OBVIOUS
<1>3. Tail(s) \in Seq(Line) /\ Len(Tail(s)) = Len(s) - 1 /\ DOMAIN Tail(s) = 1 .. (Len(s) - 1)
  BY <1>1
<1>4. \A i \in 1 .. (Len(s) - 1) : Tail(s)[i] = s[i + 1]
  BY <1>1
<1>5. \A i \in 1 .. (Len(s) - 1) : i \in Nat /\ i + 1 \in 1 .. Len(s)
  BY <1>1
<1>6. \A i \in 1 .. Len(s) : i = 1 \/ (i - 1 \in 1 .. (Len(s) - 1) /\ s[i - 1 + 1] = s[i])
  BY <1>1
<1> QED
  BY <1>1, <1>2, <1>3, <1>4, <1>5, <1>6

(* What there is in a batch when a line has come.                           *)
LEMMA MoreLines ==
  ASSUME NEW s \in Seq(Line), NEW r \in Line
  PROVE  /\ DOMAIN s = 1 .. Len(s) /\ Len(s) \in Nat
         /\ DOMAIN Append(s, r) = 1 .. (Len(s) + 1)
         /\ Append(s, r)[Len(s) + 1] = r
         /\ \A i \in DOMAIN s : i \in DOMAIN Append(s, r) /\ Append(s, r)[i] = s[i] /\ i < Len(s) + 1
         /\ \A i \in DOMAIN Append(s, r) : i \in DOMAIN s \/ i = Len(s) + 1
  OBVIOUS

(* A new record is pending under its own line.                              *)
LEMMA AdmitPending ==
  ASSUME TypeOK, NEW id, NEW r \in Line, batch' = Append(batch, r), r.id = id, Matches(r, kept'[id])
  PROVE  Pending(id)'
<1>1. batch \in Seq(Line)
  BY DEF TypeOK
<1>2. /\ Len(batch) + 1 \in DOMAIN batch' /\ batch'[Len(batch) + 1] = r /\ Len(batch) \in Nat
      /\ DOMAIN batch' = 1 .. (Len(batch) + 1)
  BY <1>1, MoreLines
<1>3. HasLine(id)'
  BY <1>2 DEF HasLine
<1>4. ASSUME NEW i \in DOMAIN batch', LastLine(i, id)' PROVE i = Len(batch) + 1
  <2>1. Len(batch) + 1 <= i
    BY <1>2, <1>4 DEF LastLine
  <2> QED
    BY <1>2, <1>4, <2>1
<1> QED
  BY <1>2, <1>3, <1>4 DEF Pending

(* Another one is as it was.                                                *)
LEMMA AdmitOthers ==
  ASSUME TypeOK, NEW k, NEW r \in Line, batch' = Append(batch, r), r.id # k,
         \A e : Matches(e, kept[k]) => Matches(e, kept'[k])
  PROVE  (HasLine(k)' <=> HasLine(k)) /\ (Pending(k) => Pending(k)')
<1>1. batch \in Seq(Line)
  BY DEF TypeOK
<1>2. /\ \A i \in DOMAIN batch : i \in DOMAIN batch' /\ batch'[i] = batch[i]
      /\ \A i \in DOMAIN batch' : i \in DOMAIN batch \/ batch'[i] = r
  BY <1>1, MoreLines
<1>3. HasLine(k)' <=> HasLine(k)
  BY <1>2 DEF HasLine
<1>4. ASSUME NEW i \in DOMAIN batch', LastLine(i, k)' PROVE i \in DOMAIN batch /\ LastLine(i, k)
  BY <1>2, <1>4 DEF LastLine
<1>5. ASSUME Pending(k), NEW i \in DOMAIN batch', LastLine(i, k)' PROVE Matches(batch'[i], kept'[k])
  <2>1. Matches(batch[i], kept[k])
    BY <1>4, <1>5 DEF Pending
  <2> QED
    BY <1>2, <1>4, <1>5, <2>1
<1> QED
  BY <1>3, <1>5 DEF Pending

(* When a line is passed on, the lines of every record but that one's stay, *)
(* and the last line of a record stays unless it is the only one left.      *)
LEMMA PassLines ==
  ASSUME TypeOK, NEW k, batch # <<>>, batch' = Tail(batch), kept' = kept
  PROVE  /\ HasLine(k)' => HasLine(k)
         /\ k # Head(batch).id => (HasLine(k) => HasLine(k)')
         /\ Pending(k) /\ HasLine(k)' => Pending(k)'
         /\ Pending(k) /\ ~HasLine(k)' /\ k = Head(batch).id => Matches(Head(batch), kept[k])
<1>1. batch \in Seq(Line)
  BY DEF TypeOK
<1> DEFINE n == Len(batch)
<1>2. /\ Head(batch) = batch[1] /\ 1 \in DOMAIN batch /\ DOMAIN batch = 1 .. n
      /\ \A i \in DOMAIN batch' : i \in Nat /\ i + 1 \in DOMAIN batch /\ batch'[i] = batch[i + 1]
      /\ \A i \in DOMAIN batch : i = 1 \/ (i - 1 \in DOMAIN batch' /\ batch'[i - 1] = batch[i])
  BY <1>1, TailLines
<1>3. HasLine(k)' => HasLine(k)
  BY <1>2 DEF HasLine
<1>4. k # Head(batch).id => (HasLine(k) => HasLine(k)')
  BY <1>2 DEF HasLine
<1>5. ASSUME NEW i \in DOMAIN batch', LastLine(i, k)' PROVE LastLine(i + 1, k)
  <2>1. batch[i + 1].id = k
    BY <1>2, <1>5 DEF LastLine
  <2>2. ASSUME NEW j \in DOMAIN batch, batch[j].id = k PROVE j <= i + 1
    <3>1. CASE j = 1
      BY <1>2, <3>1
    <3>2. CASE j # 1
      <4>1. j - 1 \in DOMAIN batch' /\ batch'[j - 1].id = k
        BY <1>2, <2>2, <3>2
      <4>2. j - 1 <= i
        BY <1>5, <4>1 DEF LastLine
      <4>3. j \in Nat /\ i \in Nat
        BY <1>2
      <4> QED
        BY <4>2, <4>3
    <3> QED
      BY <3>1, <3>2
  <2> QED
    BY <2>1, <2>2 DEF LastLine
<1>6. ASSUME Pending(k), HasLine(k)' PROVE Pending(k)'
  <2>1. ASSUME NEW i \in DOMAIN batch', LastLine(i, k)' PROVE Matches(batch'[i], kept'[k])
    <3>1. i + 1 \in DOMAIN batch /\ LastLine(i + 1, k) /\ batch'[i] = batch[i + 1]
      BY <1>2, <1>5, <2>1
    <3>2. Matches(batch[i + 1], kept[k])
      BY <1>6, <3>1 DEF Pending
    <3> QED
      BY <3>1, <3>2
  <2> QED
    BY <1>6, <2>1 DEF Pending
<1>7. ASSUME Pending(k), ~HasLine(k)', k = Head(batch).id PROVE Matches(Head(batch), kept[k])
  <2>1. \A j \in DOMAIN batch : batch[j].id = k => j = 1
    BY <1>2, <1>7 DEF HasLine
  <2>2. LastLine(1, k)
    BY <1>2, <1>7, <2>1 DEF LastLine
  <2> QED
    BY <1>2, <1>7, <2>2 DEF Pending
<1> QED
  BY <1>3, <1>4, <1>6, <1>7

(* What the delivery does to the inner store.                               *)
LEMMA PassEffect ==
  ASSUME TypeOK, Consistent(inner), Calls, Pass
  PROVE  /\ Head(batch) \in Line
         /\ IF Head(batch).id \in fresh
              THEN /\ Left' = Left \cup {Head(batch).id}
                   /\ inner'.recs[Head(batch).id] = SlotFor(inner, Head(batch))
                   /\ \A k \in Left \ {Head(batch).id} : inner'.recs[k] = inner.recs[k]
              ELSE Left' = Left /\ inner' = inner
         /\ gone = {} /\ gone' = {}
<1>1. Head(batch) \in Line
  BY TailLines DEF Pass, TypeOK
<1>2. gone = {} /\ gone' = {}
  BY DEF Pass, Calls
<1>3. Left = Held(inner.recs) /\ Left' = Held(inner'.recs)
  BY <1>2 DEF Left
<1>4. CASE Head(batch).id \in fresh
  <2>1. inner' = InnerAdd(inner, Head(batch))
    BY <1>4 DEF Pass
  <2> QED
    BY <1>1, <1>2, <1>3, <1>4, <2>1, Adds
<1>5. CASE Head(batch).id \notin fresh
  BY <1>1, <1>2, <1>3, <1>5 DEF Pass
<1> QED
  BY <1>4, <1>5

(* Deliver drops what is gone and nothing else.                             *)
LEMMA DropEffect ==
  ASSUME Consistent(inner), Deliver
  PROVE  Left' = Left /\ \A k \in Left : inner'.recs[k] = inner.recs[k]
<1>1. inner' = InnerDrop(inner, gone) /\ gone' = {}
  BY DEF Deliver
<1>2. Held(inner'.recs) = Held(inner.recs) \ gone /\ \A k \in Held(inner.recs) \ gone : inner'.recs[k] = inner.recs[k]
  BY <1>1, Drops
<1> QED
  BY <1>1, <1>2 DEF Left

(* Only a reset makes good a call that raised.                              *)
LEMMA FailedStands == [Next]_vars => (failed => failed' \/ Reset)
<1>1. ASSUME NEW id \in Ids, NEW words \in Sizes, NEW length \in Lengths, NEW ts \in Times,
             NEW tokens \in SUBSET Tokens, NEW w \in Weights, NEW draw \in Draws,
             Admit(id, words, length, ts, tokens, w, draw)
      PROVE  failed' = failed
  BY <1>1 DEF Admit
<1>2. ASSUME NEW ts \in Times, Refuse(ts) PROVE failed' = failed
  BY <1>2 DEF Refuse
<1>3. CASE Deliver \/ Pass \/ Return
  BY <1>3 DEF Deliver, Pass, Return
<1>4. CASE Start \/ Evict \/ Fits \/ UNCHANGED vars
  BY <1>4 DEF Start, Evict, Fits, vars
<1>5. ASSUME NEW id \in Ids, NEW ts \in Times, Duplicate(id, ts) PROVE failed'
  BY <1>5 DEF Duplicate
<1> QED
  BY <1>1, <1>2, <1>3, <1>4, <1>5 DEF Next

(* A reset leaves nothing to agree about.                                   *)
LEMMA ResetEffect ==
  ASSUME Calls, Reset
  PROVE  Kept' = {} /\ Left' = {} /\ batch' = <<>> /\ fresh' = {}
<1>1. Kept' = {} /\ inner' = Empty /\ batch' = <<>> /\ fresh' = {}
  BY DEF Reset, Calls, Kept, callVars
<1>2. Held(inner'.recs) = {}
  BY <1>1, NothingThere
<1> QED
  BY <1>1, <1>2 DEF Left

(* What the gate keeps is passed on, what it evicted is dropped.            *)
LEMMA AgreementStep ==
  TypeOK /\ Order /\ Consistent(inner) /\ Calls /\ Agreement /\ [Next]_vars => Agreement'
<1> SUFFICES ASSUME TypeOK, Order, Consistent(inner), Calls, Agreement, [Next]_vars, ~failed'
             PROVE  Agreement'
  BY DEF Agreement
<1>1. CASE Reset
  BY <1>1, ResetEffect DEF Agreement
<1>2. CASE ~failed
  <2>a. /\ fresh \subseteq Kept /\ Left \subseteq Kept
        /\ pc # "deliver" => fresh \cap Left = {}
        /\ \A k \in Kept : \/ k \in fresh /\ Pending(k)
                           \/ Present(k) /\ (k \notin fresh \/ ~HasLine(k))
    BY <1>2 DEF Agreement
  <2>1. ASSUME NEW id \in Ids, NEW words \in Sizes, NEW length \in Lengths, NEW ts \in Times,
               NEW tokens \in SUBSET Tokens, NEW w \in Weights, NEW draw \in Draws,
               Admit(id, words, length, ts, tokens, w, draw)
        PROVE  Agreement'
    <3> DEFINE r == [id |-> id, length |-> length, tokens |-> tokens, seq |-> seq]
    <3>1. Admits(id, words, length, ts, tokens)
      BY <2>1, AdmitEffect
    <3>2. /\ id \notin Kept /\ Kept' = Kept \cup {id}
          /\ kept'[id].length = length /\ kept'[id].tokens = tokens /\ kept'[id].seq = seq
          /\ \A k \in Kept : /\ kept'[k].words = kept[k].words /\ kept'[k].length = kept[k].length
                             /\ kept'[k].tokens = kept[k].tokens
                             /\ kept'[k].seq = kept[k].seq
      BY <3>1 DEF Admits
    <3>3. /\ batch' = Append(batch, r) /\ fresh' = fresh \cup {id} /\ UNCHANGED <<gone, inner>>
          /\ pc = "loop"
      BY <2>1 DEF Admit
    <3>4. r \in Line /\ r.id = id /\ r.length = length /\ r.tokens = tokens /\ r.seq = seq
      BY DEF TypeOK, Line
    <3> HIDE DEF r
    <3>5. Left' = Left
      BY <3>3 DEF Left
    <3>6. Matches(r, kept'[id])
      BY <3>2, <3>4 DEF Matches
    <3>7. Pending(id)'
      BY <3>3, <3>4, <3>6, AdmitPending
    <3>8. ASSUME NEW k \in Kept
          PROVE  \/ k \in fresh' /\ Pending(k)'
                 \/ Present(k)' /\ (k \notin fresh' \/ ~HasLine(k)')
      <4>1. k # id /\ \A e : Matches(e, kept[k]) => Matches(e, kept'[k])
        BY <3>2 DEF Matches
      <4>2. (HasLine(k)' <=> HasLine(k)) /\ (Pending(k) => Pending(k)')
        BY <3>3, <3>4, <4>1, AdmitOthers
      <4>3. Present(k) => Present(k)'
        BY <3>3, <3>5, <4>1 DEF Present
      <4> QED
        BY <2>a, <3>3, <4>1, <4>2, <4>3
    <3> QED
      BY <2>a, <3>2, <3>3, <3>5, <3>7, <3>8 DEF Agreement
  <2>2. CASE Evict
    <3>1. PICK x \in heap : /\ Evicts(x) /\ fresh' = fresh \ {x.id}
                            /\ gone' = IF x.id \in fresh THEN gone ELSE gone \cup {x.id}
      BY <2>2, EvictEffect
    <3>2. /\ x.id \in Kept /\ Kept' = Kept \ {x.id} /\ \A k \in Kept' : kept'[k] = kept[k]
      BY <3>1 DEF Evicts, TypeOK, Kept
    <3>3. UNCHANGED <<pc, batch, inner>> /\ pc = "evict"
      BY <2>2 DEF Evict
    <3>4. Left' = Left \ {x.id}
      BY <2>a, <3>1, <3>3 DEF Left
    <3>5. ASSUME NEW k \in Kept'
          PROVE  (HasLine(k)' <=> HasLine(k)) /\ (Pending(k) => Pending(k)') /\ (Present(k) => Present(k)')
      BY <3>2, <3>3, <3>4 DEF HasLine, Pending, LastLine, Present
    <3> QED
      BY <2>a, <3>1, <3>2, <3>3, <3>4, <3>5 DEF Agreement
  <2>3. CASE Deliver
    <3>1. Left' = Left /\ \A k \in Left : inner'.recs[k] = inner.recs[k]
      BY <2>3, DropEffect
    <3>2. UNCHANGED <<kept, batch, fresh>> /\ pc' = "deliver"
      BY <2>3 DEF Deliver, gateVars
    <3>3. Kept' = Kept
      BY <3>2 DEF Kept
    <3>4. ASSUME NEW k \in Kept
          PROVE  (HasLine(k)' <=> HasLine(k)) /\ (Pending(k) => Pending(k)') /\ (Present(k) => Present(k)')
      BY <3>1, <3>2 DEF HasLine, Pending, LastLine, Present
    <3> QED
      BY <2>a, <3>1, <3>2, <3>3, <3>4 DEF Agreement
  <2>4. CASE Pass
    <3> DEFINE r == Head(batch)
    <3>1. /\ batch # <<>> /\ batch' = Tail(batch) /\ UNCHANGED <<pc, kept, fresh>>
          /\ pc = "deliver"
      BY <2>4 DEF Pass, gateVars
    <3>2. Kept' = Kept
      BY <3>1 DEF Kept
    <3>3. IF r.id \in fresh
            THEN /\ Left' = Left \cup {r.id}
                 /\ inner'.recs[r.id] = SlotFor(inner, r)
                 /\ \A k \in Left \ {r.id} : inner'.recs[k] = inner.recs[k]
            ELSE Left' = Left /\ inner' = inner
      BY <2>4, PassEffect
    <3>4. HasLine(r.id)
      <4>1. batch \in Seq(Line)
        BY DEF TypeOK
      <4>2. r = batch[1] /\ 1 \in DOMAIN batch
        BY <3>1, <4>1, TailLines
      <4> QED
        BY <4>2 DEF HasLine
    <3> HIDE DEF r
    <3>5. ASSUME NEW k \in Kept
          PROVE  \/ k \in fresh' /\ Pending(k)'
                 \/ Present(k)' /\ (k \notin fresh' \/ ~HasLine(k)')
      <4>1. /\ HasLine(k)' => HasLine(k)
            /\ k # r.id => (HasLine(k) => HasLine(k)')
            /\ Pending(k) /\ HasLine(k)' => Pending(k)'
            /\ Pending(k) /\ ~HasLine(k)' /\ k = r.id => Matches(r, kept[k])
        BY <3>1, PassLines DEF r
      <4>2. CASE k = r.id /\ k \in fresh
        <5>1. Pending(k)
          BY <2>a, <3>4, <4>2
        <5>2. CASE HasLine(k)'
          BY <3>1, <4>1, <4>2, <5>1, <5>2
        <5>3. CASE ~HasLine(k)'
          <6>1. Matches(SlotFor(inner, r), kept[k])
            BY <4>1, <4>2, <5>1, <5>3 DEF Matches, SlotFor
          <6>2. Present(k)'
            BY <3>1, <3>3, <4>2, <6>1 DEF Present
          <6> QED
            BY <5>3, <6>2
        <5> QED
          BY <5>2, <5>3
      <4>3. CASE ~(k = r.id /\ k \in fresh)
        <5>1. Present(k) => Present(k)'
          <6>1. k \in Left => k \in Left' /\ inner'.recs[k] = inner.recs[k]
            BY <3>3, <4>3
          <6> QED
            BY <3>1, <6>1 DEF Present
        <5>2. k \in fresh /\ Pending(k) => Pending(k)'
          BY <4>1, <4>3 DEF Pending
        <5> QED
          BY <2>a, <3>1, <4>1, <5>1, <5>2
      <4> QED
        BY <4>2, <4>3
    <3> QED
      BY <2>a, <3>1, <3>2, <3>3, <3>5 DEF Agreement
  <2>5. CASE Return
    <3>1. UNCHANGED <<kept, batch, inner, gone>> /\ batch = <<>> /\ fresh' = {}
      BY <2>5 DEF Return, gateVars
    <3>2. Kept' = Kept /\ Left' = Left
      BY <3>1 DEF Kept, Left
    <3>3. \A k : ~HasLine(k)
      BY <3>1 DEF HasLine
    <3>4. ASSUME NEW k \in Kept PROVE Present(k)'
      <4>1. Present(k)
        BY <2>a, <3>3 DEF Pending
      <4> QED
        BY <3>1, <3>2, <4>1 DEF Present
    <3> QED
      BY <2>a, <3>1, <3>2, <3>4 DEF Agreement
  <2>6. CASE UNCHANGED <<kept, batch, fresh, gone, inner>> /\ (pc = "deliver" => pc' = pc)
    <3>1. /\ Kept' = Kept /\ Left' = Left
          /\ \A k : (HasLine(k)' <=> HasLine(k)) /\ (Pending(k)' <=> Pending(k)) /\ (Present(k)' <=> Present(k))
      BY <2>6 DEF Kept, Left, HasLine, Pending, LastLine, Present
    <3> QED
      BY <2>a, <2>6, <3>1 DEF Agreement
  <2>7. ASSUME NEW id \in Ids, NEW ts \in Times, Duplicate(id, ts) PROVE FALSE
    BY <2>7 DEF Duplicate
  <2>8. ASSUME NEW ts \in Times, Refuse(ts) PROVE Agreement'
    BY <2>6, <2>8 DEF Refuse, callVars
  <2>9. CASE Start \/ Fits \/ UNCHANGED vars
    BY <2>6, <2>9 DEF Start, Fits, vars, gateVars, callVars
  <2> QED
    BY <1>1, <2>1, <2>2, <2>3, <2>4, <2>5, <2>7, <2>8, <2>9 DEF Next
<1> QED
  BY <1>1, <1>2, FailedStands

(* Only a reset forgets that an id came twice.                              *)
LEMMA TwiceStands == [Next]_vars => (twice => twice' \/ Reset)
<1>1. ASSUME NEW id \in Ids, NEW words \in Sizes, NEW length \in Lengths, NEW ts \in Times,
             NEW tokens \in SUBSET Tokens, NEW w \in Weights, NEW draw \in Draws,
             Admit(id, words, length, ts, tokens, w, draw), twice
      PROVE  twice'
  BY <1>1 DEF Admit
<1>2. ASSUME NEW ts \in Times, Refuse(ts) PROVE twice' = twice
  BY <1>2 DEF Refuse
<1>3. CASE Deliver \/ Pass \/ Return
  BY <1>3 DEF Deliver, Pass, Return
<1>4. CASE Start \/ Evict \/ Fits \/ UNCHANGED vars
  BY <1>4 DEF Start, Evict, Fits, vars
<1>5. ASSUME NEW id \in Ids, NEW ts \in Times, Duplicate(id, ts) PROVE twice' = twice
  BY <1>5 DEF Duplicate
<1> QED
  BY <1>1, <1>2, <1>3, <1>4, <1>5 DEF Next

(* Outside the delivery, what is left in the inner store is older than what *)
(* is yet to come.                                                          *)
LEMMA LeftIsOld ==
  ASSUME TypeOK, Order, Agreement, ~failed, pc # "deliver", NEW k \in Left
  PROVE  k \in Kept /\ inner.recs[k].seq < seq
<1>1. k \in Kept /\ k \notin fresh
  BY DEF Agreement
<1>2. Matches(inner.recs[k], kept[k])
  BY <1>1 DEF Agreement, Present
<1> QED
  BY <1>1, <1>2 DEF Matches, Order, Arrivals

(* The lines of a batch reach the inner store in the order of arrival.      *)
LEMMA TurnsStep ==
  TypeOK /\ Order /\ Consistent(inner) /\ Calls /\ Agreement /\ Turns /\ [Next]_vars => Turns'
<1> SUFFICES ASSUME TypeOK, Order, Consistent(inner), Calls, Agreement, Turns, [Next]_vars, ~failed', ~twice'
             PROVE  Turns'
  BY DEF Turns
<1>1. CASE Reset
  <2>1. Left' = {} /\ batch' = <<>>
    BY <1>1, ResetEffect
  <2> QED
    BY <2>1 DEF Turns
<1>2. CASE ~failed /\ ~twice
  <2>a. /\ \A i, j \in DOMAIN batch : i < j => batch[i].id # batch[j].id /\ batch[i].seq < batch[j].seq
        /\ \A i \in DOMAIN batch : batch[i].seq < seq
        /\ \A i \in DOMAIN batch : batch[i].id \in fresh => batch[i].id \notin Left
        /\ \A id \in Left, i \in DOMAIN batch : inner.recs[id].seq < batch[i].seq
        /\ \A id, k \in Left : inner.recs[id].seq < inner.recs[k].seq => inner.recs[id].place < inner.recs[k].place
    BY <1>2 DEF Turns
  <2>b. /\ batch \in Seq(Line) /\ seq \in Nat /\ \A i \in DOMAIN batch : i \in Nat /\ batch[i].seq \in Nat
        /\ DOMAIN batch = 1 .. Len(batch)
    <3>1. batch \in Seq(Line) /\ seq \in Nat
      BY DEF TypeOK
    <3>2. \A i \in DOMAIN batch : i \in Nat /\ batch[i] \in Line
      BY <3>1
    <3>3. \A x \in Line : x.seq \in Nat
      BY DEF Line
    <3> QED
      BY <3>1, <3>2, <3>3
  <2>c. /\ \A k \in Left : /\ inner.recs[k].seq \in Nat /\ inner.recs[k].place \in Nat
                           /\ inner.recs[k].place < inner.places
        /\ inner.places \in Nat
    BY Slots DEF Consistent, Store, Left
  <2>1. ASSUME NEW id \in Ids, NEW words \in Sizes, NEW length \in Lengths, NEW ts \in Times,
               NEW tokens \in SUBSET Tokens, NEW w \in Weights, NEW draw \in Draws,
               Admit(id, words, length, ts, tokens, w, draw)
        PROVE  Turns'
    <3> DEFINE r == [id |-> id, length |-> length, tokens |-> tokens, seq |-> seq]
               n == Len(batch) + 1
    <3>1. /\ batch' = Append(batch, r) /\ fresh' = fresh \cup {id} /\ UNCHANGED <<gone, inner>>
          /\ pc = "loop" /\ seq' = seq + 1 /\ id \notin Kept
      BY <2>1 DEF Admit
    <3>2. \A i \in DOMAIN batch : batch[i].id # id
      BY <2>1 DEF Admit
    <3>3. r \in Line /\ r.id = id /\ r.seq = seq
      BY DEF TypeOK, Line
    <3> HIDE DEF r
    <3>4. Left' = Left
      BY <3>1 DEF Left
    <3>5. /\ batch'[n] = r /\ n \in Nat
          /\ \A i \in DOMAIN batch : batch'[i] = batch[i] /\ i < n
          /\ \A i \in DOMAIN batch' : i \in DOMAIN batch \/ i = n
      BY <2>b, <3>1, <3>3, MoreLines
    <3> HIDE DEF n
    <3>6. \A k \in Left : k # id /\ inner.recs[k].seq < seq
      BY <1>2, <3>1, LeftIsOld
    <3>7. \A i, j \in DOMAIN batch' : i < j => batch'[i].id # batch'[j].id /\ batch'[i].seq < batch'[j].seq
      <4> SUFFICES ASSUME NEW i \in DOMAIN batch', NEW j \in DOMAIN batch', i < j
                   PROVE  batch'[i].id # batch'[j].id /\ batch'[i].seq < batch'[j].seq
        OBVIOUS
      <4>1. CASE i = n
        <5>1. j = n \/ (j < n /\ j \in Nat)
          BY <2>b, <3>5
        <5> QED
          BY <3>5, <4>1, <5>1
      <4>2. CASE i \in DOMAIN batch /\ j = n
        BY <2>a, <3>2, <3>3, <3>5, <4>2
      <4>3. CASE i \in DOMAIN batch /\ j \in DOMAIN batch
        BY <2>a, <3>5, <4>3
      <4> QED
        BY <3>5, <4>1, <4>2, <4>3
    <3>8. \A i \in DOMAIN batch' : batch'[i].seq < seq'
      <4>1. \A i \in DOMAIN batch : batch[i].seq < seq + 1
        BY <2>a, <2>b
      <4>2. seq < seq + 1
        BY <2>b
      <4> QED
        BY <3>1, <3>3, <3>5, <4>1, <4>2
    <3>9. \A i \in DOMAIN batch' : batch'[i].id \in fresh' => batch'[i].id \notin Left'
      BY <2>a, <3>1, <3>2, <3>3, <3>4, <3>5, <3>6
    <3>10. \A k \in Left', i \in DOMAIN batch' : inner'.recs[k].seq < batch'[i].seq
      BY <2>a, <3>1, <3>3, <3>4, <3>5, <3>6
    <3> QED
      BY <2>a, <3>1, <3>4, <3>7, <3>8, <3>9, <3>10 DEF Turns
  <2>2. CASE Evict
    <3>1. PICK x \in heap : /\ fresh' = fresh \ {x.id}
                            /\ gone' = IF x.id \in fresh THEN gone ELSE gone \cup {x.id}
      BY <2>2, EvictEffect
    <3>2. UNCHANGED <<batch, inner, seq>>
      BY <2>2 DEF Evict
    <3>3. Left' \subseteq Left /\ fresh' \subseteq fresh
      BY <3>1, <3>2 DEF Left
    <3> QED
      BY <2>a, <3>2, <3>3 DEF Turns
  <2>3. CASE Deliver
    <3>1. Left' = Left /\ \A k \in Left : inner'.recs[k] = inner.recs[k]
      BY <2>3, DropEffect
    <3>2. UNCHANGED <<batch, fresh, seq>>
      BY <2>3 DEF Deliver, gateVars
    <3> QED
      BY <2>a, <3>1, <3>2 DEF Turns
  <2>4. CASE Pass
    <3> DEFINE r == Head(batch)
    <3>1. batch # <<>> /\ batch' = Tail(batch) /\ UNCHANGED <<fresh, seq>>
      BY <2>4 DEF Pass, gateVars
    <3>2. /\ r = batch[1] /\ 1 \in DOMAIN batch
          /\ \A i \in DOMAIN batch' : i \in Nat /\ i + 1 \in DOMAIN batch /\ 1 < i + 1 /\ batch'[i] = batch[i + 1]
      <4>1. /\ r = batch[1] /\ 1 \in DOMAIN batch /\ DOMAIN batch' = 1 .. (Len(batch) - 1)
            /\ \A i \in DOMAIN batch' : i \in Nat /\ i + 1 \in DOMAIN batch /\ batch'[i] = batch[i + 1]
        BY <2>b, <3>1, TailLines
      <4>2. \A i \in DOMAIN batch' : 1 < i + 1
        BY <2>b, <4>1
      <4> QED
        BY <4>1, <4>2
    <3>3. IF r.id \in fresh
            THEN /\ Left' = Left \cup {r.id}
                 /\ inner'.recs[r.id] = SlotFor(inner, r)
                 /\ \A k \in Left \ {r.id} : inner'.recs[k] = inner.recs[k]
            ELSE Left' = Left /\ inner' = inner
      BY <2>4, PassEffect
    <3> HIDE DEF r
    <3>4. \A i, j \in DOMAIN batch' : i < j => batch'[i].id # batch'[j].id /\ batch'[i].seq < batch'[j].seq
      <4>1. \A i, j \in DOMAIN batch' : i < j => i + 1 < j + 1
        BY <3>2
      <4> QED
        BY <2>a, <3>2, <4>1
    <3>5. \A i \in DOMAIN batch' : batch'[i].seq < seq' /\ r.id # batch'[i].id /\ r.seq < batch'[i].seq
      BY <2>a, <3>1, <3>2
    <3>6. CASE r.id \in fresh
      <4>1. r.id \notin Left /\ gone = {}
        BY <2>4, <2>a, <3>2, <3>6, PassEffect
      <4>2. r.id \notin Held(inner.recs)
        BY <4>1 DEF Left
      <4>3. inner'.recs[r.id].seq = r.seq /\ inner'.recs[r.id].place = inner.places
        BY <3>3, <3>6, <4>2 DEF SlotFor
      <4>4. Left' = Left \cup {r.id} /\ \A k \in Left : k # r.id /\ inner'.recs[k] = inner.recs[k]
        BY <3>3, <3>6, <4>1
      <4>5. \A k \in Left : inner.recs[k].seq < r.seq /\ r.seq \in Nat
        BY <2>a, <2>b, <3>2
      <4>6. \A i \in DOMAIN batch' : batch'[i].id \in fresh' => batch'[i].id \notin Left'
        BY <2>a, <3>1, <3>2, <3>5, <4>4
      <4>7. \A k \in Left', i \in DOMAIN batch' : inner'.recs[k].seq < batch'[i].seq
        BY <2>a, <3>2, <3>5, <4>3, <4>4
      <4>8. ASSUME NEW k \in Left', NEW j \in Left', inner'.recs[k].seq < inner'.recs[j].seq
            PROVE  inner'.recs[k].place < inner'.recs[j].place
        <5>1. CASE j \in Left /\ k \in Left
          BY <2>a, <4>4, <4>8, <5>1
        <5>2. CASE j = r.id /\ k \in Left
          BY <2>c, <4>3, <4>4, <5>2
        <5>3. CASE j \in Left /\ k = r.id
          BY <2>c, <4>3, <4>4, <4>5, <4>8, <5>3
        <5>4. CASE j = r.id /\ k = r.id
          <6>1. r.seq \in Nat /\ r.seq < r.seq
            BY <2>b, <3>2, <4>3, <4>8, <5>4
          <6> QED
            BY <6>1
        <5> QED
          BY <4>4, <5>1, <5>2, <5>3, <5>4
      <4> QED
        BY <3>4, <3>5, <4>6, <4>7, <4>8 DEF Turns
    <3>7. CASE r.id \notin fresh
      BY <2>a, <3>1, <3>2, <3>3, <3>4, <3>5, <3>7 DEF Turns
    <3> QED
      BY <3>6, <3>7
  <2>5. CASE Return
    <3>1. UNCHANGED <<batch, inner, gone>> /\ batch = <<>>
      BY <2>5 DEF Return
    <3>2. Left' = Left
      BY <3>1 DEF Left
    <3> QED
      BY <2>a, <3>1, <3>2 DEF Turns
  <2>6. CASE UNCHANGED <<batch, fresh, gone, inner, seq>>
    <3>1. Left' = Left
      BY <2>6 DEF Left
    <3> QED
      BY <2>a, <2>6, <3>1 DEF Turns
  <2>7. ASSUME NEW id \in Ids, NEW ts \in Times, Duplicate(id, ts) PROVE FALSE
    BY <2>7 DEF Duplicate
  <2>8. ASSUME NEW ts \in Times, Refuse(ts) PROVE Turns'
    BY <2>6, <2>8 DEF Refuse, callVars
  <2>9. CASE Start \/ Fits \/ UNCHANGED vars
    BY <2>6, <2>9 DEF Start, Fits, vars, gateVars, callVars
  <2> QED
    BY <1>1, <2>1, <2>2, <2>3, <2>4, <2>5, <2>7, <2>8, <2>9 DEF Next
<1> QED
  BY <1>1, <1>2, FailedStands, TwiceStands

-----------------------------------------------------------------------------
(* The invariant and the theorems                                           *)

(* Every reachable state satisfies the inductive invariant.                 *)
LEMMA IInvAlways == Spec => []IInv
<1>1. IInv /\ [Next]_vars => IInv'
  BY TypeStep, OrderStep, ShareStep, RecencyStep, NewestStep DEF IInv
<1> QED
  BY <1>1, InitIInv, PTL DEF Spec

(* TypeOK: the variables of the gate keep their types, and a posting names  *)
(* kept lines only.                                                         *)
THEOREM TypeCorrect == Spec => []TypeOK
  BY IInvAlways, PTL DEF IInv

(* WithinOneRecord: whatever arrives, the words kept never exceed their     *)
(* share of the words seen, and fall short of it by less than the largest   *)
(* record once anything was evicted.                                        *)
THEOREM FitsItsShare == Spec => []WithinOneRecord
<1>1. IInv => WithinOneRecord
  BY DEF IInv, Share, WithinOneRecord
<1> QED
  BY <1>1, IInvAlways, PTL

(* NewestStay: under GR the kept records are the end of the stream.         *)
THEOREM KeepsTheEnd == Spec => []NewestStay
  BY IInvAlways, PTL DEF IInv

(* EvictsTheLeast: what leaves is before every other kept record by current *)
(* weight, draw and arrival, whatever stale items the heap holds.           *)
THEOREM LeavesTheLeast == Spec => EvictsTheLeast
<1> DEFINE Least ==
      pc = "evict" =>
        \A id \in Kept : kept'[id] = NoRecord =>
          \A other \in Kept \ {id} : Before(ItemOf(id, kept[id]), ItemOf(other, kept[other]))
<1>1. ASSUME IInv, [Next]_vars PROVE Least
  <2>1. CASE Evict
    <3>1. PICK x \in heap : Evicts(x)
      BY <1>1, <2>1, EvictEffect DEF IInv
    <3>2. ASSUME NEW id \in Kept, kept'[id] = NoRecord PROVE id = x.id
      BY <3>1, <3>2 DEF Evicts, Kept
    <3> QED
      BY <3>1, <3>2 DEF Evicts
  <2>2. CASE UNCHANGED kept
    BY <2>2 DEF Kept
  <2> QED
    BY <1>1, <2>1, <2>2, DeliverEffect DEF Next, Start, Admit, Fits, Duplicate, Refuse, Reset, vars, gateVars
<1> QED
  BY <1>1, IInvAlways, PTL DEF Spec, EvictsTheLeast

(* InnerMirrors: between calls that did not raise, the inner store and its  *)
(* index hold the lines the gate keeps, whatever was evicted, rejected or   *)
(* came back, in the order of arrival unless an id came twice in a batch;   *)
(* the gate counts their words and the index their tokens.                  *)
THEOREM InnerHoldsTheSame == Spec => []InnerMirrors
<1>1. IInv /\ Mirrors /\ [Next]_vars => Mirrors'
  <2> SUFFICES ASSUME IInv, Mirrors, [Next]_vars PROVE Mirrors'
    OBVIOUS
  <2>1. TypeOK /\ Order /\ Stock /\ Consistent(inner) /\ Calls /\ Agreement /\ Turns
    BY DEF IInv, Mirrors
  <2>2. Stock' /\ Consistent(inner') /\ Calls'
    BY <2>1, StockStep, InnerStep, CallsStep
  <2>3. Agreement' /\ Turns'
    BY <2>1, AgreementStep, TurnsStep
  <2> QED
    BY <2>2, <2>3 DEF Mirrors
<1>2. IInv /\ Mirrors => InnerMirrors
  <2> SUFFICES ASSUME IInv, Mirrors, pc = "idle", ~failed
               PROVE  /\ Held(inner.recs) = Kept
                      /\ \A id \in Kept : /\ inner.recs[id].length = kept[id].length
                                          /\ inner.recs[id].tokens = kept[id].tokens
                                          /\ inner.recs[id].seq = kept[id].seq
                      /\ ~twice => \A id, k \in Kept :
                           kept[id].seq < kept[k].seq => inner.recs[id].place < inner.recs[k].place
                      /\ \A t \in Tokens : inner.postings[t] = {id \in Kept : t \in kept[id].tokens}
                      /\ policy = "GM" => inner.postings = post
                      /\ inner.total = Cardinality(Units(kept, "length", Kept))
                      /\ stored = Cardinality(Units(kept, "words", Kept))
    BY DEF InnerMirrors
  <2>1. fresh = {} /\ Left = Held(inner.recs)
    BY DEF Mirrors, Calls, Left
  <2>2. Held(inner.recs) = Kept /\ \A id \in Kept : Matches(inner.recs[id], kept[id])
    BY <2>1 DEF Mirrors, Agreement, Present
  <2>3. \A id \in Kept : /\ inner.recs[id].length = kept[id].length
                         /\ inner.recs[id].tokens = kept[id].tokens
                         /\ inner.recs[id].seq = kept[id].seq
    BY <2>2 DEF Matches
  <2>4. ~twice => \A id, k \in Kept : kept[id].seq < kept[k].seq => inner.recs[id].place < inner.recs[k].place
    BY <2>1, <2>2, <2>3 DEF Mirrors, Turns
  <2>5. \A t \in Tokens : inner.postings[t] = {id \in Kept : t \in kept[id].tokens}
    <3>1. \A t \in Tokens : inner.postings[t] = {id \in Kept : t \in inner.recs[id].tokens}
      BY <2>2 DEF Mirrors, Consistent
    <3> QED
      BY <2>3, <3>1
  <2>6. policy = "GM" => inner.postings = post
    <3> SUFFICES ASSUME policy = "GM" PROVE inner.postings = post
      OBVIOUS
    <3>1. \A t \in Tokens : post[t] = {id \in Kept : t \in kept[id].tokens}
      BY DEF Mirrors, Stock
    <3>2. post \in [Tokens -> SUBSET Kept] /\ inner.postings \in [Tokens -> SUBSET Ids]
      BY DEF IInv, TypeOK, Mirrors, Consistent, Store
    <3>3. \A t \in Tokens : inner.postings[t] = post[t]
      BY <2>5, <3>1
    <3>4. inner.postings \in [Tokens -> SUBSET Ids] /\ post \in [Tokens -> SUBSET Ids]
      BY <3>2 DEF Kept
    <3> QED
      BY <3>3, <3>4
  <2>7. stored = Cardinality(Units(kept, "words", Kept))
    BY DEF Mirrors, Stock
  <2>8. inner.total = Cardinality(Units(kept, "length", Kept))
    <3>1. Units(inner.recs, "length", Kept) = Units(kept, "length", Kept)
      BY <2>3, UnitsAlike
    <3> QED
      BY <2>2, <3>1 DEF Mirrors, Consistent
  <2> QED
    BY <2>2, <2>3, <2>4, <2>5, <2>6, <2>7, <2>8
<1> QED
  BY <1>1, <1>2, InitMirrors, IInvAlways, PTL DEF Spec
=============================================================================
