--------------------------- MODULE SpendCapProofs ---------------------------
(***************************************************************************)
(* Proofs about SpendCap, for any processes, threads, prices and caps: each*)
(* cap is overspent by less than one call for each thread, and the ledger  *)
(* errs by two calls at most for each record cut short.                    *)
(***************************************************************************)
EXTENDS SpendCap, FiniteSetTheorems, WellFoundedInduction, TLAPS

-----------------------------------------------------------------------------
(* Sums.  The prover has no induction over data; these lemmas use instead    *)
(* that a set of numbers has a least, which is a fact about a relation.      *)

(* Some number of a set of naturals is the least.                           *)
LEMMA LeastNat ==
  ASSUME NEW T, T \subseteq Nat, T # {}
  PROVE  \E x \in T : \A y \in T : ~(y < x)
<1> DEFINE R == {ss \in Nat \X Nat : ss[1] < ss[2]}
<1>1. IsWellFoundedOn(R, Nat)
  BY NatLessThanWellFounded DEF OpToRel
<1>2. PICK x \in T : \A y \in T : <<y, x>> \notin R
  BY <1>1, WFMin, Zenon
<1>3. ASSUME NEW y \in T, y < x PROVE FALSE
  <2>1. y \in Nat /\ x \in Nat
    OBVIOUS
  <2>2. <<y, x>> \in Nat \X Nat /\ <<y, x>>[1] = y /\ <<y, x>>[2] = x
    BY <2>1
  <2>3. <<y, x>> \in R
    BY <1>3, <2>2
  <2> QED
    BY <1>2, <2>3
<1> QED
  BY <1>3

(* In a family of parts of a finite set one is minimal: no element of it can*)
(* be taken out without leaving the family.                                 *)
LEMMA MinimalSet ==
  ASSUME NEW A, IsFiniteSet(A), NEW T, T \subseteq SUBSET A, T # {}
  PROVE  \E s \in T : IsFiniteSet(s) /\ \A x \in s : s \ {x} \notin T
<1>1. \A s \in T : IsFiniteSet(s) /\ Cardinality(s) \in Nat
  BY FS_Subset, FS_CardinalityType
<1> DEFINE Sizes == {Cardinality(s) : s \in T}
<1>2. PICK n \in Sizes : \A m \in Sizes : ~(m < n)
  <2>1. Sizes \subseteq Nat /\ Sizes # {}
    BY <1>1
  <2> HIDE DEF Sizes
  <2> QED
    BY <2>1, LeastNat
<1>3. PICK s \in T : n = Cardinality(s)
  OBVIOUS
<1>4. ASSUME NEW x \in s, s \ {x} \in T PROVE FALSE
  <2>1. Cardinality(s \ {x}) = Cardinality(s) - 1
    BY <1>1, FS_RemoveElement
  <2>2. Cardinality(s \ {x}) \in Sizes
    BY <1>4
  <2>3. ~(Cardinality(s \ {x}) < n)
    BY <1>2, <2>2
  <2> QED
    BY <1>1, <1>3, <2>1, <2>3
<1> QED
  BY <1>1, <1>4

-----------------------------------------------------------------------------
(* The recursive function the fold is made of: an element is chosen, and    *)
(* the rest summed.                                                         *)
Chosen(s) == CHOOSE x \in s : TRUE
SumStep(f, g, s) == IF s = {} THEN 0 ELSE f[Chosen(s)] + g[s \ {Chosen(s)}]
IsSums(f, A, g) == g = [s \in SUBSET A |-> SumStep(f, g, s)]
Sums(f, A) == CHOOSE g : IsSums(f, A, g)

(* The sum is that function at the whole set.                               *)
LEMMA SumIsSums == \A f, A : SumFunctionOnSet(f, A) = Sums(f, A)[A]
  BY DEF SumFunctionOnSet, FoldFunctionOnSet, MapThenFoldSet, Sums, IsSums, SumStep, Chosen

(* What is chosen is in the set.                                            *)
LEMMA ChosenIn == ASSUME NEW s, s # {} PROVE Chosen(s) \in s
  BY DEF Chosen

(* The function exists: on the sets of k elements it is built from the one  *)
(* on smaller sets.                                                         *)
LEMMA SumsExist ==
  ASSUME NEW f, NEW A, IsFiniteSet(A)
  PROVE  IsSums(f, A, Sums(f, A))
<1> DEFINE D(k) == {s \in SUBSET A : Cardinality(s) <= k}
           Good(k, g) == \A s \in D(k) : g[s] = SumStep(f, g, s)
           Bad == {k \in Nat : ~\E g : Good(k, g)}
<1>0. \A s \in SUBSET A : IsFiniteSet(s) /\ Cardinality(s) \in Nat
  BY FS_Subset, FS_CardinalityType
<1>1. Bad = {}
  <2> SUFFICES ASSUME Bad # {} PROVE FALSE
    OBVIOUS
  <2>1. PICK k \in Bad : \A m \in Bad : ~(m < k)
    <3>1. Bad \subseteq Nat
      OBVIOUS
    <3> HIDE DEF Bad
    <3> QED
      BY <3>1, LeastNat
  <2>2. k \in Nat
    OBVIOUS
  <2>3. CASE k = 0
    <3> DEFINE g == [s \in SUBSET A |-> 0]
    <3>1. ASSUME NEW s \in D(0) PROVE s = {}
      <4>1. Cardinality(s) = 0 /\ IsFiniteSet(s)
        BY <1>0
      <4> QED
        BY <4>1, FS_EmptySet
    <3>2. Good(0, g)
      BY <3>1 DEF SumStep
    <3> QED
      BY <2>3, <3>2
  <2>4. CASE k # 0
    <3>1. k - 1 \in Nat /\ k - 1 < k
      BY <2>2, <2>4
    <3>2. PICK h : Good(k - 1, h)
      BY <2>1, <3>1
    <3> DEFINE g == [s \in SUBSET A |-> SumStep(f, h, s)]
    <3>3. \A s \in D(k - 1) : g[s] = h[s]
      BY <3>2
    <3>4. ASSUME NEW s \in D(k), s # {} PROVE s \ {Chosen(s)} \in D(k - 1)
      <4>1. Chosen(s) \in s /\ IsFiniteSet(s) /\ Cardinality(s) \in Nat
        BY <1>0, <3>4, ChosenIn
      <4>2. Cardinality(s \ {Chosen(s)}) = Cardinality(s) - 1
        BY <4>1, FS_RemoveElement
      <4> QED
        BY <2>2, <4>1, <4>2
    <3>5. Good(k, g)
      <4> SUFFICES ASSUME NEW s \in D(k) PROVE g[s] = SumStep(f, g, s)
        OBVIOUS
      <4>1. CASE s = {}
        BY <4>1 DEF SumStep
      <4>2. CASE s # {}
        <5>1. g[s \ {Chosen(s)}] = h[s \ {Chosen(s)}]
          BY <3>3, <3>4, <4>2
        <5> QED
          BY <5>1 DEF SumStep
      <4> QED
        BY <4>1, <4>2
    <3> QED
      BY <3>5
  <2> QED
    BY <2>3, <2>4
<1>2. Cardinality(A) \in Nat
  BY FS_CardinalityType
<1>3. PICK h : Good(Cardinality(A), h)
  BY <1>1, <1>2
<1>4. \A s \in SUBSET A : s \in D(Cardinality(A))
  BY FS_Subset
<1> DEFINE g == [s \in SUBSET A |-> h[s]]
<1>5. g = [s \in SUBSET A |-> SumStep(f, g, s)]
  <2> SUFFICES ASSUME NEW s \in SUBSET A PROVE h[s] = SumStep(f, g, s)
    OBVIOUS
  <2>1. h[s] = SumStep(f, h, s)
    BY <1>3, <1>4
  <2> QED
    BY <2>1, ChosenIn DEF SumStep
<1>6. IsSums(f, A, g)
  BY <1>5 DEF IsSums
<1> HIDE DEF g
<1> QED
  BY <1>6, Zenon DEF Sums

(* Its equation, at one set.                                                *)
LEMMA SumsAt ==
  ASSUME NEW f, NEW A, IsFiniteSet(A), NEW s \in SUBSET A
  PROVE  Sums(f, A)[s] = SumStep(f, Sums(f, A), s)
<1> DEFINE g == Sums(f, A)
<1>1. g = [t \in SUBSET A |-> SumStep(f, g, t)]
  <2>1. IsSums(f, A, Sums(f, A))
    BY SumsExist, Zenon
  <2> QED
    BY <2>1 DEF IsSums
<1> HIDE DEF g
<1>2. [t \in SUBSET A |-> SumStep(f, g, t)][s] = SumStep(f, g, s)
  OBVIOUS
<1>3. g[s] = SumStep(f, g, s)
  BY <1>1, <1>2, Zenon
<1> QED
  BY <1>3 DEF g

(* The sum over a part depends on the summands of that part alone.          *)
LEMMA SumsAgree ==
  ASSUME NEW f, NEW A, IsFiniteSet(A), NEW g, NEW B, IsFiniteSet(B),
         NEW S \in SUBSET A, S \subseteq B, \A x \in S : f[x] = g[x]
  PROVE  Sums(f, A)[S] = Sums(g, B)[S]
<1> DEFINE Bad == {s \in SUBSET S : Sums(f, A)[s] # Sums(g, B)[s]}
<1>1. IsFiniteSet(S)
  BY FS_Subset
<1>2. Bad = {}
  <2> SUFFICES ASSUME Bad # {} PROVE FALSE
    OBVIOUS
  <2>1. PICK s \in Bad : \A x \in s : s \ {x} \notin Bad
    BY <1>1, MinimalSet
  <2>2. /\ s \in SUBSET A /\ s \in SUBSET B
        /\ Sums(f, A)[s] = SumStep(f, Sums(f, A), s)
        /\ Sums(g, B)[s] = SumStep(g, Sums(g, B), s)
    BY SumsAt
  <2>3. s # {}
    BY <2>1, <2>2 DEF SumStep
  <2>4. Chosen(s) \in s
    BY <2>3, ChosenIn
  <2>5. s \ {Chosen(s)} \notin Bad
    BY <2>1, <2>4
  <2>6. Sums(f, A)[s \ {Chosen(s)}] = Sums(g, B)[s \ {Chosen(s)}]
    BY <2>5
  <2>7. f[Chosen(s)] = g[Chosen(s)]
    BY <2>4
  <2> QED
    BY <2>1, <2>2, <2>6, <2>7 DEF SumStep
<1> QED
  BY <1>2

(* A sum depends on its summands alone.                                     *)
LEMMA SumAgree ==
  ASSUME NEW S, IsFiniteSet(S), NEW f, NEW g, \A x \in S : f[x] = g[x]
  PROVE  SumFunctionOnSet(f, S) = SumFunctionOnSet(g, S)
  BY SumIsSums, SumsAgree

(* The sum of nothing.                                                      *)
LEMMA SumEmpty == \A f : SumFunctionOnSet(f, {}) = 0
<1> SUFFICES ASSUME NEW f PROVE SumFunctionOnSet(f, {}) = 0
  OBVIOUS
<1>1. Sums(f, {})[{}] = SumStep(f, Sums(f, {}), {})
  BY FS_EmptySet, SumsAt
<1> QED
  BY <1>1, SumIsSums DEF SumStep

(* The fold's own step.                                                     *)
LEMMA SumChosen ==
  ASSUME NEW S, IsFiniteSet(S), S # {}, NEW f
  PROVE  SumFunctionOnSet(f, S) = f[Chosen(S)] + SumFunctionOnSet(f, S \ {Chosen(S)})
<1>1. Sums(f, S)[S] = f[Chosen(S)] + Sums(f, S)[S \ {Chosen(S)}]
  BY SumsAt DEF SumStep
<1>2. IsFiniteSet(S \ {Chosen(S)}) /\ S \ {Chosen(S)} \in SUBSET S
  BY FS_RemoveElement, FS_Subset
<1>3. Sums(f, S)[S \ {Chosen(S)}] = Sums(f, S \ {Chosen(S)})[S \ {Chosen(S)}]
  BY <1>2, SumsAgree
<1> QED
  BY <1>1, <1>3, SumIsSums

(* A sum of naturals is one.                                                *)
LEMMA SumNat ==
  ASSUME NEW A, IsFiniteSet(A), NEW f, \A x \in A : f[x] \in Nat
  PROVE  SumFunctionOnSet(f, A) \in Nat
<1> DEFINE Bad == {s \in SUBSET A : SumFunctionOnSet(f, s) \notin Nat}
<1>2. Bad = {}
  <2> SUFFICES ASSUME Bad # {} PROVE FALSE
    OBVIOUS
  <2>1. PICK s \in Bad : IsFiniteSet(s) /\ \A x \in s : s \ {x} \notin Bad
    BY MinimalSet
  <2>2. s # {}
    BY <2>1, SumEmpty
  <2>3. Chosen(s) \in s /\ f[Chosen(s)] \in Nat
    BY <2>2, ChosenIn
  <2>4. SumFunctionOnSet(f, s \ {Chosen(s)}) \in Nat
    BY <2>1, <2>3
  <2>5. SumFunctionOnSet(f, s) = f[Chosen(s)] + SumFunctionOnSet(f, s \ {Chosen(s)})
    BY <2>1, <2>2, SumChosen
  <2> QED
    BY <2>3, <2>4, <2>5
<1> QED
  BY <1>2

(* Any element may be taken out first.                                      *)
LEMMA SumTake ==
  ASSUME NEW A, IsFiniteSet(A), NEW f, \A x \in A : f[x] \in Nat, NEW a \in A
  PROVE  SumFunctionOnSet(f, A) = f[a] + SumFunctionOnSet(f, A \ {a})
<1> DEFINE Bad == {s \in SUBSET A : \E x \in s : SumFunctionOnSet(f, s) # f[x] + SumFunctionOnSet(f, s \ {x})}
<1>1. ASSUME NEW s \in SUBSET A
      PROVE  IsFiniteSet(s) /\ SumFunctionOnSet(f, s) \in Nat
  BY FS_Subset, SumNat
<1>2. Bad = {}
  <2> SUFFICES ASSUME Bad # {} PROVE FALSE
    OBVIOUS
  <2>1. PICK s \in Bad : \A x \in s : s \ {x} \notin Bad
    BY MinimalSet
  <2>2. PICK x \in s : SumFunctionOnSet(f, s) # f[x] + SumFunctionOnSet(f, s \ {x})
    OBVIOUS
  <2> DEFINE p == Chosen(s)
             r == SumFunctionOnSet(f, (s \ {p}) \ {x})
  <2>3. p \in s /\ SumFunctionOnSet(f, s) = f[p] + SumFunctionOnSet(f, s \ {p})
    BY <1>1, ChosenIn, SumChosen
  <2>4. x # p
    BY <2>2, <2>3
  <2>5. SumFunctionOnSet(f, s \ {p}) = f[x] + r
    BY <2>1, <2>3, <2>4
  <2>6. SumFunctionOnSet(f, s \ {x}) = f[p] + r
    <3>1. SumFunctionOnSet(f, s \ {x}) = f[p] + SumFunctionOnSet(f, (s \ {x}) \ {p})
      BY <2>1, <2>3, <2>4
    <3>2. (s \ {x}) \ {p} = (s \ {p}) \ {x}
      OBVIOUS
    <3> QED
      BY <3>1, <3>2
  <2>7. f[x] \in Nat /\ f[p] \in Nat /\ r \in Nat
    BY <1>1, <2>3
  <2> HIDE DEF p, r
  <2> QED
    BY <2>2, <2>3, <2>5, <2>6, <2>7
<1> QED
  BY <1>2

(* A sum with less added keeps under a bound.                               *)
LEMMA LessAdded == \A a, d, e, b \in Nat : a + d <= b /\ e <= d => a + e <= b
  BY SMT

(* One factor more, one product more.                                       *)
LEMMA MulStep ==
  \A a, c \in Int : /\ c * a \in Int /\ c * (a - 1) = c * a - c
                    /\ (a - 1) * c = c * a - c
  BY SMTT(30)

(* A sum is that over a part, when nothing is summed outside it.            *)
LEMMA SumPart ==
  ASSUME NEW A, IsFiniteSet(A), NEW f, NEW P,
         \A x \in A : f[x] \in Nat, \A x \in A \ P : f[x] = 0
  PROVE  SumFunctionOnSet(f, A) = SumFunctionOnSet(f, A \cap P)
<1> DEFINE F(s) == SumFunctionOnSet(f, s)
           Bad == {s \in SUBSET A : F(s) # F(s \cap P)}
<1>1. ASSUME NEW s \in SUBSET A
      PROVE  IsFiniteSet(s) /\ F(s) \in Nat /\ \A x \in s : F(s) = f[x] + F(s \ {x})
  BY FS_Subset, SumNat, SumTake
<1> HIDE DEF F
<1>2. ASSUME NEW s \in SUBSET A, NEW x \in s, F(s \ {x}) = F((s \ {x}) \cap P)
      PROVE  F(s) = F(s \cap P)
  <2>1. F(s) = f[x] + F(s \ {x}) /\ F(s \ {x}) \in Nat
    BY <1>1
  <2>2. CASE x \in P
    <3>1. F(s \cap P) = f[x] + F((s \cap P) \ {x})
      BY <1>1, <2>2
    <3>2. (s \cap P) \ {x} = (s \ {x}) \cap P
      OBVIOUS
    <3> QED
      BY <1>2, <2>1, <3>1, <3>2
  <2>3. CASE x \notin P
    <3>1. f[x] = 0 /\ s \cap P = (s \ {x}) \cap P
      BY <2>3
    <3>2. F(s) = F(s \ {x})
      BY <2>1, <3>1
    <3>3. F(s \cap P) = F((s \ {x}) \cap P)
      BY <3>1
    <3> QED
      BY <1>2, <3>2, <3>3
  <2> QED
    BY <2>2, <2>3
<1>3. Bad = {}
  <2> SUFFICES ASSUME Bad # {} PROVE FALSE
    OBVIOUS
  <2>1. PICK s \in Bad : \A x \in s : s \ {x} \notin Bad
    <3>1. Bad \subseteq SUBSET A
      OBVIOUS
    <3> HIDE DEF Bad
    <3> QED
      BY <3>1, MinimalSet
  <2>2. s # {}
    OBVIOUS
  <2>3. PICK x \in s : x = x
    BY <2>2
  <2>4. F(s \ {x}) = F((s \ {x}) \cap P)
    BY <2>1
  <2> QED
    BY <1>2, <2>4
<1>4. F(A) = F(A \cap P)
  BY <1>3
<1> QED
  BY <1>4 DEF F

(* Where each summand is bounded by two others, so is the sum.              *)
LEMMA SumBelow ==
  ASSUME NEW A, IsFiniteSet(A), NEW f, NEW g, NEW h,
         \A x \in A : /\ f[x] \in Nat /\ g[x] \in Nat /\ h[x] \in Nat
                      /\ f[x] <= g[x] + h[x]
  PROVE  SumFunctionOnSet(f, A) <= SumFunctionOnSet(g, A) + SumFunctionOnSet(h, A)
<1> DEFINE F(s) == SumFunctionOnSet(f, s)
           G(s) == SumFunctionOnSet(g, s)
           H(s) == SumFunctionOnSet(h, s)
           Bad == {s \in SUBSET A : ~(F(s) <= G(s) + H(s))}
<1>1. ASSUME NEW s \in SUBSET A
      PROVE  IsFiniteSet(s) /\ F(s) \in Nat /\ G(s) \in Nat /\ H(s) \in Nat
  BY FS_Subset, SumNat
<1>2. ASSUME NEW s \in SUBSET A, NEW x \in s
      PROVE  /\ F(s) = f[x] + F(s \ {x}) /\ G(s) = g[x] + G(s \ {x})
             /\ H(s) = h[x] + H(s \ {x})
  BY <1>1, SumTake
<1>3. F({}) = 0 /\ G({}) = 0 /\ H({}) = 0
  BY SumEmpty
<1> HIDE DEF F, G, H
<1>4. Bad = {}
  <2> SUFFICES ASSUME Bad # {} PROVE FALSE
    OBVIOUS
  <2>1. PICK s \in Bad : \A x \in s : s \ {x} \notin Bad
    <3>1. Bad \subseteq SUBSET A
      OBVIOUS
    <3> HIDE DEF Bad
    <3> QED
      BY <3>1, MinimalSet
  <2>2. s # {}
    <3>1. ~(F(s) <= G(s) + H(s))
      OBVIOUS
    <3>2. F({}) <= G({}) + H({})
      BY <1>3
    <3> QED
      BY <3>1, <3>2
  <2>3. PICK x \in s : x = x
    BY <2>2
  <2>4. /\ s \in SUBSET A /\ s \ {x} \in SUBSET A /\ x \in A
        /\ ~(F(s) <= G(s) + H(s)) /\ F(s \ {x}) <= G(s \ {x}) + H(s \ {x})
    BY <2>1
  <2>5. /\ F(s \ {x}) \in Nat /\ G(s \ {x}) \in Nat /\ H(s \ {x}) \in Nat
        /\ f[x] \in Nat /\ g[x] \in Nat /\ h[x] \in Nat /\ f[x] <= g[x] + h[x]
    BY <1>1, <2>4
  <2>6. /\ F(s) = f[x] + F(s \ {x}) /\ G(s) = g[x] + G(s \ {x})
        /\ H(s) = h[x] + H(s \ {x})
    BY <1>2, <2>4
  <2> HIDE DEF Bad
  <2> QED
    BY <2>4, <2>5, <2>6
<1>5. F(A) <= G(A) + H(A)
  BY <1>4
<1> QED
  BY <1>5 DEF F, G, H

(* A bound on each summand bounds the sum.                                  *)
LEMMA SumAtMost ==
  ASSUME NEW A, IsFiniteSet(A), NEW f, NEW m \in Nat,
         \A x \in A : f[x] \in Nat /\ f[x] <= m
  PROVE  SumFunctionOnSet(f, A) <= m * Cardinality(A)
<1> DEFINE F(s) == SumFunctionOnSet(f, s)
           M(s) == m * Cardinality(s)
           Bad == {s \in SUBSET A : ~(F(s) <= M(s))}
<1>1. ASSUME NEW s \in SUBSET A
      PROVE  IsFiniteSet(s) /\ F(s) \in Nat /\ Cardinality(s) \in Int
  BY FS_Subset, FS_CardinalityType, SumNat
<1>2. ASSUME NEW s \in SUBSET A, NEW x \in s
      PROVE  F(s) = f[x] + F(s \ {x}) /\ M(s) = M(s \ {x}) + m /\ M(s \ {x}) \in Int
  <2>1. F(s) = f[x] + F(s \ {x})
    BY <1>1, SumTake
  <2>2. Cardinality(s \ {x}) = Cardinality(s) - 1 /\ Cardinality(s) \in Int /\ m \in Int
    BY <1>1, FS_RemoveElement
  <2>3. m * (Cardinality(s) - 1) = m * Cardinality(s) - m /\ m * Cardinality(s) \in Int
    BY <2>2, MulStep
  <2>4. M(s \ {x}) = m * Cardinality(s) - m /\ M(s) = m * Cardinality(s)
    BY <2>2, <2>3
  <2> HIDE DEF M
  <2> QED
    BY <2>1, <2>3, <2>4
<1>3. F({}) = 0 /\ M({}) = 0
  BY SumEmpty, FS_EmptySet
<1> HIDE DEF F, M
<1>4. Bad = {}
  <2> SUFFICES ASSUME Bad # {} PROVE FALSE
    OBVIOUS
  <2>1. PICK s \in Bad : \A x \in s : s \ {x} \notin Bad
    <3>1. Bad \subseteq SUBSET A
      OBVIOUS
    <3> HIDE DEF Bad
    <3> QED
      BY <3>1, MinimalSet
  <2>2. s # {}
    <3>1. ~(F(s) <= M(s))
      OBVIOUS
    <3>2. F({}) <= M({})
      BY <1>3
    <3> QED
      BY <3>1, <3>2
  <2>3. PICK x \in s : x = x
    BY <2>2
  <2>4. /\ s \in SUBSET A /\ s \ {x} \in SUBSET A /\ x \in A
        /\ ~(F(s) <= M(s)) /\ F(s \ {x}) <= M(s \ {x})
    BY <2>1
  <2>5. F(s \ {x}) \in Nat /\ f[x] \in Nat /\ f[x] <= m
    BY <1>1, <2>4
  <2> HIDE DEF Bad
  <2> QED
    BY <1>2, <2>4, <2>5
<1>5. F(A) <= M(A)
  BY <1>4
<1> QED
  BY <1>5 DEF F, M

(* The sum of nothing but zeros.                                            *)
LEMMA SumZero ==
  ASSUME NEW A, IsFiniteSet(A), NEW f, \A x \in A : f[x] = 0
  PROVE  SumFunctionOnSet(f, A) = 0
<1>1. SumFunctionOnSet(f, A) = SumFunctionOnSet(f, A \cap {})
  BY SumPart
<1>2. A \cap {} = {}
  OBVIOUS
<1> QED
  BY <1>1, <1>2, SumEmpty

(* A sum no summand of which is above that of another.                      *)
LEMMA SumMono ==
  ASSUME NEW A, IsFiniteSet(A), NEW f, NEW g,
         \A x \in A : f[x] \in Nat /\ g[x] \in Nat /\ f[x] <= g[x]
  PROVE  SumFunctionOnSet(f, A) <= SumFunctionOnSet(g, A)
<1> DEFINE h == [x \in A |-> 0]
<1>1. \A x \in A : h[x] = 0
  OBVIOUS
<1> HIDE DEF h
<1>2. SumFunctionOnSet(h, A) = 0
  BY <1>1, SumZero
<1>3. SumFunctionOnSet(f, A) <= SumFunctionOnSet(g, A) + SumFunctionOnSet(h, A)
  BY <1>1, SumBelow
<1>4. SumFunctionOnSet(g, A) \in Nat
  BY SumNat
<1> QED
  BY <1>2, <1>3, <1>4

(* One summand changes.                                                     *)
LEMMA SumChange ==
  ASSUME NEW A, IsFiniteSet(A), NEW f, NEW g, NEW a \in A,
         \A x \in A : f[x] \in Nat /\ g[x] \in Nat, \A x \in A \ {a} : f[x] = g[x]
  PROVE  SumFunctionOnSet(g, A) + f[a] = SumFunctionOnSet(f, A) + g[a]
<1>1. /\ SumFunctionOnSet(f, A) = f[a] + SumFunctionOnSet(f, A \ {a})
      /\ SumFunctionOnSet(g, A) = g[a] + SumFunctionOnSet(g, A \ {a})
  BY SumTake
<1>2. IsFiniteSet(A \ {a})
  BY FS_Subset
<1>3. SumFunctionOnSet(f, A \ {a}) = SumFunctionOnSet(g, A \ {a})
  BY <1>2, SumAgree
<1>4. SumFunctionOnSet(f, A \ {a}) \in Nat /\ f[a] \in Nat /\ g[a] \in Nat
  BY <1>2, SumNat
<1> QED
  BY <1>1, <1>3, <1>4

(* A sum over an interval takes in its next number.                         *)
LEMMA SumNext ==
  ASSUME NEW n \in Nat, NEW f, NEW g,
         \A i \in 1 .. (n + 1) : g[i] \in Nat, \A i \in 1 .. n : f[i] = g[i]
  PROVE  SumFunctionOnSet(g, 1 .. (n + 1)) = SumFunctionOnSet(f, 1 .. n) + g[n + 1]
<1>1. IsFiniteSet(1 .. n) /\ IsFiniteSet(1 .. (n + 1))
  BY FS_Interval
<1>2. n + 1 \in 1 .. (n + 1) /\ (1 .. (n + 1)) \ {n + 1} = 1 .. n
  OBVIOUS
<1>3. SumFunctionOnSet(g, 1 .. (n + 1)) = g[n + 1] + SumFunctionOnSet(g, 1 .. n)
  BY <1>1, <1>2, SumTake
<1>4. SumFunctionOnSet(g, 1 .. n) = SumFunctionOnSet(f, 1 .. n)
  BY <1>1, SumAgree
<1>5. \A i \in 1 .. n : g[i] \in Nat
  OBVIOUS
<1>6. SumFunctionOnSet(g, 1 .. n) \in Nat /\ g[n + 1] \in Nat
  BY <1>1, <1>2, <1>5, SumNat
<1> QED
  BY <1>3, <1>4, <1>6

(* A bounded set of numbers has a greatest.                                 *)
LEMMA MaxIn ==
  ASSUME NEW S, S \subseteq Nat, S # {}, NEW m \in Nat, \A x \in S : x <= m
  PROVE  Max(S) \in S
<1> DEFINE T == {m - x : x \in S}
<1>1. PICK t \in T : \A u \in T : ~(u < t)
  <2>1. \A x \in S : x \in Nat /\ x <= m /\ m - x \in Nat
    OBVIOUS
  <2>2. T \subseteq Nat /\ T # {}
    BY <2>1
  <2> HIDE DEF T
  <2> QED
    BY <2>2, LeastNat
<1>2. PICK x \in S : t = m - x
  OBVIOUS
<1>3. \A y \in S : x >= y
  <2> SUFFICES ASSUME NEW y \in S PROVE x >= y
    OBVIOUS
  <2>1. ~(m - y < m - x)
    BY <1>1, <1>2
  <2>2. x \in Nat /\ y \in Nat
    OBVIOUS
  <2> QED
    BY <2>1, <2>2
<1> QED
  BY <1>2, <1>3 DEF Max

-----------------------------------------------------------------------------
Threads(p) == {w \in Workers : ProcOf[w] = p}
InFlight(p) == {w \in Threads(p) : pc[w] # "idle"}

Entry == [usd : Nat, torn : BOOLEAN]
CallLog == [n : Nat, spent : Nat, largest : Nat]

(* Before the first fault what is recorded is a price, so that the dearest  *)
(* call is one, and what is in flight still fits the cap but for the last.  *)
Prices ==
  /\ \A w \in Workers : pc[w] = "record" => due[w] \in Costs
  /\ \A p \in Procs : calls[p].n > 0 => calls[p].largest >= MinCost
Room ==
  \A p \in Procs : Threads(p) # {} =>
    calls[p].spent + MaxCost * Cardinality(InFlight(p))
      <= RunCap + (Cardinality(Threads(p)) - 1) * MaxCost

(* What the whole lines add up to, with the guess for each torn one, and    *)
(* what can be read of the prices: the lines' and that of a tail cut just   *)
(* before its newline.                                                      *)
Usd(s) == [i \in DOMAIN s |-> s[i].usd]
Guess(s) == [i \in DOMAIN s |-> IF s[i].torn THEN MaxCost ELSE 0]
UsdSum(s) == SumFunctionOnSet(Usd(s), DOMAIN s)
GuessSum(s) == SumFunctionOnSet(Guess(s), DOMAIN s)
Readable == UsdSum(lines) + IF tail = <<>> THEN 0 ELSE tail[1].usd
Guesses == GuessSum(lines) + IF tail = <<>> THEN 0 ELSE MaxCost
DueSum == SumFunctionOnSet(due, Workers)

(* The accounts, whatever faults there were: each price is held by a thread *)
(* or handed to the ledger; a cut record costs two prices at most, its own  *)
(* and that of the record which lands on its line (AtRisk: what the cut has *)
(* not cost yet); and each torn line is due to a cut of its own.            *)
Cell(e) == e.usd <= MaxCost /\ (e.torn => e.usd = 0)
Cells == (\A i \in DOMAIN lines : Cell(lines[i])) /\ (tail # <<>> => Cell(tail[1]))
Owed == \A w \in Workers : due[w] <= MaxCost /\ (pc[w] # "record" => due[w] = 0)
AtRisk == IF tail = <<>> THEN 0 ELSE IF tail[1].torn THEN MaxCost ELSE MaxCost + MaxCost
Accounts ==
  /\ Cells /\ Owed
  /\ attempted + DueSum <= paid
  /\ Readable <= attempted
  /\ attempted + AtRisk <= Readable + 2 * (MaxCost * tears)
  /\ Guesses <= MaxCost * tears

(* Before the first fault the ledger is exact, and it fits the total cap    *)
(* with all that is in flight, but for one call of every thread but one.    *)
Exposure == [w \in Workers |-> IF pc[w] = "forward" THEN MaxCost ELSE due[w]]
Exact ==
  /\ tail = <<>> /\ \A i \in DOMAIN lines : ~lines[i].torn
  /\ UsdSum(lines) = attempted
  /\ paid = attempted + DueSum
Fits ==
  attempted + SumFunctionOnSet(Exposure, Workers)
    <= TotalCap + (Cardinality(Workers) - 1) * MaxCost

IInv == TypeOK /\ Accounts /\ (Steady /\ calm => Prices /\ Room /\ Exact /\ Fits)

USE SpendAssumption

(* The prices have a least and a most.                                      *)
LEMMA CostBounds ==
  /\ MinCost \in Nat /\ MaxCost \in Nat
  /\ \A c \in Costs : MinCost <= c /\ c <= MaxCost
<1>1. PICK least \in Costs, most \in Costs : \A c \in Costs : least <= c /\ c <= most
  OBVIOUS
<1>2. MaxCost \in Costs /\ \A c \in Costs : MaxCost >= c
  BY <1>1 DEF MaxCost, Max
<1>3. MinCost \in Costs /\ \A c \in Costs : MinCost <= c
  BY <1>1 DEF MinCost, Min
<1> QED
  BY <1>2, <1>3

(* The threads of a process are finitely many.                              *)
LEMMA ThreadsFinite ==
  ASSUME NEW p
  PROVE  /\ IsFiniteSet(Threads(p)) /\ Cardinality(Threads(p)) \in Nat
         /\ IsFiniteSet(InFlight(p)) /\ Cardinality(InFlight(p)) \in Nat
         /\ Cardinality(InFlight(p)) <= Cardinality(Threads(p))
         /\ Threads(p) # {} => Cardinality(Threads(p)) >= 1
<1>1. IsFiniteSet(Threads(p)) /\ Cardinality(Threads(p)) \in Nat
  BY FS_Subset, FS_CardinalityType DEF Threads
<1>2. /\ IsFiniteSet(InFlight(p)) /\ Cardinality(InFlight(p)) \in Nat
      /\ Cardinality(InFlight(p)) <= Cardinality(Threads(p))
  BY <1>1, FS_Subset, FS_CardinalityType DEF InFlight
<1>3. Threads(p) # {} => Cardinality(Threads(p)) # 0
  BY <1>1, FS_EmptySet
<1> QED
  BY <1>1, <1>2, <1>3

-----------------------------------------------------------------------------
(* The ledger's sums *)

(* A torn line is an entry.                                                 *)
LEMMA NoEntry == Torn \in Entry
  BY DEF Torn, Entry

(* What a further line adds.                                                *)
LEMMA AppendSums ==
  ASSUME NEW s \in Seq(Entry), NEW e \in Entry
  PROVE  /\ UsdSum(s) \in Nat /\ GuessSum(s) \in Nat
         /\ UsdSum(Append(s, e)) = UsdSum(s) + e.usd
         /\ GuessSum(Append(s, e)) = GuessSum(s) + IF e.torn THEN MaxCost ELSE 0
<1> DEFINE n == Len(s)
           t == Append(s, e)
<1>1. n \in Nat /\ DOMAIN s = 1 .. n /\ \A i \in 1 .. n : s[i] \in Entry
  OBVIOUS
<1>2. /\ DOMAIN t = 1 .. (n + 1) /\ t[n + 1] = e /\ \A i \in 1 .. n : t[i] = s[i]
      /\ \A i \in 1 .. (n + 1) : t[i] \in Entry
  <2>1. t \in Seq(Entry) /\ Len(t) = n + 1
    OBVIOUS
  <2>2. t[n + 1] = e /\ \A i \in 1 .. n : t[i] = s[i]
    OBVIOUS
  <2> QED
    BY <2>1, <2>2
<1> HIDE DEF n, t
<1>3. /\ Usd(s) = [i \in 1 .. n |-> s[i].usd] /\ Usd(t) = [i \in 1 .. (n + 1) |-> t[i].usd]
      /\ Guess(s) = [i \in 1 .. n |-> IF s[i].torn THEN MaxCost ELSE 0]
      /\ Guess(t) = [i \in 1 .. (n + 1) |-> IF t[i].torn THEN MaxCost ELSE 0]
  BY <1>1, <1>2 DEF Usd, Guess
<1>4. /\ \A i \in 1 .. (n + 1) : Usd(t)[i] \in Nat /\ Guess(t)[i] \in Nat
      /\ \A i \in 1 .. n : Usd(s)[i] = Usd(t)[i] /\ Guess(s)[i] = Guess(t)[i]
      /\ \A i \in 1 .. n : Usd(s)[i] \in Nat /\ Guess(s)[i] \in Nat
  BY <1>1, <1>2, <1>3, CostBounds DEF Entry
<1>5. IsFiniteSet(1 .. n)
  BY <1>1, FS_Interval
<1>6. UsdSum(s) \in Nat /\ GuessSum(s) \in Nat
  BY <1>1, <1>4, <1>5, SumNat DEF UsdSum, GuessSum
<1>7. /\ UsdSum(t) = UsdSum(s) + Usd(t)[n + 1]
      /\ GuessSum(t) = GuessSum(s) + Guess(t)[n + 1]
  <2>1. /\ \A i \in 1 .. (n + 1) : Usd(t)[i] \in Nat
        /\ \A i \in 1 .. n : Usd(s)[i] = Usd(t)[i]
    BY <1>4
  <2>2. /\ \A i \in 1 .. (n + 1) : Guess(t)[i] \in Nat
        /\ \A i \in 1 .. n : Guess(s)[i] = Guess(t)[i]
    BY <1>4
  <2>3. n \in Nat /\ DOMAIN s = 1 .. n /\ DOMAIN t = 1 .. (n + 1)
    BY <1>1, <1>2
  <2>4. SumFunctionOnSet(Usd(t), 1 .. (n + 1)) = SumFunctionOnSet(Usd(s), 1 .. n) + Usd(t)[n + 1]
    BY <2>1, <2>3, SumNext
  <2>5. SumFunctionOnSet(Guess(t), 1 .. (n + 1)) = SumFunctionOnSet(Guess(s), 1 .. n) + Guess(t)[n + 1]
    BY <2>2, <2>3, SumNext
  <2> QED
    BY <2>3, <2>4, <2>5 DEF UsdSum, GuessSum
<1>8. Usd(t)[n + 1] = e.usd /\ Guess(t)[n + 1] = IF e.torn THEN MaxCost ELSE 0
  BY <1>1, <1>2, <1>3
<1> QED
  BY <1>6, <1>7, <1>8 DEF t

(* The sums of an empty ledger.                                             *)
LEMMA NoSums == UsdSum(<<>>) = 0 /\ GuessSum(<<>>) = 0
<1>1. DOMAIN <<>> = {}
  OBVIOUS
<1> QED
  BY <1>1, SumEmpty DEF UsdSum, GuessSum

(* What is read: the lines, and what follows the last newline as one more.  *)
LEMMA EntriesAre ==
  ASSUME TypeOK
  PROVE  /\ lines \in Seq(Entry) /\ Entries \in Seq(Entry)
         /\ tail = <<>> => Entries = lines
         /\ tail # <<>> => tail[1] \in Entry /\ Entries = Append(lines, tail[1])
<1>1. lines \in Seq(Entry) /\ tail \in Seq(Entry) /\ Len(tail) <= 1
  BY DEF TypeOK, Entry
<1>2. ASSUME tail # <<>> PROVE tail[1] \in Entry /\ tail = <<tail[1]>>
  <2>1. Len(tail) \in Nat /\ Len(tail) # 0
    BY <1>1, <1>2
  <2>2. Len(tail) = 1
    <3>1. \A n \in Nat : n <= 1 /\ n # 0 => n = 1
      OBVIOUS
    <3> QED
      BY <1>1, <2>1, <3>1
  <2>3. tail \in [1 .. 1 -> Entry]
    <3>1. tail \in [1 .. Len(tail) -> Entry]
      BY <1>1
    <3> QED
      BY <2>2, <3>1
  <2>4. tail[1] \in Entry
    BY <2>3
  <2>5. <<tail[1]>> \in Seq(Entry) /\ Len(<<tail[1]>>) = 1 /\ <<tail[1]>>[1] = tail[1]
    BY <2>4
  <2>6. tail = <<tail[1]>>
    BY <1>1, <2>2, <2>5
  <2> QED
    BY <2>4, <2>6
<1>3. ASSUME tail # <<>> PROVE Entries = Append(lines, tail[1])
  <2>1. Append(lines, tail[1]) = lines \o <<tail[1]>>
    BY <1>1, <1>2, <1>3
  <2> QED
    BY <1>2, <1>3, <2>1 DEF Entries
<1>4. Entries \in Seq(Entry)
  BY <1>1 DEF Entries
<1>5. tail = <<>> => Entries = lines
  BY <1>1 DEF Entries
<1> QED
  BY <1>1, <1>2, <1>3, <1>4, <1>5

(* An entry is charged its price, or, when it is torn and has none, a guess *)
(* no higher than the highest price.                                        *)
LEMMA ChargedIs ==
  ASSUME TypeOK, Cells, NEW i \in DOMAIN Entries
  PROVE  /\ Charged[i] \in Nat /\ Usd(Entries)[i] \in Nat /\ Guess(Entries)[i] \in Nat
         /\ Usd(Entries)[i] <= Charged[i] /\ Charged[i] <= Usd(Entries)[i] + Guess(Entries)[i]
         /\ ~Entries[i].torn => Charged[i] = Usd(Entries)[i] /\ Guess(Entries)[i] = 0
         /\ Entries[i].torn => Usd(Entries)[i] = 0
<1> DEFINE es == Entries
<1>1. es \in Seq(Entry) /\ Len(es) \in Nat /\ DOMAIN es = 1 .. Len(es)
  BY EntriesAre
<1>2. \A j \in 1 .. Len(es) : es[j] \in Entry /\ Cell(es[j])
  <2>1. CASE tail = <<>>
    BY <1>1, <2>1, EntriesAre DEF Cells
  <2>2. CASE tail # <<>>
    <3>1. /\ es = Append(lines, tail[1]) /\ Cell(tail[1]) /\ lines \in Seq(Entry)
          /\ \A j \in 1 .. Len(lines) : Cell(lines[j])
      BY <2>2, EntriesAre DEF Cells
    <3>2. \A j \in 1 .. Len(es) : es[j] = IF j = Len(lines) + 1 THEN tail[1] ELSE lines[j]
      BY <3>1
    <3>3. \A j \in 1 .. Len(es) : j = Len(lines) + 1 \/ j \in 1 .. Len(lines)
      BY <3>1
    <3> QED
      BY <1>1, <3>1, <3>2, <3>3
  <2> QED
    BY <2>1, <2>2
<1>3. /\ Charged[i] = IF es[i].torn THEN Max({0} \cup {es[j].usd : j \in 1 .. (i - 1)}) ELSE es[i].usd
      /\ Usd(es)[i] = es[i].usd /\ Guess(es)[i] = IF es[i].torn THEN MaxCost ELSE 0
  BY DEF Charged, Usd, Guess
<1>4. /\ i \in 1 .. Len(es) /\ es[i].usd \in Nat /\ es[i].torn \in BOOLEAN
      /\ es[i].usd <= MaxCost /\ (es[i].torn => es[i].usd = 0)
  BY <1>1, <1>2 DEF Cell, Entry
<1>5. \A j \in 1 .. (i - 1) : es[j].usd \in Nat /\ es[j].usd <= MaxCost
  <2>1. \A j \in 1 .. (i - 1) : j \in 1 .. Len(es)
    BY <1>1, <1>4
  <2> QED
    BY <1>2, <2>1 DEF Cell, Entry
<1> DEFINE seen == {0} \cup {es[j].usd : j \in 1 .. (i - 1)}
<1>6. seen \subseteq Nat /\ seen # {} /\ \A x \in seen : x <= MaxCost
  BY <1>5, CostBounds
<1> HIDE DEF seen
<1>7. Max(seen) \in Nat /\ Max(seen) <= MaxCost
  BY <1>6, CostBounds, MaxIn
<1>8. Charged[i] = IF es[i].torn THEN Max(seen) ELSE es[i].usd
  BY <1>3 DEF seen
<1> HIDE DEF es
<1>9. CASE es[i].torn
  BY <1>3, <1>4, <1>7, <1>8, <1>9, CostBounds DEF es
<1>10. CASE ~es[i].torn
  BY <1>3, <1>4, <1>8, <1>10, CostBounds DEF es
<1> QED
  BY <1>9, <1>10

(* What the cap counts is all that can be read, and the total exceeds it by *)
(* the guesses alone.                                                       *)
LEMMA LedgerSums ==
  ASSUME TypeOK, Cells
  PROVE  /\ Readable \in Nat /\ ScopedUsd \in Nat /\ TotalUsd \in Nat
         /\ Readable <= ScopedUsd /\ TotalUsd <= Readable + Guesses
<1> DEFINE D == DOMAIN Entries
           untorn == {i \in DOMAIN Entries : ~Entries[i].torn}
<1>1. lines \in Seq(Entry) /\ Entries \in Seq(Entry)
  BY EntriesAre
<1>2. Readable = UsdSum(Entries) /\ GuessSum(Entries) \in Nat /\ GuessSum(Entries) <= Guesses
      /\ UsdSum(Entries) \in Nat
  <2>1. CASE tail = <<>>
    <3>1. Entries = lines
      BY <2>1, EntriesAre
    <3>2. UsdSum(lines) \in Nat /\ GuessSum(lines) \in Nat
      BY <1>1, AppendSums, NoEntry
    <3> QED
      BY <2>1, <3>1, <3>2 DEF Readable, Guesses
  <2>2. CASE tail # <<>>
    <3>1. tail[1] \in Entry /\ Entries = Append(lines, tail[1])
      BY <2>2, EntriesAre
    <3>2. /\ UsdSum(lines) \in Nat /\ GuessSum(lines) \in Nat
          /\ UsdSum(Entries) = UsdSum(lines) + tail[1].usd
          /\ GuessSum(Entries) = GuessSum(lines) + IF tail[1].torn THEN MaxCost ELSE 0
      BY <1>1, <3>1, AppendSums
    <3>3. tail[1].usd \in Nat
      BY <3>1 DEF Entry
    <3> QED
      BY <2>2, <3>2, <3>3, CostBounds DEF Readable, Guesses
  <2> QED
    BY <2>1, <2>2
<1>3. IsFiniteSet(D) /\ IsFiniteSet(untorn)
  <2>1. Len(Entries) \in Nat /\ D = 1 .. Len(Entries)
    BY <1>1
  <2>2. IsFiniteSet(D)
    BY <2>1, FS_Interval
  <2>3. untorn \subseteq D
    OBVIOUS
  <2> QED
    BY <2>2, <2>3, FS_Subset
<1>4. TotalUsd = SumFunctionOnSet(Charged, D)
  BY DEF TotalUsd, SumFunction, Charged
<1>5. \A i \in D : /\ Charged[i] \in Nat /\ Usd(Entries)[i] \in Nat /\ Guess(Entries)[i] \in Nat
                   /\ Usd(Entries)[i] <= Charged[i] /\ Charged[i] <= Usd(Entries)[i] + Guess(Entries)[i]
                   /\ i \in untorn => Charged[i] = Usd(Entries)[i]
                   /\ i \notin untorn => Usd(Entries)[i] = 0
  BY ChargedIs
<1>6. untorn \subseteq D /\ D \cap untorn = untorn
  OBVIOUS
<1>7. UsdSum(Entries) = SumFunctionOnSet(Usd(Entries), D) /\ GuessSum(Entries) = SumFunctionOnSet(Guess(Entries), D)
  BY DEF UsdSum, GuessSum
<1>8. ScopedUsd = IF Scoped THEN SumFunctionOnSet(Charged, untorn) ELSE TotalUsd
  BY DEF ScopedUsd
<1> HIDE DEF D, untorn
<1>9. /\ SumFunctionOnSet(Charged, D) \in Nat /\ SumFunctionOnSet(Charged, untorn) \in Nat
      /\ SumFunctionOnSet(Usd(Entries), D) <= SumFunctionOnSet(Charged, D)
  <2>1. \A i \in untorn : Charged[i] \in Nat
    BY <1>5, <1>6
  <2> QED
    BY <1>3, <1>5, <2>1, SumNat, SumMono
<1>10. SumFunctionOnSet(Charged, D)
         <= SumFunctionOnSet(Usd(Entries), D) + SumFunctionOnSet(Guess(Entries), D)
  BY <1>3, <1>5, SumBelow
<1>11. SumFunctionOnSet(Usd(Entries), D) = SumFunctionOnSet(Charged, untorn)
  <2>1. SumFunctionOnSet(Usd(Entries), D) = SumFunctionOnSet(Usd(Entries), D \cap untorn)
    BY <1>3, <1>5, SumPart
  <2>2. \A i \in untorn : Usd(Entries)[i] = Charged[i]
    BY <1>5, <1>6
  <2>3. SumFunctionOnSet(Usd(Entries), untorn) = SumFunctionOnSet(Charged, untorn)
    BY <1>3, <2>2, SumAgree
  <2> QED
    BY <1>6, <2>1, <2>3
<1>12. Guesses \in Int
  <2>1. GuessSum(lines) \in Nat
    BY <1>1, NoEntry, AppendSums
  <2> QED
    BY <2>1, CostBounds DEF Guesses
<1> QED
  BY <1>2, <1>4, <1>7, <1>8, <1>9, <1>10, <1>11, <1>12

-----------------------------------------------------------------------------
(* The initial state satisfies the inductive invariant.                     *)
LEMMA InitIInv == Init => IInv
<1> SUFFICES ASSUME Init PROVE IInv
  OBVIOUS
<1>1. TypeOK
  <2>1. lines \in Seq(Entry) /\ tail \in Seq(Entry) /\ Len(tail) <= 1
    BY DEF Init
  <2>2. calls \in [Procs -> CallLog]
    BY DEF Init, NoCalls, CallLog
  <2>3. calm \in BOOLEAN
    BY DEF Init
  <2> QED
    BY <2>1, <2>2, <2>3 DEF Init, TypeOK, Entry, CallLog
<1>2. Prices
  BY DEF Init, Prices, NoCalls
<1>3. Room
  <2>1. ASSUME NEW p \in Procs, Threads(p) # {}
        PROVE  calls[p].spent + MaxCost * Cardinality(InFlight(p))
                 <= RunCap + (Cardinality(Threads(p)) - 1) * MaxCost
    <3>1. InFlight(p) = {}
      BY DEF Init, InFlight, Threads
    <3>2. Cardinality(InFlight(p)) = 0 /\ calls[p].spent = 0
      BY <3>1, FS_EmptySet DEF Init, NoCalls
    <3>3. (Cardinality(Threads(p)) - 1) * MaxCost \in Nat
      BY <2>1, ThreadsFinite, CostBounds
    <3> QED
      BY <3>2, <3>3, CostBounds
  <2> QED
    BY <2>1 DEF Room
<1>4. Accounts /\ Exact /\ Fits
  <2>1. /\ lines = <<>> /\ tail = <<>> /\ paid = 0 /\ attempted = 0 /\ tears = 0
        /\ \A w \in Workers : due[w] = 0 /\ Exposure[w] = 0
    BY DEF Init, Exposure
  <2>2. DueSum = 0 /\ SumFunctionOnSet(Exposure, Workers) = 0
    BY <2>1, SumZero DEF DueSum
  <2>3. UsdSum(lines) = 0 /\ GuessSum(lines) = 0 /\ DOMAIN lines = {}
    BY <2>1, NoSums
  <2>4. Readable = 0 /\ Guesses = 0 /\ AtRisk = 0 /\ MaxCost * tears = 0
    BY <2>1, <2>3, CostBounds DEF Readable, Guesses, AtRisk
  <2>5. Cells /\ Owed
    BY <2>1, <2>3, CostBounds DEF Cells, Owed
  <2>6. Accounts
    BY <2>1, <2>2, <2>4, <2>5 DEF Accounts
  <2>7. Exact
    BY <2>1, <2>2, <2>3 DEF Exact
  <2>8. (Cardinality(Workers) - 1) * MaxCost \in Nat
    <3>1. Cardinality(Workers) \in Nat /\ Cardinality(Workers) # 0
      BY FS_CardinalityType, FS_EmptySet
    <3>2. Cardinality(Workers) - 1 \in Nat
      BY <3>1
    <3> QED
      BY <3>2, CostBounds
  <2>9. Fits
    BY <2>1, <2>2, <2>8 DEF Fits
  <2> QED
    BY <2>6, <2>7, <2>9
<1> QED
  BY <1>1, <1>2, <1>3, <1>4 DEF IInv

(* Logging a call keeps the log of every process in its type.               *)
LEMMA LoggedType ==
  ASSUME calls \in [Procs -> CallLog], NEW p \in Procs, NEW c \in Nat, Logged(p, c)
  PROVE  /\ calls' \in [Procs -> CallLog]
         /\ calls'[p].spent = calls[p].spent + c /\ calls'[p].n = calls[p].n + 1
         /\ calls'[p].largest = IF c > calls[p].largest THEN c ELSE calls[p].largest
         /\ \A q \in Procs \ {p} : calls'[q] = calls[q]
<1>1. calls[p].n + 1 \in Nat /\ calls[p].spent + c \in Nat /\ calls[p].largest \in Nat
  BY DEF CallLog
<1>2. calls' = [calls EXCEPT ![p] = [n |-> calls[p].n + 1, spent |-> calls[p].spent + c,
                  largest |-> IF c > calls[p].largest THEN c ELSE calls[p].largest]]
  BY DEF Logged
<1>3. [n |-> calls[p].n + 1, spent |-> calls[p].spent + c,
       largest |-> IF c > calls[p].largest THEN c ELSE calls[p].largest] \in CallLog
  BY <1>1 DEF CallLog
<1> QED
  BY <1>2, <1>3

(* Each step keeps the variables in their types.                            *)
LEMMA TypeStep == TypeOK /\ [Next]_vars => TypeOK'
<1> SUFFICES ASSUME TypeOK, [Next]_vars PROVE TypeOK'
  OBVIOUS
<1>a. /\ lines \in Seq(Entry) /\ tail \in Seq(Entry) /\ Len(tail) <= 1
      /\ calls \in [Procs -> CallLog]
  BY DEF TypeOK, Entry, CallLog
<1>b. Torn \in Entry /\ \A c \in Nat : Priced(c) \in Entry
  BY DEF Torn, Priced, Entry
<1>c. \A w \in Workers : due[w] \in Nat /\ ProcOf[w] \in Procs
  BY DEF TypeOK
<1>1. ASSUME NEW w \in Workers, Record(w) PROVE TypeOK'
  <2>1. lines' \in Seq(Entry) /\ tail' \in Seq(Entry) /\ Len(tail') <= 1
    BY <1>1, <1>a, <1>b, <1>c DEF Record
  <2>2. calls' \in [Procs -> CallLog]
    BY <1>1, <1>a, <1>c, LoggedType DEF Record
  <2>3. pc' \in [Workers -> {"idle", "forward", "record"}] /\ due' \in [Workers -> Nat]
    BY <1>1 DEF Record, Goto, TypeOK
  <2>4. /\ paid' \in Nat /\ attempted' \in Nat /\ tears' \in Nat /\ forwarded' \in Nat
        /\ calm' = calm
    BY <1>1, <1>c DEF Record, TypeOK
  <2> QED
    BY <2>1, <2>2, <2>3, <2>4 DEF TypeOK, Entry, CallLog
<1>2. ASSUME NEW w \in Workers, RecordTorn(w) PROVE TypeOK'
  <2>1. lines' \in Seq(Entry) /\ tail' \in Seq(Entry) /\ Len(tail') <= 1
    BY <1>2, <1>a, <1>b, <1>c DEF RecordTorn
  <2>2. calls' \in [Procs -> CallLog]
    BY <1>2, <1>a, <1>c, LoggedType DEF RecordTorn
  <2>3. pc' \in [Workers -> {"idle", "forward", "record"}] /\ due' \in [Workers -> Nat]
    BY <1>2 DEF RecordTorn, Goto, TypeOK
  <2>4. paid' \in Nat /\ attempted' \in Nat /\ tears' \in Nat /\ forwarded' \in Nat
    BY <1>2, <1>c DEF RecordTorn, TypeOK
  <2>5. calm' \in BOOLEAN
    BY <1>2, Zenon DEF RecordTorn
  <2> QED
    BY <2>1, <2>2, <2>3, <2>4, <2>5 DEF TypeOK, Entry, CallLog
<1>3. ASSUME NEW w \in Workers, Check(w) \/ Reply(w) \/ ReplyUnpriced(w) \/ ClientRaises(w) PROVE TypeOK'
  <2>1. UNCHANGED <<lines, tail, calls, attempted, tears>>
    BY <1>3 DEF Check, Reply, ReplyUnpriced, ClientRaises
  <2>2. pc' \in [Workers -> {"idle", "forward", "record"}]
    BY <1>3 DEF Check, Reply, ReplyUnpriced, ClientRaises, Goto, TypeOK
  <2>3. due' \in [Workers -> Nat]
    <3>1. due' = due \/ \E c \in Nat : due' = [due EXCEPT ![w] = c]
      BY <1>3 DEF Check, Reply, ReplyUnpriced, ClientRaises
    <3> QED
      BY <3>1 DEF TypeOK
  <2>4. paid' \in Nat /\ forwarded' \in Nat
    <3>1. paid' = paid \/ \E c \in Nat : paid' = paid + c
      BY <1>3 DEF Check, Reply, ReplyUnpriced, ClientRaises
    <3>2. forwarded' = forwarded \/ forwarded' = forwarded + 1
      BY <1>3 DEF Check, Reply, ReplyUnpriced, ClientRaises
    <3> QED
      BY <3>1, <3>2, SMTT(30) DEF TypeOK
  <2>5. calm' \in BOOLEAN
    BY <1>3, Zenon DEF Check, Reply, ReplyUnpriced, ClientRaises, TypeOK
  <2> QED
    BY <2>1, <2>2, <2>3, <2>4, <2>5 DEF TypeOK
<1>4. ASSUME NEW p \in Procs, Crash(p) PROVE TypeOK'
  BY <1>4 DEF Crash, NoCalls, TypeOK
<1>5. CASE UNCHANGED vars
  BY <1>5 DEF vars, TypeOK
<1> QED
  BY <1>1, <1>2, <1>3, <1>4, <1>5 DEF Next

(* A thread that enters or leaves the flight counts for one.                *)
LEMMA FlightSteps ==
  ASSUME TypeOK, NEW w \in Workers, NEW label \in {"idle", "forward", "record"}, Goto(w, label)
  PROVE  /\ pc[w] # "idle" /\ label = "idle" =>
              Cardinality(InFlight(ProcOf[w])') = Cardinality(InFlight(ProcOf[w])) - 1
         /\ pc[w] # "idle" /\ label # "idle" => InFlight(ProcOf[w])' = InFlight(ProcOf[w])
         /\ \A q \in Procs \ {ProcOf[w]} : InFlight(q)' = InFlight(q)
<1>1. \A v \in Workers : pc'[v] = IF v = w THEN label ELSE pc[v]
  BY DEF Goto, TypeOK
<1>2. \A q \in Procs \ {ProcOf[w]} : InFlight(q)' = InFlight(q)
  BY <1>1 DEF InFlight, Threads
<1>3. ASSUME pc[w] # "idle", label = "idle"
      PROVE  Cardinality(InFlight(ProcOf[w])') = Cardinality(InFlight(ProcOf[w])) - 1
  <2>1. InFlight(ProcOf[w])' = InFlight(ProcOf[w]) \ {w} /\ w \in InFlight(ProcOf[w])
    BY <1>1, <1>3 DEF InFlight, Threads
  <2>2. IsFiniteSet(InFlight(ProcOf[w]))
    BY ThreadsFinite
  <2>3. Cardinality(InFlight(ProcOf[w]) \ {w}) = Cardinality(InFlight(ProcOf[w])) - 1
    BY <2>1, <2>2, FS_RemoveElement
  <2> QED
    BY <2>1, <2>3
<1>4. ASSUME pc[w] # "idle", label # "idle" PROVE InFlight(ProcOf[w])' = InFlight(ProcOf[w])
  BY <1>1, <1>4 DEF InFlight, Threads
<1> QED
  BY <1>2, <1>3, <1>4

(* A product with a number that is not negative.                            *)
LEMMA MulMono == \A a, b, c \in Int : a <= b /\ 0 <= c => c * a <= c * b
  BY SMTT(30)

(* The reserve covers one call at any steady price.                         *)
LEMMA ReserveCovers ==
  ASSUME TypeOK, Steady, Prices, NEW p \in Procs
  PROVE  2 * MaxCost <= TwiceReserve(p) /\ TwiceReserve(p) \in Nat
<1>1. calls[p].n \in Nat /\ calls[p].largest \in Nat
  BY DEF TypeOK
<1>2. CASE calls[p].n > 0
  BY <1>1, <1>2, CostBounds DEF TwiceReserve, Steady, Prices
<1>3. CASE ~(calls[p].n > 0)
  BY <1>3, CostBounds DEF TwiceReserve, Steady
<1> QED
  BY <1>2, <1>3

(* A check that passes leaves room for one call under either cap.           *)
LEMMA CheckLeavesRoom ==
  ASSUME TypeOK, Cells, Steady, Prices, NEW p \in Procs, ~Refused(p)
  PROVE  calls[p].spent + MaxCost <= RunCap /\ Readable + MaxCost <= TotalCap
<1>1. calls[p].spent \in Nat
  BY DEF TypeOK
<1>2. Readable \in Nat /\ ScopedUsd \in Nat /\ Readable <= ScopedUsd
  BY LedgerSums
<1>3. 2 * MaxCost <= TwiceReserve(p) /\ TwiceReserve(p) \in Nat
  BY ReserveCovers
<1>4. /\ ~(2 * calls[p].spent + TwiceReserve(p) > 2 * RunCap)
      /\ ~(2 * ScopedUsd + TwiceReserve(p) > 2 * TotalCap)
  BY DEF Refused
<1>5. calls[p].spent + MaxCost <= RunCap
  BY <1>1, <1>3, <1>4, CostBounds
<1>6. Readable + MaxCost <= TotalCap
  BY <1>2, <1>3, <1>4, CostBounds
<1> QED
  BY <1>5, <1>6

(* The prices known and the room left stay as stated until a fault.         *)
LEMMA RoomStep ==
  ASSUME TypeOK, Cells, Steady, calm => Prices /\ Room, [Next]_vars, calm'
  PROVE  Prices' /\ Room'
<1>a. calm
  BY DEF Next, Check, Reply, ReplyUnpriced, ClientRaises, Record, RecordTorn, Crash, vars
<1>b. Prices /\ Room
  BY <1>a
<1>c. /\ \A p \in Procs : calls[p] \in CallLog
      /\ \A w \in Workers : due[w] \in Nat /\ ProcOf[w] \in Procs
      /\ calls \in [Procs -> CallLog]
  BY DEF TypeOK, CallLog
<1>1. ASSUME NEW w \in Workers, Check(w) PROVE Prices' /\ Room'
  <2>1. UNCHANGED <<calls, due>> /\ Goto(w, "forward") /\ ~Refused(ProcOf[w])
    BY <1>1 DEF Check
  <2>2. Prices'
    BY <1>b, <2>1 DEF Prices, Goto, TypeOK
  <2>3. ASSUME NEW p \in Procs, Threads(p) # {}
        PROVE  calls'[p].spent + MaxCost * Cardinality(InFlight(p)')
                 <= RunCap + (Cardinality(Threads(p)) - 1) * MaxCost
    <3>1. CASE p = ProcOf[w]
      <4>1. calls[p].spent + MaxCost <= RunCap
        BY <1>b, <2>1, <3>1, CheckLeavesRoom
      <4>2. /\ Cardinality(InFlight(p)') \in Nat /\ Cardinality(Threads(p)) \in Nat
            /\ Cardinality(InFlight(p)') <= Cardinality(Threads(p))
        <5>1. InFlight(p)' \subseteq Threads(p)
          BY DEF InFlight, Threads
        <5> QED
          BY <5>1, ThreadsFinite, FS_Subset, FS_CardinalityType
      <4>3. MaxCost * Cardinality(InFlight(p)') <= MaxCost * Cardinality(Threads(p))
        BY <4>2, CostBounds, MulMono
      <4>4. (Cardinality(Threads(p)) - 1) * MaxCost = MaxCost * Cardinality(Threads(p)) - MaxCost
        BY <4>2, CostBounds, MulStep
      <4>5. /\ MaxCost * Cardinality(InFlight(p)') \in Int /\ MaxCost * Cardinality(Threads(p)) \in Int
            /\ calls[p].spent \in Nat /\ calls' = calls
        BY <1>c, <2>1, <4>2, CostBounds DEF CallLog
      <4> QED
        BY <4>1, <4>3, <4>4, <4>5, CostBounds
    <3>2. CASE p # ProcOf[w]
      <4>1. InFlight(p)' = InFlight(p)
        BY <2>1, <3>2, FlightSteps
      <4> QED
        BY <1>b, <2>1, <2>3, <4>1 DEF Room
    <3> QED
      BY <3>1, <3>2
  <2>4. \A p : Threads(p)' = Threads(p)
    BY DEF Threads
  <2> QED
    BY <2>2, <2>3, <2>4 DEF Room
<1>2. ASSUME NEW w \in Workers, Reply(w) PROVE Prices' /\ Room'
  <2>1. /\ calls' = calls /\ Goto(w, "record") /\ pc[w] = "forward"
        /\ \E c \in Costs : due' = [due EXCEPT ![w] = c]
    BY <1>2 DEF Reply
  <2>2. Prices'
    BY <1>b, <2>1 DEF Prices, Goto, TypeOK
  <2>3. \A p \in Procs : InFlight(p)' = InFlight(p) /\ Threads(p)' = Threads(p)
    BY <2>1, FlightSteps DEF Threads
  <2> QED
    BY <1>b, <2>1, <2>2, <2>3 DEF Room
<1>3. ASSUME NEW w \in Workers, Record(w) PROVE Prices' /\ Room'
  <2>1. /\ Logged(ProcOf[w], due[w]) /\ Goto(w, "idle") /\ pc[w] = "record"
        /\ due' = [due EXCEPT ![w] = 0] /\ due[w] \in Costs
    BY <1>b, <1>3 DEF Record, Prices
  <2>2. /\ calls'[ProcOf[w]].spent = calls[ProcOf[w]].spent + due[w]
        /\ calls'[ProcOf[w]].largest >= due[w]
        /\ \A q \in Procs \ {ProcOf[w]} : calls'[q] = calls[q]
    BY <1>c, <2>1, LoggedType DEF CallLog
  <2>3. MinCost <= due[w] /\ due[w] <= MaxCost /\ due[w] \in Nat
    BY <1>c, <2>1, CostBounds
  <2>4. Prices'
    <3>1. ASSUME NEW v \in Workers, pc'[v] = "record" PROVE due'[v] \in Costs
      BY <1>b, <2>1, <3>1 DEF Prices, Goto, TypeOK
    <3>2. ASSUME NEW p \in Procs, calls'[p].n > 0 PROVE calls'[p].largest >= MinCost
      <4>1. CASE p = ProcOf[w]
        <5>1. calls'[p].largest \in Nat
          BY <1>c, <2>1, LoggedType DEF CallLog
        <5> QED
          BY <2>2, <2>3, <4>1, <5>1, CostBounds
      <4>2. CASE p # ProcOf[w]
        BY <1>b, <2>2, <3>2, <4>2 DEF Prices
      <4> QED
        BY <4>1, <4>2
    <3>3. MinCost' = MinCost
      BY DEF MinCost
    <3> QED
      BY <3>1, <3>2, <3>3 DEF Prices
  <2>5. ASSUME NEW p \in Procs, Threads(p) # {}
        PROVE  calls'[p].spent + MaxCost * Cardinality(InFlight(p)')
                 <= RunCap + (Cardinality(Threads(p)) - 1) * MaxCost
    <3>1. CASE p = ProcOf[w]
      <4>1. Cardinality(InFlight(p)') = Cardinality(InFlight(p)) - 1
        BY <2>1, <3>1, FlightSteps
      <4>2. MaxCost * Cardinality(InFlight(p)') = MaxCost * Cardinality(InFlight(p)) - MaxCost
        BY <4>1, ThreadsFinite, CostBounds, MulStep
      <4>3. calls'[p].spent = calls[p].spent + due[w] /\ calls[p].spent \in Nat
        BY <1>c, <2>2, <3>1 DEF CallLog
      <4>4. MaxCost * Cardinality(InFlight(p)) \in Int
            /\ (Cardinality(Threads(p)) - 1) * MaxCost \in Int
        BY ThreadsFinite, CostBounds
      <4>5. calls[p].spent + MaxCost * Cardinality(InFlight(p))
              <= RunCap + (Cardinality(Threads(p)) - 1) * MaxCost
        BY <1>b, <2>5 DEF Room
      <4> QED
        BY <2>3, <4>2, <4>3, <4>4, <4>5, CostBounds
    <3>2. CASE p # ProcOf[w]
      <4>1. InFlight(p)' = InFlight(p) /\ calls'[p] = calls[p]
        BY <2>1, <2>2, <3>2, FlightSteps
      <4> QED
        BY <1>b, <2>5, <4>1 DEF Room
    <3> QED
      BY <3>1, <3>2
  <2>6. \A p : Threads(p)' = Threads(p)
    BY DEF Threads
  <2> QED
    BY <2>4, <2>5, <2>6 DEF Room
<1>4. CASE UNCHANGED vars
  BY <1>b, <1>4 DEF vars, Prices, Room, InFlight, Threads
<1> QED
  BY <1>a, <1>1, <1>2, <1>3, <1>4 DEF Next, ReplyUnpriced, ClientRaises, RecordTorn, Crash

-----------------------------------------------------------------------------
(* The accounts *)

(* What is moved from one sum to another: facts about numbers, which the    *)
(* prover does not find among the terms of a step.                          *)
LEMMA Moved == \A n, m, o, c \in Nat : n + m = o + c /\ c <= m => n <= o
  OBVIOUS

(* A smaller summand keeps a sum under its bound.                           *)
LEMMA Lesser == \A a, n, o, k \in Nat : \A x \in Int : a + o <= k + x /\ n <= o => a + n <= k + x
  OBVIOUS

(* What one summand loses another gains.                                    *)
LEMMA Passed == \A a, t, d \in Nat : a + (t + d) = (a + d) + t
  OBVIOUS

(* Adding zero.                                                             *)
LEMMA Zero ==
  /\ \A t, s, c \in Nat : t + 0 = s + c => t = s + c
  /\ \A t, s, d \in Nat : t + d = s + 0 => t + d = s
  /\ \A n \in Nat : n + 0 = n
  OBVIOUS

(* Nothing changes in the ledger.                                           *)
LEMMA LedgerKept ==
  ASSUME UNCHANGED <<lines, tail>>
  PROVE  Cells' = Cells /\ Readable' = Readable /\ Guesses' = Guesses /\ AtRisk' = AtRisk
<1>1. /\ UsdSum(lines)' = UsdSum(lines) /\ GuessSum(lines)' = GuessSum(lines)
      /\ MaxCost' = MaxCost
  BY DEF UsdSum, GuessSum, Usd, Guess, MaxCost
<1> QED
  BY <1>1 DEF Cells, Cell, Readable, Guesses, AtRisk

(* The price in the hand of one thread changes.                             *)
LEMMA DueChange ==
  ASSUME TypeOK, NEW w \in Workers, NEW c \in Nat, due' = [due EXCEPT ![w] = c]
  PROVE  /\ DueSum \in Nat /\ DueSum' \in Nat /\ DueSum' + due[w] = DueSum + c
         /\ due[w] = 0 => DueSum' = DueSum + c
         /\ c = 0 => DueSum' + due[w] = DueSum
<1> DEFINE g == [due EXCEPT ![w] = c]
<1>1. /\ \A v \in Workers : due[v] \in Nat /\ g[v] \in Nat
      /\ \A v \in Workers \ {w} : due[v] = g[v]
      /\ g[w] = c
  BY DEF TypeOK
<1>2. due' = g
  OBVIOUS
<1> HIDE DEF g
<1>3. SumFunctionOnSet(g, Workers) + due[w] = SumFunctionOnSet(due, Workers) + g[w]
  BY <1>1, SumChange
<1>4. SumFunctionOnSet(due, Workers) \in Nat /\ SumFunctionOnSet(g, Workers) \in Nat
  BY <1>1, SumNat
<1>5. DueSum' = SumFunctionOnSet(g, Workers) /\ DueSum = SumFunctionOnSet(due, Workers)
  BY <1>2 DEF DueSum
<1>6. DueSum \in Nat /\ DueSum' \in Nat /\ DueSum' + due[w] = DueSum + c /\ due[w] \in Nat
  BY <1>1, <1>3, <1>4, <1>5
<1> QED
  BY <1>6, Zero

(* What a thread may write.                                                 *)
LEMMA Written ==
  ASSUME NEW c \in Nat, c <= MaxCost
  PROVE  /\ Priced(c) \in Entry /\ Cell(Priced(c)) /\ Priced(c).usd = c /\ ~Priced(c).torn
         /\ Torn \in Entry /\ Cell(Torn) /\ Torn.usd = 0 /\ Torn.torn
<1>1. /\ Priced(c) \in Entry /\ Priced(c).usd = c /\ ~Priced(c).torn
      /\ Torn \in Entry /\ Torn.usd = 0 /\ Torn.torn
  BY DEF Priced, Torn, Entry
<1> QED
  BY <1>1, CostBounds DEF Cell

(* What a record, whole or cut, does to the ledger.                         *)
LEMMA LedgerRecord ==
  ASSUME TypeOK, Cells, Owed, NEW w \in Workers, Record(w)
  PROVE  /\ Cells' /\ AtRisk' = 0 /\ Guesses' = Guesses /\ Readable' \in Nat
         /\ tail = <<>> => Readable' = Readable + due[w]
         /\ tail # <<>> => Readable' <= Readable /\ Readable + due[w] <= Readable' + AtRisk
<1>1. /\ lines' = Append(lines, IF tail = <<>> THEN Priced(due[w]) ELSE Torn) /\ tail' = <<>>
      /\ due[w] \in Nat /\ due[w] <= MaxCost
  BY DEF Record, TypeOK, Owed
<1> DEFINE e == IF tail = <<>> THEN Priced(due[w]) ELSE Torn
<1>2. /\ e \in Entry /\ Cell(e) /\ e.usd = (IF tail = <<>> THEN due[w] ELSE 0)
      /\ e.torn <=> tail # <<>>
  <2>1. CASE tail = <<>>
    BY <1>1, <2>1, Written
  <2>2. CASE tail # <<>>
    BY <1>1, <2>2, Written
  <2> QED
    BY <2>1, <2>2
<1>3. lines \in Seq(Entry) /\ lines' = Append(lines, e)
  BY <1>1, EntriesAre
<1>4. tail # <<>> => tail[1] \in Entry /\ Cell(tail[1])
  BY EntriesAre DEF Cells
<1> HIDE DEF e
<1>5. /\ UsdSum(lines) \in Nat /\ GuessSum(lines) \in Nat
      /\ UsdSum(lines') = UsdSum(lines) + e.usd
      /\ GuessSum(lines') = GuessSum(lines) + IF e.torn THEN MaxCost ELSE 0
  BY <1>2, <1>3, AppendSums
<1>6. UsdSum(lines)' = UsdSum(lines') /\ GuessSum(lines)' = GuessSum(lines') /\ MaxCost' = MaxCost
  BY DEF UsdSum, GuessSum, Usd, Guess, MaxCost
<1>7. Readable' = UsdSum(lines) + e.usd /\ AtRisk' = 0
      /\ Guesses' = GuessSum(lines) + IF e.torn THEN MaxCost ELSE 0
  <2>1. Readable' = UsdSum(lines') + 0
    BY <1>1, <1>6 DEF Readable
  <2>2. Guesses' = GuessSum(lines') + 0
    BY <1>1, <1>6 DEF Guesses
  <2>3. AtRisk' = 0
    BY <1>1 DEF AtRisk
  <2>4. e.usd \in Nat
    BY <1>2 DEF Entry
  <2> QED
    BY <1>5, <2>1, <2>2, <2>3, <2>4, CostBounds
<1>8. Cells'
  <2>1. \A i \in DOMAIN lines' : lines'[i] = e \/ (i \in DOMAIN lines /\ lines'[i] = lines[i])
    BY <1>3
  <2>2. \A i \in DOMAIN lines' : Cell(lines'[i])
    BY <1>2, <2>1 DEF Cells
  <2> QED
    BY <1>1, <1>6, <2>2 DEF Cells, Cell
<1>9. CASE tail = <<>>
  <2>1. Readable = UsdSum(lines) + 0 /\ Guesses = GuessSum(lines) + 0
    BY <1>9 DEF Readable, Guesses
  <2>2. e.usd = due[w] /\ ~e.torn
    BY <1>2, <1>9
  <2>3. Readable' = UsdSum(lines) + due[w] /\ Guesses' = GuessSum(lines) + 0
    BY <1>7, <2>2
  <2> QED
    BY <1>1, <1>5, <1>7, <1>8, <1>9, <2>1, <2>3
<1>10. CASE tail # <<>>
  <2>1. tail[1].usd \in Nat /\ tail[1].usd <= MaxCost /\ (tail[1].torn => tail[1].usd = 0)
    BY <1>4, <1>10 DEF Entry, Cell
  <2>2. Readable = UsdSum(lines) + tail[1].usd /\ Readable' = UsdSum(lines)
    BY <1>2, <1>5, <1>7, <1>10 DEF Readable
  <2>3. Guesses' = Guesses
    BY <1>2, <1>7, <1>10 DEF Guesses
  <2>4. AtRisk = IF tail[1].torn THEN MaxCost ELSE MaxCost + MaxCost
    BY <1>10 DEF AtRisk
  <2>5. Readable + due[w] <= Readable' + AtRisk /\ Readable' <= Readable
    <3>1. CASE tail[1].torn
      BY <1>1, <1>5, <2>1, <2>2, <2>4, <3>1, CostBounds
    <3>2. CASE ~tail[1].torn
      <4>1. AtRisk = MaxCost + MaxCost
        BY <2>4, <3>2
      <4>2. tail[1].usd \in Nat /\ tail[1].usd <= MaxCost
        BY <2>1
      <4>3. UsdSum(lines) \in Nat /\ due[w] \in Nat /\ due[w] <= MaxCost /\ MaxCost \in Nat
        BY <1>1, <1>5, CostBounds
      <4>4. \A u, c, d, m \in Nat : c <= m /\ d <= m => (u + c) + d <= u + (m + m) /\ u <= u + c
        OBVIOUS
      <4> QED
        BY <2>2, <4>1, <4>2, <4>3, <4>4
    <3> QED
      BY <3>1, <3>2
  <2> QED
    BY <1>5, <1>7, <1>8, <1>10, <2>2, <2>3, <2>5
<1> QED
  BY <1>9, <1>10

(* A cut record hides what it lands on, and is a guess of its own.          *)
LEMMA LedgerTorn ==
  ASSUME TypeOK, Cells, Owed, NEW w \in Workers, RecordTorn(w)
  PROVE  /\ Cells' /\ Readable' \in Nat /\ Readable' <= Readable + due[w]
         /\ due[w] + AtRisk' + Readable <= Readable' + AtRisk + 2 * MaxCost
         /\ Guesses' <= Guesses + MaxCost
<1>1. /\ lines' = lines
      /\ \E cut \in {Torn, Priced(due[w])} : tail' = <<IF tail = <<>> THEN cut ELSE Torn>>
      /\ due[w] \in Nat /\ due[w] <= MaxCost
  BY DEF RecordTorn, TypeOK, Owed
<1>2. PICK e : /\ tail' = <<e>> /\ e \in Entry /\ Cell(e) /\ e.usd <= due[w]
               /\ ~e.torn => tail = <<>> /\ e.usd = due[w]
  <2>1. \A cut \in {Torn, Priced(due[w])} :
          /\ cut \in Entry /\ Cell(cut) /\ cut.usd <= due[w]
          /\ ~cut.torn => cut.usd = due[w]
    BY <1>1, Written
  <2>2. Torn.torn
    BY DEF Torn
  <2> QED
    BY <1>1, <2>1, <2>2
<1>3. tail' # <<>> /\ tail'[1] = e
  BY <1>2
<1>4. UsdSum(lines)' = UsdSum(lines) /\ GuessSum(lines)' = GuessSum(lines) /\ MaxCost' = MaxCost
  BY <1>1 DEF UsdSum, GuessSum, Usd, Guess, MaxCost
<1>5. /\ Readable' = UsdSum(lines) + e.usd /\ Guesses' = GuessSum(lines) + MaxCost
      /\ AtRisk' = IF e.torn THEN MaxCost ELSE MaxCost + MaxCost
  BY <1>3, <1>4 DEF Readable, Guesses, AtRisk
<1>6. UsdSum(lines) \in Nat /\ GuessSum(lines) \in Nat /\ e.usd \in Nat /\ e.torn \in BOOLEAN
  <2>1. lines \in Seq(Entry)
    BY EntriesAre
  <2> QED
    BY <1>2, <2>1, AppendSums DEF Entry
<1>7. Cells'
  BY <1>1, <1>2, <1>3, <1>4 DEF Cells, Cell
<1>8. CASE tail = <<>>
  <2>1. Readable = UsdSum(lines) + 0 /\ Guesses = GuessSum(lines) + 0 /\ AtRisk = 0
    BY <1>8 DEF Readable, Guesses, AtRisk
  <2>2. CASE e.torn
    <3>1. AtRisk' = MaxCost /\ e.usd <= due[w]
      BY <1>2, <1>5, <2>2
    <3> QED
      BY <1>1, <1>5, <1>6, <1>7, <2>1, <3>1, CostBounds, SMTT(30)
  <2>3. CASE ~e.torn
    <3>1. AtRisk' = MaxCost + MaxCost /\ e.usd = due[w]
      BY <1>2, <1>5, <2>3
    <3> QED
      BY <1>1, <1>5, <1>6, <1>7, <2>1, <3>1, CostBounds
  <2> QED
    BY <2>2, <2>3
<1>9. CASE tail # <<>>
  <2>1. tail[1] \in Entry /\ Cell(tail[1])
    BY <1>9, EntriesAre DEF Cells
  <2>2. tail[1].usd \in Nat /\ tail[1].usd <= MaxCost /\ (tail[1].torn => tail[1].usd = 0)
    BY <2>1 DEF Entry, Cell
  <2>3. /\ Readable = UsdSum(lines) + tail[1].usd /\ Guesses = GuessSum(lines) + MaxCost
        /\ AtRisk = IF tail[1].torn THEN MaxCost ELSE MaxCost + MaxCost
    BY <1>9 DEF Readable, Guesses, AtRisk
  <2>4. e.torn
    BY <1>2, <1>6, <1>9
  <2>5. AtRisk' = MaxCost /\ e.usd <= due[w]
    BY <1>2, <1>5, <2>4
  <2>8. /\ UsdSum(lines) \in Nat /\ GuessSum(lines) \in Nat /\ e.usd \in Nat
        /\ due[w] \in Nat /\ due[w] <= MaxCost /\ MaxCost \in Nat
    BY <1>1, <1>6, CostBounds
  <2>9. \A u, g, c, d, x, m \in Nat : c <= m /\ d <= m /\ x <= d =>
          /\ u + x \in Nat /\ u + x <= (u + c) + d /\ g + m <= (g + m) + m
          /\ d + m + (u + 0) <= (u + x) + m + 2 * m
          /\ d + m + (u + c) <= (u + x) + (m + m) + 2 * m
    OBVIOUS
  <2>6. CASE tail[1].torn
    <3>1. AtRisk = MaxCost /\ Readable = UsdSum(lines) + 0
      BY <2>2, <2>3, <2>6
    <3>2. Guesses = GuessSum(lines) + MaxCost
      BY <2>3
    <3> QED
      BY <1>5, <1>7, <2>5, <2>8, <2>9, <3>1, <3>2
  <2>7. CASE ~tail[1].torn
    <3>1. AtRisk = MaxCost + MaxCost
      BY <2>3, <2>7
    <3>2. Readable = UsdSum(lines) + tail[1].usd /\ Guesses = GuessSum(lines) + MaxCost
      BY <2>3
    <3>3. tail[1].usd \in Nat /\ tail[1].usd <= MaxCost
      BY <2>2
    <3> QED
      BY <1>5, <1>7, <2>5, <2>8, <2>9, <3>1, <3>2, <3>3
  <2> QED
    BY <2>6, <2>7
<1> QED
  BY <1>8, <1>9

(* The sums in play are numbers.                                            *)
LEMMA SumTypes ==
  ASSUME TypeOK, Cells
  PROVE  /\ Readable \in Nat /\ DueSum \in Nat /\ AtRisk \in Nat /\ Guesses \in Nat
         /\ MaxCost * tears \in Nat
<1>1. Readable \in Nat
  BY LedgerSums
<1>2. DueSum \in Nat
  <2>1. \A w \in Workers : due[w] \in Nat
    BY DEF TypeOK
  <2> QED
    BY <2>1, SumNat DEF DueSum
<1>3. AtRisk \in Nat
  BY CostBounds DEF AtRisk
<1>4. Guesses \in Nat
  <2>1. GuessSum(lines) \in Nat
    BY EntriesAre, NoEntry, AppendSums
  <2> QED
    BY <2>1, CostBounds DEF Guesses
<1>5. MaxCost * tears \in Nat
  BY CostBounds DEF TypeOK
<1> QED
  BY <1>1, <1>2, <1>3, <1>4, <1>5

(* Each step keeps the accounts.                                            *)
LEMMA AccountsStep ==
  ASSUME TypeOK, Accounts, [Next]_vars
  PROVE  Accounts'
<1>a. /\ Cells /\ Owed /\ attempted + DueSum <= paid /\ Readable <= attempted
      /\ attempted + AtRisk <= Readable + 2 * (MaxCost * tears)
      /\ Guesses <= MaxCost * tears
  BY DEF Accounts
<1>b. /\ Readable \in Nat /\ DueSum \in Nat /\ AtRisk \in Nat /\ Guesses \in Nat
      /\ MaxCost * tears \in Nat /\ MaxCost \in Nat
      /\ attempted \in Nat /\ paid \in Nat /\ tears \in Nat
      /\ \A w \in Workers : due[w] \in Nat
  BY <1>a, SumTypes, CostBounds DEF TypeOK
<1>c. MaxCost' = MaxCost
  BY DEF MaxCost
<1>d. /\ attempted + DueSum <= paid /\ attempted \in Nat /\ DueSum \in Nat /\ paid \in Nat
      /\ paid' \in Nat
  BY <1>a, <1>b, TypeStep DEF TypeOK
<1>1. ASSUME UNCHANGED <<lines, tail, attempted, tears>>, Owed', attempted + DueSum' <= paid'
      PROVE  Accounts'
  <2>1. Cells' /\ Readable' = Readable /\ Guesses' = Guesses /\ AtRisk' = AtRisk
    BY <1>a, <1>1, LedgerKept
  <2>2. Owed' /\ attempted' + DueSum' <= paid'
    BY <1>1
  <2>3. Readable' <= attempted' /\ attempted' + AtRisk' <= Readable' + 2 * (MaxCost' * tears')
        /\ Guesses' <= MaxCost' * tears'
    BY <1>a, <1>c, <1>1, <2>1
  <2> QED
    BY <2>1, <2>2, <2>3 DEF Accounts
<1>2. ASSUME NEW w \in Workers, Check(w) PROVE Accounts'
  <2>1. UNCHANGED <<lines, tail, due, attempted, paid, tears>> /\ pc[w] = "idle" /\ Goto(w, "forward")
    BY <1>2 DEF Check
  <2>2. Owed'
    BY <1>a, <1>c, <2>1 DEF Owed, Goto, TypeOK
  <2>3. DueSum' = DueSum
    BY <2>1 DEF DueSum
  <2>4. attempted + DueSum' <= paid'
    BY <1>a, <2>1, <2>3
  <2> QED
    BY <1>1, <2>1, <2>2, <2>4
<1>3. ASSUME NEW w \in Workers, Reply(w) PROVE Accounts'
  <2>1. PICK c \in Costs : paid' = paid + c /\ due' = [due EXCEPT ![w] = c]
    BY <1>3 DEF Reply
  <2>2. UNCHANGED <<lines, tail, attempted, tears>> /\ pc[w] = "forward" /\ Goto(w, "record")
    BY <1>3 DEF Reply
  <2>3. c \in Nat /\ c <= MaxCost
    BY CostBounds
  <2>4. Owed'
    BY <1>a, <1>c, <2>1, <2>2, <2>3 DEF Owed, Goto, TypeOK
  <2>5. due[w] = 0
    BY <1>a, <2>2 DEF Owed
  <2>6. DueSum' \in Nat /\ DueSum' = DueSum + c
    BY <2>1, <2>3, <2>5, DueChange
  <2>7. attempted + DueSum' <= paid'
    <3>1. paid' = paid + c /\ DueSum' \in Nat /\ DueSum' = DueSum + c /\ c \in Nat
      BY <2>1, <2>3, <2>6
    <3> QED
      BY <1>d, <3>1
  <2> QED
    BY <1>1, <2>2, <2>4, <2>7
<1>4. ASSUME NEW w \in Workers, ReplyUnpriced(w) PROVE Accounts'
  <2>1. PICK c \in Costs \cup {0} : paid' = paid + c
    BY <1>4 DEF ReplyUnpriced
  <2>2. /\ UNCHANGED <<lines, tail, attempted, tears>> /\ pc[w] = "forward" /\ Goto(w, "record")
        /\ due' = [due EXCEPT ![w] = 0]
    BY <1>4 DEF ReplyUnpriced
  <2>3. Owed'
    BY <1>a, <1>b, <1>c, <2>2 DEF Owed, Goto, TypeOK
  <2>4. due[w] = 0
    BY <1>a, <2>2 DEF Owed
  <2>5. DueSum' = DueSum
    BY <1>b, <2>2, <2>4, DueChange, Zero
  <2>6. c \in Nat
    OBVIOUS
  <2>7. attempted + DueSum' <= paid'
    <3>1. paid' = paid + c /\ DueSum' = DueSum /\ c \in Nat
      BY <2>1, <2>5, <2>6
    <3> QED
      BY <1>d, <3>1
  <2> QED
    BY <1>1, <2>2, <2>3, <2>7
<1>5. ASSUME NEW w \in Workers, ClientRaises(w) PROVE Accounts'
  <2>1. PICK c \in Costs \cup {0} : paid' = paid + c
    BY <1>5 DEF ClientRaises
  <2>2. /\ UNCHANGED <<lines, tail, attempted, tears, due>> /\ pc[w] = "forward" /\ Goto(w, "idle")
    BY <1>5 DEF ClientRaises
  <2>3. Owed'
    BY <1>a, <1>c, <2>2 DEF Owed, Goto, TypeOK
  <2>4. DueSum' = DueSum
    BY <2>2 DEF DueSum
  <2>5. c \in Nat
    OBVIOUS
  <2>6. attempted + DueSum' <= paid'
    BY <1>a, <1>b, <2>1, <2>4, <2>5
  <2> QED
    BY <1>1, <2>2, <2>3, <2>6
<1>6. ASSUME NEW w \in Workers, due' = [due EXCEPT ![w] = 0], Goto(w, "idle"),
             attempted' = attempted + due[w], paid' = paid
      PROVE  Owed' /\ attempted' + DueSum' <= paid'
  <2>1. Owed'
    BY <1>a, <1>b, <1>c, <1>6 DEF Owed, Goto, TypeOK
  <2>2. DueSum' \in Nat /\ DueSum' + due[w] = DueSum
    BY <1>6, DueChange
  <2>3. attempted' + DueSum' <= paid'
    BY <1>a, <1>b, <1>6, <2>2
  <2> QED
    BY <2>1, <2>3
<1>7. ASSUME NEW w \in Workers, Record(w) PROVE Accounts'
  <2>1. /\ attempted' = attempted + due[w] /\ tears' = tears
        /\ due' = [due EXCEPT ![w] = 0] /\ Goto(w, "idle") /\ paid' = paid
    BY <1>7 DEF Record
  <2>2. Owed' /\ attempted' + DueSum' <= paid'
    BY <1>6, <2>1
  <2>3. /\ Cells' /\ AtRisk' = 0 /\ Guesses' = Guesses /\ Readable' \in Nat
        /\ tail = <<>> => Readable' = Readable + due[w]
        /\ tail # <<>> => Readable' <= Readable /\ Readable + due[w] <= Readable' + AtRisk
    BY <1>a, <1>7, LedgerRecord
  <2>4. due[w] \in Nat
    BY <1>b
  <2>5. Readable' <= attempted' /\ attempted' + AtRisk' <= Readable' + 2 * (MaxCost * tears)
    <3>1. CASE tail = <<>>
      BY <1>a, <1>b, <2>1, <2>3, <2>4, <3>1
    <3>2. CASE tail # <<>>
      BY <1>a, <1>b, <2>1, <2>3, <2>4, <3>2
    <3> QED
      BY <3>1, <3>2
  <2>6. Guesses' <= MaxCost' * tears' /\ MaxCost' * tears' = MaxCost * tears
    BY <1>a, <1>c, <2>1, <2>3
  <2> QED
    BY <2>2, <2>3, <2>5, <2>6 DEF Accounts
<1>8. ASSUME NEW w \in Workers, RecordTorn(w) PROVE Accounts'
  <2>1. /\ attempted' = attempted + due[w] /\ tears' = tears + 1
        /\ due' = [due EXCEPT ![w] = 0] /\ Goto(w, "idle") /\ paid' = paid
    BY <1>8 DEF RecordTorn
  <2>2. Owed' /\ attempted' + DueSum' <= paid'
    BY <1>6, <2>1
  <2>3. /\ Cells' /\ Readable' \in Nat /\ Readable' <= Readable + due[w]
        /\ due[w] + AtRisk' + Readable <= Readable' + AtRisk + 2 * MaxCost
        /\ Guesses' <= Guesses + MaxCost
    BY <1>a, <1>8, LedgerTorn
  <2>4. due[w] \in Nat
    BY <1>b
  <2>5. MaxCost' * tears' = MaxCost * tears + MaxCost
    <3>1. tears + 1 \in Int /\ MaxCost \in Int
      BY <1>b
    <3>2. MaxCost * ((tears + 1) - 1) = MaxCost * (tears + 1) - MaxCost /\ MaxCost * (tears + 1) \in Int
      BY <3>1, MulStep
    <3>3. (tears + 1) - 1 = tears
      BY <1>b
    <3>4. MaxCost * tears = MaxCost * (tears + 1) - MaxCost
      BY <3>2, <3>3
    <3>5. MaxCost' * tears' = MaxCost * (tears + 1)
      BY <1>c, <2>1
    <3> QED
      BY <1>b, <3>2, <3>4, <3>5
  <2>6. AtRisk' \in Nat /\ Guesses' \in Int
    <3>1. AtRisk' \in Nat
      BY <1>b, <1>c DEF AtRisk
    <3>2. TypeOK'
      BY TypeStep
    <3>3. Guesses' \in Nat
      <4>1. GuessSum(lines) \in Nat /\ GuessSum(lines)' = GuessSum(lines)
        <5>1. lines' = lines
          BY <1>8 DEF RecordTorn
        <5>2. GuessSum(lines) \in Nat
          BY EntriesAre, NoEntry, AppendSums
        <5> QED
          BY <1>c, <5>1, <5>2 DEF GuessSum, Guess
      <4> QED
        BY <1>b, <1>c, <4>1 DEF Guesses
    <3> QED
      BY <3>1, <3>3
  <2>7. Readable' <= attempted'
    BY <1>a, <1>b, <2>1, <2>3, <2>4
  <2>8. attempted' + AtRisk' <= Readable' + 2 * (MaxCost' * tears')
    <3> DEFINE k == MaxCost * tears
    <3>1. /\ attempted + AtRisk <= Readable + 2 * k /\ k \in Nat
          /\ MaxCost' * tears' = k + MaxCost
      BY <1>a, <1>b, <2>5
    <3> HIDE DEF k
    <3> QED
      BY <1>b, <2>1, <2>3, <2>4, <2>6, <3>1
  <2>9. Guesses' <= MaxCost' * tears'
    BY <1>a, <1>b, <2>3, <2>5, <2>6
  <2> QED
    BY <2>2, <2>3, <2>7, <2>8, <2>9 DEF Accounts
<1>9. ASSUME NEW p \in Procs, Crash(p) PROVE Accounts'
  <2>1. /\ UNCHANGED <<lines, tail, attempted, tears, paid>>
        /\ due' = [w \in Workers |-> IF ProcOf[w] = p THEN 0 ELSE due[w]]
        /\ pc' = [w \in Workers |-> IF ProcOf[w] = p THEN "idle" ELSE pc[w]]
    BY <1>9 DEF Crash
  <2>2. Owed'
    BY <1>a, <1>b, <1>c, <2>1 DEF Owed
  <2>3. DueSum' <= DueSum /\ DueSum' \in Nat
    <3> DEFINE g == [w \in Workers |-> IF ProcOf[w] = p THEN 0 ELSE due[w]]
    <3>1. \A w \in Workers : g[w] \in Nat /\ due[w] \in Nat /\ g[w] <= due[w]
      BY <1>b
    <3>2. due' = g
      BY <2>1
    <3> HIDE DEF g
    <3>3. /\ SumFunctionOnSet(g, Workers) <= SumFunctionOnSet(due, Workers)
          /\ SumFunctionOnSet(g, Workers) \in Nat
      BY <3>1, SumMono, SumNat
    <3> QED
      BY <3>2, <3>3 DEF DueSum
  <2>4. attempted + DueSum' <= paid'
    <3>1. attempted + DueSum' <= paid
      BY <1>d, <2>3, LessAdded
    <3> QED
      BY <2>1, <3>1
  <2> QED
    BY <1>1, <2>1, <2>2, <2>4
<1>10. CASE UNCHANGED vars
  <2>1. UNCHANGED <<lines, tail, attempted, tears, paid, due, pc>>
    BY <1>10 DEF vars
  <2>2. Owed' /\ DueSum' = DueSum
    BY <1>a, <1>c, <2>1 DEF Owed, DueSum
  <2> QED
    BY <1>1, <1>a, <2>1, <2>2
<1> QED
  BY <1>2, <1>3, <1>4, <1>5, <1>7, <1>8, <1>9, <1>10 DEF Next

(* What a thread may still be charged is a price at most.                   *)
LEMMA ExposureType ==
  ASSUME TypeOK, Owed
  PROVE  /\ \A w \in Workers : Exposure[w] \in Nat /\ Exposure[w] <= MaxCost /\ due[w] <= Exposure[w]
         /\ SumFunctionOnSet(Exposure, Workers) \in Nat
         /\ SumFunctionOnSet(Exposure, Workers) <= MaxCost * Cardinality(Workers)
         /\ DueSum <= SumFunctionOnSet(Exposure, Workers)
<1>1. \A w \in Workers : /\ Exposure[w] \in Nat /\ Exposure[w] <= MaxCost
                         /\ due[w] \in Nat /\ due[w] <= Exposure[w]
  BY CostBounds DEF Exposure, Owed, TypeOK
<1>2. /\ SumFunctionOnSet(Exposure, Workers) \in Nat
      /\ SumFunctionOnSet(Exposure, Workers) <= MaxCost * Cardinality(Workers)
  BY <1>1, CostBounds, SumNat, SumAtMost
<1>3. SumFunctionOnSet(due, Workers) <= SumFunctionOnSet(Exposure, Workers)
  BY <1>1, SumMono
<1> QED
  BY <1>1, <1>2, <1>3 DEF DueSum

(* The ledger stays exact and the calls in flight keep fitting until a fault*)
LEMMA ExactStep ==
  ASSUME TypeOK, Accounts, Steady, Prices, Exact, Fits, [Next]_vars, calm'
  PROVE  Exact' /\ Fits'
<1> DEFINE Open == SumFunctionOnSet(Exposure, Workers)
           room == (Cardinality(Workers) - 1) * MaxCost
<1>a. /\ Cells /\ Owed /\ tail = <<>> /\ UsdSum(lines) = attempted
      /\ paid = attempted + DueSum /\ attempted + Open <= TotalCap + room
      /\ \A i \in DOMAIN lines : ~lines[i].torn
  BY DEF Accounts, Exact, Fits
<1>b. /\ DueSum \in Nat /\ MaxCost \in Nat /\ attempted \in Nat /\ paid \in Nat
      /\ \A w \in Workers : due[w] \in Nat /\ ProcOf[w] \in Procs
  BY <1>a, SumTypes, CostBounds DEF TypeOK
<1>c. MaxCost' = MaxCost
  BY DEF MaxCost
<1>d. /\ TypeOK' /\ Owed' /\ Open \in Nat /\ Open' \in Nat
      /\ Open' <= MaxCost * Cardinality(Workers)
      /\ room \in Int /\ room = MaxCost * Cardinality(Workers) - MaxCost
      /\ MaxCost * Cardinality(Workers) \in Int
  <2>1. TypeOK' /\ Owed'
    BY TypeStep, AccountsStep DEF Accounts
  <2>2. Cardinality(Workers) \in Int /\ MaxCost \in Int
    BY <1>b, FS_CardinalityType
  <2>3. room = MaxCost * Cardinality(Workers) - MaxCost /\ MaxCost * Cardinality(Workers) \in Int
    BY <2>2, MulStep
  <2>4. Open \in Nat
    BY <1>a, ExposureType
  <2>5. Open' \in Nat /\ Open' <= MaxCost * Cardinality(Workers)
    <3> DEFINE g == [w \in Workers |-> IF pc'[w] = "forward" THEN MaxCost ELSE due'[w]]
    <3>1. \A w \in Workers : g[w] \in Nat /\ g[w] <= MaxCost
      BY <1>b, <1>c, <2>1 DEF TypeOK, Owed
    <3>2. Open' = SumFunctionOnSet(g, Workers)
      BY <1>c DEF Exposure
    <3> HIDE DEF g
    <3>3. /\ SumFunctionOnSet(g, Workers) \in Nat
          /\ SumFunctionOnSet(g, Workers) <= MaxCost * Cardinality(Workers)
      BY <1>b, <3>1, SumNat, SumAtMost
    <3> HIDE DEF Open
    <3> QED
      BY <3>2, <3>3
  <2> HIDE DEF Open, room
  <2> QED
    BY <2>1, <2>2, <2>3, <2>4, <2>5
<1>n. /\ paid = attempted + DueSum /\ attempted \in Nat /\ DueSum \in Nat /\ paid \in Nat
      /\ attempted + Open <= TotalCap + room /\ MaxCost \in Nat
      /\ Open \in Nat /\ Open' \in Nat /\ room \in Int /\ TotalCap \in Nat
      /\ paid' \in Nat /\ attempted' \in Nat
  <2>1. paid' \in Nat /\ attempted' \in Nat
    BY <1>d DEF TypeOK
  <2> HIDE DEF Open, room
  <2> QED
    BY <1>a, <1>b, <1>d, <2>1
<1>e. ASSUME NEW w \in Workers, NEW label \in {"idle", "forward", "record"}, Goto(w, label),
             NEW c \in Nat, due' = [due EXCEPT ![w] = c]
      PROVE  Open' + Exposure[w] = Open + IF label = "forward" THEN MaxCost ELSE c
  <2> DEFINE g == [v \in Workers |-> IF v = w THEN (IF label = "forward" THEN MaxCost ELSE c)
                                     ELSE Exposure[v]]
  <2>1. \A v \in Workers : Exposure[v] \in Nat /\ g[v] \in Nat
    BY <1>a, <1>b, ExposureType
  <2>2. \A v \in Workers \ {w} : Exposure[v] = g[v]
    OBVIOUS
  <2>3. Exposure' = g
    <3>1. \A v \in Workers : /\ pc'[v] = IF v = w THEN label ELSE pc[v]
                            /\ due'[v] = IF v = w THEN c ELSE due[v]
      BY <1>e DEF Goto, TypeOK
    <3>2. Exposure' = [v \in Workers |-> IF pc'[v] = "forward" THEN MaxCost ELSE due'[v]]
      BY <1>c DEF Exposure
    <3>3. \A v \in Workers : (IF pc'[v] = "forward" THEN MaxCost ELSE due'[v]) = g[v]
      BY <3>1 DEF Exposure
    <3> QED
      BY <3>2, <3>3
  <2>4. g[w] = IF label = "forward" THEN MaxCost ELSE c
    OBVIOUS
  <2>5. Open' = SumFunctionOnSet(g, Workers)
    BY <2>3
  <2> HIDE DEF g
  <2>6. SumFunctionOnSet(g, Workers) + Exposure[w] = SumFunctionOnSet(Exposure, Workers) + g[w]
    BY <2>1, <2>2, SumChange
  <2> QED
    BY <2>4, <2>5, <2>6
<1>f. ASSUME attempted' + Open' <= TotalCap + room PROVE Fits'
  BY <1>c, <1>f DEF Fits
<1>g. ASSUME UNCHANGED <<lines, tail, attempted>>, paid' = attempted + DueSum' PROVE Exact'
  <2>1. UsdSum(lines)' = UsdSum(lines)
    BY <1>g DEF UsdSum, Usd
  <2> QED
    BY <1>a, <1>g, <2>1 DEF Exact
<1>1. ASSUME NEW w \in Workers, Check(w) PROVE Exact' /\ Fits'
  <2>1. UNCHANGED <<lines, tail, due, attempted, paid>> /\ ~Refused(ProcOf[w])
    BY <1>1 DEF Check
  <2>2. DueSum' = DueSum
    BY <2>1 DEF DueSum
  <2>3. Exact'
    BY <1>a, <1>g, <2>1, <2>2
  <2>4. Readable = attempted + 0
    BY <1>a DEF Readable
  <2>5. Readable + MaxCost <= TotalCap
    BY <1>a, <1>b, <2>1, CheckLeavesRoom
  <2>6. attempted' + Open' <= TotalCap + room
    <3> HIDE DEF Open, room
    <3> QED
      BY <1>b, <1>d, <2>1, <2>4, <2>5
  <2> QED
    BY <1>f, <2>3, <2>6
<1>2. ASSUME NEW w \in Workers, Reply(w) PROVE Exact' /\ Fits'
  <2>1. PICK c \in Costs : paid' = paid + c /\ due' = [due EXCEPT ![w] = c]
    BY <1>2 DEF Reply
  <2>2. UNCHANGED <<lines, tail, attempted>> /\ pc[w] = "forward" /\ Goto(w, "record")
    BY <1>2 DEF Reply
  <2>3. c \in Nat /\ c <= MaxCost /\ due[w] = 0
    BY <1>a, <2>2, CostBounds DEF Owed
  <2>4. DueSum' \in Nat /\ DueSum' = DueSum + c
    BY <2>1, <2>3, DueChange
  <2>5. Exact'
    <3>1. paid' = attempted + DueSum'
      <4>1. paid' = paid + c /\ DueSum' \in Nat /\ DueSum' = DueSum + c /\ c \in Nat
        BY <2>1, <2>3, <2>4
      <4> QED
        BY <1>n, <4>1
    <3> QED
      BY <1>g, <2>2, <3>1
  <2>6. Open' + Exposure[w] = Open + c /\ Exposure[w] = MaxCost
    <3>1. Open' + Exposure[w] = Open + IF "record" = "forward" THEN MaxCost ELSE c
      BY <1>e, <2>1, <2>2, <2>3
    <3>2. Exposure[w] = MaxCost
      BY <2>2 DEF Exposure
    <3> QED
      BY <3>1, <3>2
  <2>7. attempted' + Open' <= TotalCap + room
    <3> HIDE DEF Open, room
    <3>1. c \in Nat /\ c <= MaxCost /\ Open' + MaxCost = Open + c
      BY <2>3, <2>6
    <3>2. Open' <= Open
      BY <1>n, <3>1, Moved, Zenon
    <3>3. attempted + Open' <= TotalCap + room
      BY <1>n, <3>2, Lesser
    <3> QED
      BY <2>2, <3>3
  <2> QED
    BY <1>f, <2>5, <2>7
<1>3. ASSUME NEW w \in Workers, Record(w) PROVE Exact' /\ Fits'
  <2>1. /\ lines' = Append(lines, Priced(due[w])) /\ tail' = <<>> /\ pc[w] = "record"
        /\ attempted' = attempted + due[w] /\ paid' = paid
        /\ due' = [due EXCEPT ![w] = 0] /\ Goto(w, "idle")
    BY <1>a, <1>3 DEF Record
  <2>2. due[w] \in Nat /\ due[w] <= MaxCost
    BY <1>a, <1>b DEF Owed
  <2>3. Priced(due[w]) \in Entry /\ Priced(due[w]).usd = due[w] /\ ~Priced(due[w]).torn
    BY <2>2, Written
  <2>4. lines \in Seq(Entry)
    BY EntriesAre
  <2>5. UsdSum(lines') = UsdSum(lines) + due[w]
    BY <2>1, <2>3, <2>4, AppendSums
  <2>6. \A i \in DOMAIN lines' : ~lines'[i].torn
    <3>1. \A i \in DOMAIN lines' : lines'[i] = Priced(due[w]) \/ (i \in DOMAIN lines /\ lines'[i] = lines[i])
      BY <2>1, <2>3, <2>4
    <3> QED
      BY <1>a, <2>3, <3>1
  <2>7. DueSum' \in Nat /\ DueSum' + due[w] = DueSum
    BY <2>1, DueChange
  <2>8. Exact'
    <3>1. paid' = attempted' + DueSum'
      <4> DEFINE d == due[w]
      <4>1. /\ paid' = paid /\ attempted' = attempted + d /\ d \in Nat
            /\ DueSum' \in Nat /\ DueSum' + d = DueSum
        BY <2>1, <2>2, <2>7
      <4> HIDE DEF d, Open, room
      <4>2. paid = (attempted + d) + DueSum'
        <5>1. /\ attempted \in Nat /\ DueSum \in Nat /\ paid \in Nat /\ d \in Nat /\ DueSum' \in Nat
              /\ paid = attempted + DueSum /\ DueSum' + d = DueSum
          BY <1>n, <4>1, Zenon
        <5>2. paid = attempted + (DueSum' + d)
          BY <5>1, Zenon
        <5>3. attempted + (DueSum' + d) = (attempted + d) + DueSum'
          BY <5>1, Passed
        <5> QED
          BY <5>2, <5>3, Zenon
      <4> QED
        BY <4>1, <4>2
    <3>2. UsdSum(lines)' = UsdSum(lines')
      BY DEF UsdSum, Usd
    <3>3. UsdSum(lines)' = attempted'
      BY <1>a, <2>1, <2>5, <3>2
    <3> QED
      BY <2>1, <2>6, <3>1, <3>3 DEF Exact
  <2>9. Open' + due[w] = Open
    <3>1. Open' + Exposure[w] = Open + IF "idle" = "forward" THEN MaxCost ELSE 0
      BY <1>e, <2>1
    <3>2. Exposure[w] = due[w]
      BY <2>1 DEF Exposure
    <3>3. Open' + due[w] = Open + 0
      BY <3>1, <3>2
    <3> HIDE DEF Open
    <3> QED
      BY <1>n, <2>2, <3>3, Zero
  <2>10. attempted' + Open' <= TotalCap + room
    <3> HIDE DEF Open, room
    <3> QED
      BY <1>n, <2>1, <2>2, <2>9
  <2> QED
    BY <1>f, <2>8, <2>10
<1>4. CASE UNCHANGED vars
  <2>1. UNCHANGED <<lines, tail, attempted, paid, due, pc>>
    BY <1>4 DEF vars
  <2>2. DueSum' = DueSum /\ Exposure' = Exposure
    BY <1>c, <2>1 DEF DueSum, Exposure
  <2>3. Exact'
    BY <1>a, <1>g, <2>1, <2>2
  <2>4. attempted' + Open' <= TotalCap + room
    BY <1>a, <2>1, <2>2
  <2> QED
    BY <1>f, <2>3, <2>4
<1> QED
  BY <1>1, <1>2, <1>3, <1>4 DEF Next, ReplyUnpriced, ClientRaises, RecordTorn, Crash

(* Every reachable state satisfies the inductive invariant.                 *)
LEMMA IInvAlways == Spec => []IInv
<1>1. IInv /\ [Next]_vars => IInv'
  <2> SUFFICES ASSUME IInv, [Next]_vars PROVE IInv'
    OBVIOUS
  <2>1. TypeOK' /\ Accounts'
    BY TypeStep, AccountsStep DEF IInv
  <2>2. Steady' = Steady
    BY DEF Steady, MaxCost, MinCost
  <2>3. ASSUME Steady, calm' PROVE Prices' /\ Room' /\ Exact' /\ Fits'
    <3>1. TypeOK /\ Accounts /\ Cells /\ (calm => Prices /\ Room)
      BY <2>3 DEF IInv, Accounts
    <3>2. Prices' /\ Room'
      BY <2>3, <3>1, RoomStep
    <3>3. calm
      BY <2>3 DEF Next, Check, Reply, ReplyUnpriced, ClientRaises, Record, RecordTorn, Crash, vars
    <3>4. Prices /\ Exact /\ Fits
      BY <2>3, <3>3 DEF IInv
    <3>5. Exact' /\ Fits'
      BY <2>3, <3>1, <3>4, ExactStep
    <3> QED
      BY <3>2, <3>5
  <2> QED
    BY <2>1, <2>2, <2>3 DEF IInv
<1> QED
  BY <1>1, InitIInv, PTL DEF Spec

(* TypeOK: the ledger, the call logs and the threads keep their types.      *)
THEOREM TypeCorrect == Spec => []TypeOK
  BY IInvAlways, PTL DEF IInv

(* RunOverspendBounded: before the first fault and with steady prices, what *)
(* a run has spent exceeds its cap by at most one call for every thread of  *)
(* its process but one, whatever the other processes do.                    *)
THEOREM RunOverspend == Spec => []RunOverspendBounded
<1>1. IInv => RunOverspendBounded
  <2> SUFFICES ASSUME IInv, Steady, calm, NEW p \in Procs, Threads(p) # {}
               PROVE  calls[p].spent <= RunCap + (Cardinality(Threads(p)) - 1) * MaxCost
    BY DEF RunOverspendBounded, Threads
  <2>1. calls[p].spent + MaxCost * Cardinality(InFlight(p))
          <= RunCap + (Cardinality(Threads(p)) - 1) * MaxCost
    BY DEF IInv, Room
  <2>2. MaxCost * Cardinality(InFlight(p)) >= 0 /\ MaxCost * Cardinality(InFlight(p)) \in Int
    BY ThreadsFinite, CostBounds
  <2>3. calls[p].spent \in Nat /\ (Cardinality(Threads(p)) - 1) * MaxCost \in Int
    BY ThreadsFinite, CostBounds DEF IInv, TypeOK
  <2> QED
    BY <2>1, <2>2, <2>3
<1> QED
  BY <1>1, IInvAlways, PTL

(* OverspendBounded: before the first fault and with steady prices, what    *)
(* the provider charged exceeds the total cap by at most one call for every *)
(* thread but one, though checks and records of any threads of any processes*)
(* interleave.                                                              *)
THEOREM Overspend == Spec => []OverspendBounded
<1>1. IInv => OverspendBounded
  <2> SUFFICES ASSUME IInv, Steady, calm
               PROVE  paid <= TotalCap + (Cardinality(Workers) - 1) * MaxCost
    BY DEF OverspendBounded
  <2>1. TypeOK /\ Cells /\ Owed /\ Exact /\ Fits
    BY DEF IInv, Accounts
  <2>2. /\ SumFunctionOnSet(Exposure, Workers) \in Nat
        /\ DueSum <= SumFunctionOnSet(Exposure, Workers)
    BY <2>1, ExposureType
  <2>3. /\ paid = attempted + DueSum
        /\ attempted + SumFunctionOnSet(Exposure, Workers)
             <= TotalCap + (Cardinality(Workers) - 1) * MaxCost
    BY <2>1 DEF Exact, Fits
  <2>4. attempted \in Nat /\ DueSum \in Nat
    BY <2>1, SumTypes DEF TypeOK
  <2>5. (Cardinality(Workers) - 1) * MaxCost \in Int
    BY CostBounds, FS_CardinalityType
  <2> QED
    BY <2>2, <2>3, <2>4, <2>5
<1> QED
  BY <1>1, IInvAlways, PTL

(* LedgerErrorBoundedByTears: after any faults, in any order, what the cap  *)
(* counts is short of what was recorded by two prices for each cut record   *)
(* at most, and the total is above what was paid by one for each.           *)
THEOREM LedgerError == Spec => []LedgerErrorBoundedByTears
<1>1. IInv => LedgerErrorBoundedByTears
  <2> SUFFICES ASSUME IInv PROVE LedgerErrorBoundedByTears
    OBVIOUS
  <2>1. TypeOK /\ Accounts /\ Cells
    BY DEF IInv, Accounts
  <2>2. /\ Readable \in Nat /\ ScopedUsd \in Nat /\ TotalUsd \in Nat
        /\ Readable <= ScopedUsd /\ TotalUsd <= Readable + Guesses
    BY <2>1, LedgerSums
  <2>3. /\ DueSum \in Nat /\ AtRisk \in Nat /\ Guesses \in Nat /\ MaxCost * tears \in Nat
        /\ attempted \in Nat /\ paid \in Nat /\ tears \in Nat /\ MaxCost \in Nat
    BY <2>1, SumTypes, CostBounds DEF TypeOK
  <2>4. /\ attempted + DueSum <= paid /\ Readable <= attempted
        /\ attempted + AtRisk <= Readable + 2 * (MaxCost * tears)
        /\ Guesses <= MaxCost * tears
    BY <2>1 DEF Accounts
  <2>5. 2 * MaxCost * tears = 2 * (MaxCost * tears)
    <3>1. \A a, b \in Nat : 2 * a * b = 2 * (a * b)
      BY SMTT(30)
    <3> QED
      BY <2>3, <3>1
  <2>6. attempted <= ScopedUsd + 2 * MaxCost * tears
    BY <2>2, <2>3, <2>4, <2>5
  <2>7. TotalUsd <= paid + MaxCost * tears
    BY <2>2, <2>3, <2>4
  <2> QED
    BY <2>6, <2>7 DEF LedgerErrorBoundedByTears
<1> QED
  BY <1>1, IInvAlways, PTL
=============================================================================
