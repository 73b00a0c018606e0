--------------------------- MODULE CountingTheorems ---------------------------
(***************************************************************************)
(* What the models count with: sums over finite sets (MapThenSumSet of the *)
(* community modules with a weight that is a function), the n-th of a set  *)
(* by how many come before it, and what is chosen from a sequence by       *)
(* position (Selections).  What would be an induction over a finite set or *)
(* the numbers is argued from a smallest counterexample, and that a set    *)
(* can be counted off from its ranks being one to one.                     *)
(***************************************************************************)
EXTENDS Selections, FiniteSetsExt, FiniteSetTheorems, FunctionTheorems, SequenceTheorems,
        NaturalsInduction, WellFoundedInduction, TLAPS

(* A set of natural numbers that has a member has a least one.              *)
LEMMA Least ==
    ASSUME NEW T \in SUBSET Nat, T # {}
    PROVE  \E x \in T : \A y \in T : ~(y < x)
  <1>1. \A R : IsWellFoundedOn(R, Nat) => \E x \in T : \A y \in T : ~ (<<y, x>> \in R)
    BY WFMin
  <1>2. \E x \in T : \A y \in T : ~ (<<y, x>> \in OpToRel(<, Nat))
    BY <1>1, NatLessThanWellFounded
  <1> QED
    BY <1>2 DEF OpToRel

(* In a finite set every family of subsets has a smallest member: what      *)
(* stands for induction below.                                              *)
LEMMA SmallestMember ==
    ASSUME NEW U, IsFiniteSet(U), NEW F \in SUBSET SUBSET U, F # {}
    PROVE  \E s \in F : \A t \in F : t \subseteq s => t = s
  <1>1. IsWellFoundedOn(StrictSubsetOrdering(U), SUBSET U)
    BY FS_StrictSubsetOrderingWellFounded, FS_FiniteSubsetsOfFinite
  <1>2. PICK s \in F : \A t \in F : <<t, s>> \notin StrictSubsetOrdering(U)
    <2>. HIDE DEF IsWellFoundedOn
    <2>. QED
      BY <1>1, WFMin, Zenon
  <1>. QED
    BY <1>2 DEF StrictSubsetOrdering

-----------------------------------------------------------------------------
Pick(s) == CHOOSE x \in s : TRUE

Sums(g, w, S) ==
    g = [s \in SUBSET S |-> IF s = {} THEN 0 ELSE w[Pick(s)] + g[s \ {Pick(s)}]]

Total(w, S) == MapThenSumSet(LAMBDA x : w[x], S)

(* The sum over a set, by what the counting of its members gives.          *)
LEMMA TotalIs ==
    ASSUME NEW w, NEW S
    PROVE  Total(w, S) = (CHOOSE g : Sums(g, w, S))[S]
  BY DEF Total, MapThenSumSet, MapThenFoldSet, Sums, Pick

(* Two such functions agree wherever both are defined and their weights do. *)
LEMMA SumsAgree ==
    ASSUME NEW S, IsFiniteSet(S), NEW T \in SUBSET S, NEW v, NEW w, NEW g, NEW h,
           Sums(g, v, S), Sums(h, w, T), \A x \in T : v[x] = w[x]
    PROVE  \A s \in SUBSET T : g[s] = h[s]
  <1>. DEFINE F == {s \in SUBSET T : g[s] # h[s]}
  <1>. SUFFICES ASSUME F # {} PROVE FALSE
    OBVIOUS
  <1>1. IsFiniteSet(T)
    BY FS_Subset
  <1>2. PICK s \in F : \A t \in F : t \subseteq s => t = s
    <2>. HIDE DEF F
    <2>1. F \in SUBSET SUBSET T
      BY DEF F
    <2>. QED
      BY <1>1, <2>1, SmallestMember
  <1>3. g[s] = IF s = {} THEN 0 ELSE v[Pick(s)] + g[s \ {Pick(s)}]
    BY <1>2 DEF Sums
  <1>4. h[s] = IF s = {} THEN 0 ELSE w[Pick(s)] + h[s \ {Pick(s)}]
    BY <1>2 DEF Sums
  <1>5. s # {}
    BY <1>2, <1>3, <1>4
  <1>6. Pick(s) \in s
    BY <1>5 DEF Pick
  <1>7. s \ {Pick(s)} \notin F
    BY <1>2, <1>6
  <1>. QED
    BY <1>2, <1>3, <1>4, <1>6, <1>7

(* The recursion has a solution on every finite set.                        *)
LEMMA SumsExist ==
    ASSUME NEW w, NEW U, IsFiniteSet(U)
    PROVE  \A S \in SUBSET U : \E g : Sums(g, w, S)
  <1>. DEFINE F == {S \in SUBSET U : ~ \E g : Sums(g, w, S)}
  <1>. SUFFICES ASSUME F # {} PROVE FALSE
    OBVIOUS
  <1>2. PICK S \in F : \A t \in F : t \subseteq S => t = S
    <2>. HIDE DEF F
    <2>1. F \in SUBSET SUBSET U
      BY DEF F
    <2>. QED
      BY <2>1, SmallestMember
  <1>. DEFINE part(s) == CHOOSE g : Sums(g, w, s)
              G == [s \in SUBSET S |-> IF s = {} THEN 0
                                       ELSE w[Pick(s)] + part(s \ {Pick(s)})[s \ {Pick(s)}]]
  <1>3. ASSUME NEW s \in SUBSET S, s # S
        PROVE  Sums(part(s), w, s)
    BY <1>2, <1>3
  <1>4. ASSUME NEW s \in SUBSET S, s # S
        PROVE  G[s] = part(s)[s]
    <2>1. CASE s = {}
      <3>1. \A f : Sums(f, w, {}) => f[{}] = 0
        BY DEF Sums
      <3>2. part(s)[s] = 0
        <4>. HIDE DEF part
        <4>. QED
          BY <1>3, <1>4, <2>1, <3>1
      <3>. QED
        BY <2>1, <3>2
    <2>2. CASE s # {}
      <3>. DEFINE r == s \ {Pick(s)}
      <3>1. Pick(s) \in s
        BY <2>2 DEF Pick
      <3>2. r \in SUBSET S /\ r # S /\ r \in SUBSET s
        BY <3>1
      <3>3. IsFiniteSet(s)
        BY <1>2, FS_Subset
      <3>4. part(s)[r] = part(r)[r]
        <4>1. Sums(part(s), w, s) /\ Sums(part(r), w, r)
          BY <1>3, <1>4, <3>2
        <4>. HIDE DEF part, r
        <4>. QED
          BY <3>2, <3>3, <4>1, SumsAgree
      <3>5. part(s)[s] = w[Pick(s)] + part(s)[r]
        <4>1. \A f : Sums(f, w, s) => f[s] = w[Pick(s)] + f[r]
          BY <2>2 DEF Sums
        <4>. HIDE DEF part, r
        <4>. QED
          BY <1>3, <1>4, <4>1
      <3>. QED
        BY <2>2, <3>4, <3>5
    <2>. QED
      BY <2>1, <2>2
  <1>5. Sums(G, w, S)
    <2>1. ASSUME NEW s \in SUBSET S, s # {}
          PROVE  G[s] = w[Pick(s)] + G[s \ {Pick(s)}]
      <3>1. Pick(s) \in s
        BY <2>1 DEF Pick
      <3>2. G[s \ {Pick(s)}] = part(s \ {Pick(s)})[s \ {Pick(s)}]
        BY <1>4, <3>1
      <3>. QED
        BY <2>1, <3>2
    <2>2. G[{}] = 0 /\ G = [s \in SUBSET S |-> G[s]]
      OBVIOUS
    <2>. HIDE DEF G
    <2>3. G = [s \in SUBSET S |-> IF s = {} THEN 0 ELSE w[Pick(s)] + G[s \ {Pick(s)}]]
      BY <2>1, <2>2
    <2>. QED
      BY <2>3 DEF Sums
  <1>. QED
    BY <1>2, <1>5

(* One member taken out,                                                   *)
LEMMA TotalUnfolds ==
    ASSUME NEW w, NEW S, IsFiniteSet(S)
    PROVE  Total(w, S) = IF S = {} THEN 0 ELSE w[Pick(S)] + Total(w, S \ {Pick(S)})
  <1>. DEFINE g == CHOOSE f : Sums(f, w, S)
              T == S \ {Pick(S)}
              h == CHOOSE f : Sums(f, w, T)
  <1>1. T \in SUBSET S /\ Total(w, S) = g[S] /\ Total(w, T) = h[T]
    BY TotalIs
  <1>2. Sums(g, w, S) /\ Sums(h, w, T)
    BY SumsExist
  <1>3. g[T] = h[T]
    <2>. HIDE DEF g, h, T
    <2>. QED
      BY <1>1, <1>2, SumsAgree
  <1>. QED
    BY <1>1, <1>2, <1>3 DEF Sums

-----------------------------------------------------------------------------
(* A sum of natural numbers is a natural number.                            *)
LEMMA TotalType ==
    ASSUME NEW S, IsFiniteSet(S), NEW w, \A x \in S : w[x] \in Nat
    PROVE  Total(w, S) \in Nat
  <1>. DEFINE F == {s \in SUBSET S : Total(w, s) \notin Nat}
  <1>. SUFFICES ASSUME F # {} PROVE FALSE
    OBVIOUS
  <1>1. PICK s \in F : \A t \in F : t \subseteq s => t = s
    <2>. HIDE DEF F
    <2>1. F \in SUBSET SUBSET S
      BY DEF F
    <2>. QED
      BY <2>1, SmallestMember
  <1>2. Total(w, s) = IF s = {} THEN 0 ELSE w[Pick(s)] + Total(w, s \ {Pick(s)})
    BY <1>1, FS_Subset, TotalUnfolds
  <1>3. s # {} /\ Pick(s) \in s
    BY <1>1, <1>2 DEF Pick
  <1>4. Total(w, s \ {Pick(s)}) \in Nat
    BY <1>1, <1>3
  <1>. QED
    BY <1>1, <1>2, <1>3, <1>4

(* Which element is taken out first makes no difference.                    *)
LEMMA TotalOfOne ==
    ASSUME NEW S, IsFiniteSet(S), NEW w, \A x \in S : w[x] \in Nat, NEW x \in S
    PROVE  Total(w, S) = w[x] + Total(w, S \ {x})
  <1>. DEFINE F == {s \in SUBSET S : \E y \in s : Total(w, s) # w[y] + Total(w, s \ {y})}
  <1>. SUFFICES ASSUME F # {} PROVE FALSE
    OBVIOUS
  <1>1. PICK s \in F : \A t \in F : t \subseteq s => t = s
    <2>. HIDE DEF F
    <2>1. F \in SUBSET SUBSET S
      BY DEF F
    <2>. QED
      BY <2>1, SmallestMember
  <1>2. PICK y \in s : Total(w, s) # w[y] + Total(w, s \ {y})
    BY <1>1
  <1>. DEFINE p == Pick(s)
              rest == s \ {p, y}
  <1>3. p \in s /\ s \in SUBSET S
    BY <1>1, <1>2 DEF Pick
  <1>4. Total(w, s) = w[p] + Total(w, s \ {p})
    BY <1>3, FS_Subset, TotalUnfolds
  <1>5. p # y
    BY <1>2, <1>4
  <1>6. ASSUME NEW a \in s, NEW b \in s, a # b
         PROVE  Total(w, s \ {a}) = w[b] + Total(w, (s \ {a}) \ {b})
    <2>1. s \ {a} \notin F
      <3>. HIDE DEF F
      <3>. QED
        BY <1>1, <1>6
    <2>2. s \ {a} \in SUBSET S /\ b \in s \ {a}
      BY <1>3, <1>6
    <2>. QED
      BY <2>1, <2>2
  <1>7. Total(w, s \ {p}) = w[y] + Total(w, (s \ {p}) \ {y})
    BY <1>3, <1>5, <1>6
  <1>8. Total(w, s \ {y}) = w[p] + Total(w, (s \ {y}) \ {p})
    BY <1>3, <1>5, <1>6
  <1>9. (s \ {p}) \ {y} = rest /\ (s \ {y}) \ {p} = rest
    OBVIOUS
  <1>10. w[p] \in Nat /\ w[y] \in Nat /\ Total(w, rest) \in Nat
    <2>1. IsFiniteSet(rest) /\ rest \in SUBSET S
      BY <1>3, FS_Subset
    <2>. QED
      BY <1>3, <2>1, TotalType
  <1>. HIDE DEF p, rest, F
  <1>. QED
    BY <1>2, <1>4, <1>7, <1>8, <1>9, <1>10

(* A part weighs no more than the whole.                                    *)
LEMMA TotalMonotone ==
    ASSUME NEW S, IsFiniteSet(S), NEW w, \A x \in S : w[x] \in Nat, NEW T \in SUBSET S
    PROVE  Total(w, T) <= Total(w, S)
  <1>. DEFINE F == {s \in SUBSET S : T \subseteq s /\ ~(Total(w, T) <= Total(w, s))}
  <1>. SUFFICES ASSUME F # {} PROVE FALSE
    OBVIOUS
  <1>1. PICK s \in F : \A t \in F : t \subseteq s => t = s
    <2>. HIDE DEF F
    <2>1. F \in SUBSET SUBSET S
      BY DEF F
    <2>. QED
      BY <2>1, SmallestMember
  <1>2. \A t \in SUBSET S : IsFiniteSet(t) /\ Total(w, t) \in Nat
    <2>1. ASSUME NEW t \in SUBSET S
          PROVE  IsFiniteSet(t) /\ Total(w, t) \in Nat
      <3>1. IsFiniteSet(t)
        BY FS_Subset
      <3>. QED
        BY <3>1, TotalType
    <2>. QED
      BY <2>1
  <1>3. PICK x \in s : x \notin T
    <2>1. T \subseteq s /\ ~(Total(w, T) <= Total(w, s))
      BY <1>1
    <2>2. Total(w, T) \in Nat
      BY <1>2
    <2>3. s # T
      <3>. HIDE DEF F
      <3>. QED
        BY <2>1, <2>2
    <2>. QED
      BY <2>1, <2>3
  <1>4. Total(w, s) = w[x] + Total(w, s \ {x})
    BY <1>1, <1>2, TotalOfOne
  <1>5. Total(w, T) <= Total(w, s \ {x})
    BY <1>1, <1>3
  <1>6. w[x] \in Nat /\ Total(w, T) \in Nat /\ Total(w, s \ {x}) \in Nat
    BY <1>1, <1>2
  <1>7. ~(Total(w, T) <= Total(w, s))
    BY <1>1
  <1>. HIDE DEF F
  <1>. QED
    BY <1>4, <1>5, <1>6, <1>7

(* Only the weights of the elements summed matter.                          *)
LEMMA TotalCongruence ==
    ASSUME NEW S, IsFiniteSet(S), NEW v, NEW w, \A x \in S : v[x] = w[x]
    PROVE  Total(v, S) = Total(w, S)
  <1>. DEFINE g == CHOOSE f : Sums(f, v, S)
              h == CHOOSE f : Sums(f, w, S)
  <1>1. Total(v, S) = g[S] /\ Total(w, S) = h[S]
    BY TotalIs
  <1>2. Sums(g, v, S) /\ Sums(h, w, S)
    BY SumsExist
  <1>. HIDE DEF g, h
  <1>. QED
    BY <1>1, <1>2, SumsAgree

(* the sum over nothing,                                                   *)
LEMMA TotalEmpty ==
    ASSUME NEW w
    PROVE  Total(w, {}) = 0
  BY FS_EmptySet, TotalUnfolds

(* and the sum of zeros.                                                   *)
LEMMA TotalOfNothing ==
    ASSUME NEW S, IsFiniteSet(S), NEW w, \A x \in S : w[x] = 0
    PROVE  Total(w, S) = 0
  <1>. DEFINE F == {s \in SUBSET S : Total(w, s) # 0}
  <1>. SUFFICES ASSUME F # {} PROVE FALSE
    OBVIOUS
  <1>1. PICK s \in F : \A t \in F : t \subseteq s => t = s
    <2>. HIDE DEF F
    <2>1. F \in SUBSET SUBSET S
      BY DEF F
    <2>. QED
      BY <2>1, SmallestMember
  <1>2. PICK x : x \in s
    BY <1>1, TotalEmpty
  <1>3. Total(w, s) = w[x] + Total(w, s \ {x})
    <2>1. IsFiniteSet(s) /\ \A y \in s : w[y] \in Nat
      BY <1>1, FS_Subset
    <2>. QED
      BY <1>2, <2>1, TotalOfOne
  <1>4. Total(w, s \ {x}) = 0
    BY <1>1, <1>2
  <1>. QED
    BY <1>1, <1>2, <1>3, <1>4

(* When one weight changes the sum changes by as much.                      *)
LEMMA TotalChanges ==
    ASSUME NEW S, IsFiniteSet(S), NEW v, NEW w, NEW x \in S,
           \A y \in S : v[y] \in Nat /\ w[y] \in Nat,
           \A y \in S \ {x} : v[y] = w[y]
    PROVE  Total(v, S) + w[x] = Total(w, S) + v[x]
  <1>. DEFINE R == S \ {x}
  <1>1. IsFiniteSet(R)
    BY FS_Subset
  <1>2. Total(v, R) = Total(w, R) /\ Total(w, R) \in Nat
    BY <1>1, TotalCongruence, TotalType
  <1>3. Total(v, S) = v[x] + Total(v, R) /\ Total(w, S) = w[x] + Total(w, R)
    BY TotalOfOne
  <1>. HIDE DEF R
  <1>. QED
    BY <1>2, <1>3

-----------------------------------------------------------------------------
(* A strict order of T by which any two of it can be compared.              *)
IsOrder(R, T) ==
    /\ \A x, y \in T : x # y => <<x, y>> \in R \/ <<y, x>> \in R
    /\ \A x, y \in T : ~ (<<x, y>> \in R /\ <<y, x>> \in R)
    /\ \A x, y, z \in T : <<x, y>> \in R /\ <<y, z>> \in R => <<x, z>> \in R

(* How many of T come before x.                                             *)
Rank(R, T, x) == Cardinality({y \in T : <<y, x>> \in R})

(* The one of T that n - 1 others come before.                              *)
Nth(R, T, n) == CHOOSE x \in T : Rank(R, T, x) = n - 1

(* More come before the later of two.                                       *)
LEMMA RanksGrow ==
    ASSUME NEW T, IsFiniteSet(T), NEW R, IsOrder(R, T), NEW x \in T, NEW y \in T, <<x, y>> \in R
    PROVE  Rank(R, T, x) < Rank(R, T, y)
<1> DEFINE a == {z \in T : <<z, x>> \in R}
           b == {z \in T : <<z, y>> \in R}
<1>1. a \in SUBSET b /\ x \in b /\ x \notin a
  BY DEF IsOrder
<1>2. IsFiniteSet(b)
  BY FS_Subset
<1>3. IsFiniteSet(a) /\ Cardinality(a) <= Cardinality(b) /\ (Cardinality(b) = Cardinality(a) => a = b)
  <2> HIDE DEF a, b
  <2> QED
    BY <1>1, <1>2, FS_Subset
<1>4. Cardinality(a) \in Nat /\ Cardinality(b) \in Nat
  BY <1>2, <1>3, FS_CardinalityType
<1> QED
  BY <1>1, <1>3, <1>4 DEF Rank

(* A rank is below the number of all.                                       *)
LEMMA RankIs ==
    ASSUME NEW T, IsFiniteSet(T), NEW R, IsOrder(R, T), NEW x \in T
    PROVE  Rank(R, T, x) \in Nat /\ Rank(R, T, x) < Cardinality(T)
<1> DEFINE a == {z \in T : <<z, x>> \in R}
<1>1. a \in SUBSET T /\ a # T
  BY DEF IsOrder
<1>2. IsFiniteSet(a) /\ Cardinality(a) <= Cardinality(T) /\ (Cardinality(T) = Cardinality(a) => a = T)
  <2> HIDE DEF a
  <2> QED
    BY <1>1, FS_Subset
<1>3. Cardinality(a) \in Nat /\ Cardinality(T) \in Nat
  BY <1>2, FS_CardinalityType
<1> QED
  BY <1>1, <1>2, <1>3 DEF Rank

(* Every such number is the rank of one: ranks map T one to one to as many  *)
(* numbers.                                                                 *)
LEMMA EveryRank ==
    ASSUME NEW T, IsFiniteSet(T), NEW R, IsOrder(R, T), NEW k \in Nat, k < Cardinality(T)
    PROVE  \E x \in T : Rank(R, T, x) = k
<1> DEFINE N == Cardinality(T)
           U == 0..(N - 1)
           r == [x \in T |-> Rank(R, T, x)]
<1>1. N \in Nat
  BY FS_CardinalityType
<1>2. IsFiniteSet(U) /\ Cardinality(U) = N
  <2>1. N - 1 \in Int /\ 0 \in Int
    BY <1>1
  <2>2. IsFiniteSet(0..(N - 1)) /\ Cardinality(0..(N - 1)) = IF 0 > N - 1 THEN 0 ELSE (N - 1) - 0 + 1
    <3> HIDE DEF N
    <3> QED
      BY <2>1, FS_Interval
  <2> HIDE DEF N
  <2> QED
    BY <1>1, <2>2
<1>3. r \in Injection(T, U)
  <2>1. r \in [T -> U]
    BY <1>1, RankIs
  <2>2. ASSUME NEW x \in T, NEW y \in T, r[x] = r[y] PROVE x = y
    <3>1. Rank(R, T, x) = Rank(R, T, y) /\ Rank(R, T, x) \in Nat
      BY <2>2, RankIs
    <3>2. ~(<<x, y>> \in R) /\ ~(<<y, x>> \in R)
      <4>1. Rank(R, T, y) \in Nat /\ ~(Rank(R, T, x) < Rank(R, T, y)) /\ ~(Rank(R, T, y) < Rank(R, T, x))
        BY <3>1
      <4> QED
        BY <4>1, RanksGrow
    <3> QED
      BY <3>2 DEF IsOrder
  <2> HIDE DEF r, U
  <2> QED
    BY <2>1, <2>2 DEF Injection, IsInjective
<1>4. r \in Surjection(T, U)
  <2> HIDE DEF r, U
  <2> QED
    BY <1>2, <1>3, FS_Injection
<1>5. k \in U
  BY <1>1
<1>6. \E x \in T : r[x] = k
  <2> HIDE DEF r, U
  <2> QED
    BY <1>4, <1>5 DEF Surjection
<1> QED
  BY <1>6

(* So the n-th is well chosen.                                              *)
LEMMA NthIs ==
    ASSUME NEW T, IsFiniteSet(T), NEW R, IsOrder(R, T), NEW n \in 1..Cardinality(T)
    PROVE  Nth(R, T, n) \in T /\ Rank(R, T, Nth(R, T, n)) = n - 1
<1>1. Cardinality(T) \in Nat
  BY FS_CardinalityType
<1>2. \E x \in T : Rank(R, T, x) = n - 1
  BY <1>1, EveryRank
<1> QED
  BY <1>2 DEF Nth

(* Counting off: each has its place, in order.                              *)
LEMMA CountedOff ==
    ASSUME NEW T, IsFiniteSet(T), NEW R, IsOrder(R, T), NEW q,
           \A n \in 1..Cardinality(T) : q[n] = Nth(R, T, n)
    PROVE  /\ \A n \in 1..Cardinality(T) : q[n] \in T
           /\ \A x \in T : \E n \in 1..Cardinality(T) : q[n] = x
           /\ \A n, k \in 1..Cardinality(T) : n < k => <<q[n], q[k]>> \in R
           /\ \A n, k \in 1..Cardinality(T) : <<q[n], q[k]>> \in R => n < k
<1> DEFINE N == Cardinality(T)
<1>1. N \in Nat
  BY FS_CardinalityType
<1>2. \A n \in 1..N : q[n] \in T /\ Rank(R, T, q[n]) = n - 1
  BY NthIs
<1>3. ASSUME NEW n \in 1..N, NEW k \in 1..N, <<q[n], q[k]>> \in R PROVE n < k
  <2>1. Rank(R, T, q[n]) < Rank(R, T, q[k])
    BY <1>2, <1>3, RanksGrow
  <2> QED
    BY <1>1, <1>2, <2>1
<1>4. ASSUME NEW n \in 1..N, NEW k \in 1..N, n < k PROVE <<q[n], q[k]>> \in R
  <2>1. q[n] # q[k]
    <3>1. n - 1 # k - 1
      BY <1>1, <1>4
    <3> QED
      BY <1>2, <3>1
  <2>2. <<q[n], q[k]>> \in R \/ <<q[k], q[n]>> \in R
    BY <1>2, <2>1 DEF IsOrder
  <2>3. ~(k < n)
    BY <1>1, <1>4
  <2> QED
    BY <1>3, <2>2, <2>3
<1>5. ASSUME NEW x \in T PROVE \E n \in 1..N : q[n] = x
  <2> DEFINE n == Rank(R, T, x) + 1
  <2>1. n \in 1..N /\ Rank(R, T, x) = n - 1
    BY <1>1, RankIs
  <2>2. q[n] \in T /\ Rank(R, T, q[n]) = Rank(R, T, x)
    <3> HIDE DEF n
    <3> QED
      BY <1>2, <2>1
  <2>3. q[n] = x
    <3> HIDE DEF n
    <3>1. Rank(R, T, x) \in Nat
      BY RankIs
    <3>2. ~(Rank(R, T, x) < Rank(R, T, q[n])) /\ ~(Rank(R, T, q[n]) < Rank(R, T, x))
      BY <2>2, <3>1
    <3>3. ~(<<x, q[n]>> \in R) /\ ~(<<q[n], x>> \in R)
      BY <2>2, <3>2, RanksGrow
    <3> QED
      BY <2>2, <3>3 DEF IsOrder
  <2> QED
    BY <2>1, <2>3
<1> QED
  BY <1>2, <1>3, <1>4, <1>5

-----------------------------------------------------------------------------
(* The entries t of s at some places: p says at which each was.             *)
PlacedBy(p, t, s, places) ==
    /\ p \in [1..Cardinality(places) -> places]
    /\ \A n \in 1..Cardinality(places) : t[n] = s[p[n]]
    /\ \A i \in places : \E n \in 1..Cardinality(places) : p[n] = i
    /\ \A n, k \in 1..Cardinality(places) : n < k => p[n] < p[k]
    /\ \A n, k \in 1..Cardinality(places) : p[n] < p[k] => n < k

(* What is chosen by place is as many entries, in their order.              *)
LEMMA AtPlacesAre ==
    ASSUME NEW E, NEW s \in Seq(E), NEW places \in SUBSET DOMAIN s
    PROVE  /\ AtPlaces(s, places) \in Seq(E)
           /\ Len(AtPlaces(s, places)) = Cardinality(places)
           /\ Cardinality(places) \in Nat /\ Cardinality(places) <= Len(s)
           /\ \E p : PlacedBy(p, AtPlaces(s, places), s, places)
<1> DEFINE R == {r \in places \X places : r[1] < r[2]}
           N == Cardinality(places)
           p == [n \in 1..N |-> Nth(R, places, n)]
           q == AtPlaces(s, places)
<1>1. DOMAIN s = 1..Len(s) /\ Len(s) \in Nat /\ \A i \in DOMAIN s : s[i] \in E
  BY LenProperties, ElementOfSeq
<1>2. IsFiniteSet(1..Len(s)) /\ Cardinality(1..Len(s)) = Len(s)
  <2>1. Len(s) \in Int /\ 1 \in Int
    BY <1>1
  <2>2. IsFiniteSet(1..Len(s)) /\ Cardinality(1..Len(s)) = IF 1 > Len(s) THEN 0 ELSE Len(s) - 1 + 1
    BY <2>1, FS_Interval
  <2> QED
    BY <1>1, <2>2
<1>3. IsFiniteSet(places) /\ N <= Len(s)
  BY <1>1, <1>2, FS_Subset
<1>4. N \in Nat
  BY <1>3, FS_CardinalityType
<1>5. \A i, j \in places : <<i, j>> \in R <=> i < j
  OBVIOUS
<1>6. \A i \in places : i \in Nat
  BY <1>1
<1> HIDE DEF R
<1>7. IsOrder(R, places)
  BY <1>5, <1>6 DEF IsOrder
<1>8. /\ \A n \in 1..N : p[n] \in places
      /\ \A i \in places : \E n \in 1..N : p[n] = i
      /\ \A n, k \in 1..N : n < k => <<p[n], p[k]>> \in R
      /\ \A n, k \in 1..N : <<p[n], p[k]>> \in R => n < k
  BY <1>3, <1>7, CountedOff
<1>9. ASSUME NEW n \in 1..N PROVE q[n] = s[p[n]]
  <2>1. \A i \in places : Rank(R, places, i) = Cardinality({j \in places : j < i})
    <3>1. \A i \in places : {j \in places : <<j, i>> \in R} = {j \in places : j < i}
      BY <1>5
    <3> QED
      BY <3>1 DEF Rank
  <2>2. p[n] = CHOOSE i \in places : Rank(R, places, i) = n - 1
    BY DEF Nth
  <2>3. p[n] = CHOOSE i \in places : Cardinality({j \in places : j < i}) = n - 1
    BY <2>1, <2>2
  <2>4. q[n] = s[CHOOSE i \in places : Cardinality({j \in places : j < i}) = n - 1]
    BY DEF AtPlaces
  <2> QED
    BY <2>3, <2>4
<1>10. q = [n \in 1..N |-> q[n]] /\ p = [n \in 1..N |-> p[n]]
  BY DEF AtPlaces
<1> HIDE DEF p, q
<1>11. \A n \in 1..N : q[n] \in E
  BY <1>1, <1>8, <1>9
<1>12. q \in Seq(E) /\ Len(q) = N
  <2>1. q \in [1..N -> E]
    BY <1>10, <1>11
  <2> QED
    BY <1>4, <2>1, LenProperties, IsASeq
<1>13. p \in [1..N -> places]
  BY <1>8, <1>10
<1>14. \A n, k \in 1..N : (n < k => p[n] < p[k]) /\ (p[n] < p[k] => n < k)
  BY <1>5, <1>8
<1>15. PlacedBy(p, q, s, places)
  BY <1>8, <1>9, <1>13, <1>14 DEF PlacedBy
<1> QED
  BY <1>3, <1>4, <1>12, <1>15 DEF q

-----------------------------------------------------------------------------
(* A list of rules, one of which applies, gives what one that applies does. *)
LEMMA FirstIs ==
    ASSUME NEW rules, DOMAIN rules \subseteq Nat, NEW k \in DOMAIN rules, rules[k].when
    PROVE  \E i \in DOMAIN rules : rules[i].when /\ FirstOf(rules) = rules[i].then
<1> DEFINE applies == {i \in DOMAIN rules : rules[i].when}
<1>1. applies \in SUBSET Nat /\ applies # {}
  OBVIOUS
<1>2. PICK i \in applies : \A j \in applies : ~(j < i)
  <2> HIDE DEF applies
  <2> QED
    BY <1>1, Least
<1>3. \A j \in applies : i <= j
  <2> HIDE DEF applies
  <2> QED
    BY <1>1, <1>2
<1> QED
  BY <1>3 DEF FirstOf
=============================================================================
