-------------------------------- MODULE Totals --------------------------------
(***************************************************************************)
(* Sums over finite sets, for the proofs: what MapThenSumSet computes, with *)
(* the summand given by a function.  The sum is a recursive function on    *)
(* the subsets of the set; that it exists, is the only one, and does not   *)
(* depend on the order in which elements are chosen is proved by looking   *)
(* at a smallest subset that would be an exception.                        *)
(* The same for functions on numbers that are given step by step.          *)
(***************************************************************************)
EXTENDS Integers, FiniteSets, FiniteSetsExt, FiniteSetTheorems, WellFoundedInduction, TLAPS

Chosen(s) == CHOOSE x \in s : TRUE

(* g[s] is the sum of f over s, for every subset s of S.                   *)
SumsOf(g, f, S) ==
  g = [s \in SUBSET S |-> IF s = {} THEN 0 ELSE f[Chosen(s)] + g[s \ {Chosen(s)}]]

(* The sum of f over S. *)
Total(f, S) == (CHOOSE g : SumsOf(g, f, S))[S]

-----------------------------------------------------------------------------
LEMMA SmallestSubset ==
  ASSUME NEW S, IsFiniteSet(S), NEW Bad \in SUBSET SUBSET S, Bad # {}
  PROVE  \E s \in Bad : \A t \in Bad : ~(t \subseteq s /\ t # s)
PROOF
<1>1. IsWellFoundedOn(StrictSubsetOrdering(S), SUBSET S)
  BY FS_StrictSubsetOrderingWellFounded, FS_FiniteSubsetsOfFinite
<1>2. PICK s \in Bad : \A t \in Bad : ~(<<t, s>> \in StrictSubsetOrdering(S))
  BY <1>1, WFMin
<1>3. ASSUME NEW t \in Bad, t \subseteq s, t # s
      PROVE  <<t, s>> \in StrictSubsetOrdering(S)
  <2> DEFINE pair == <<t, s>>
  <2>1. pair \in (SUBSET S) \X (SUBSET S) /\ pair[1] = t /\ pair[2] = s
    OBVIOUS
  <2> HIDE DEF pair
  <2>2. pair \in StrictSubsetOrdering(S)
    BY <1>3, <2>1 DEF StrictSubsetOrdering
  <2> QED
    BY <2>2 DEF pair
<1>4. \A t \in Bad : ~(t \subseteq s /\ t # s)
  BY <1>2, <1>3
<1> QED
  BY <1>4

LEMMA ChosenIn == ASSUME NEW s, s # {} PROVE Chosen(s) \in s
BY DEF Chosen

LEMMA SumsAt ==
  ASSUME NEW S, NEW f, NEW g, SumsOf(g, f, S), NEW s \in SUBSET S
  PROVE  g[s] = IF s = {} THEN 0 ELSE f[Chosen(s)] + g[s \ {Chosen(s)}]
BY DEF SumsOf

LEMMA SumsUnique ==
  ASSUME NEW S, IsFiniteSet(S), NEW f, NEW g, NEW h, SumsOf(g, f, S), SumsOf(h, f, S)
  PROVE  g = h
PROOF
<1> DEFINE Bad == {s \in SUBSET S : g[s] # h[s]}
<1>1. Bad = {}
  <2> SUFFICES ASSUME Bad # {} PROVE FALSE
    OBVIOUS
  <2>1. Bad \in SUBSET SUBSET S
    OBVIOUS
  <2> HIDE DEF Bad
  <2>2. PICK s \in Bad : \A t \in Bad : ~(t \subseteq s /\ t # s)
    BY <2>1, SmallestSubset
  <2>3. s \in SUBSET S /\ g[s] # h[s]
    BY DEF Bad
  <2>4. s # {}
    BY <2>3, SumsAt
  <2>5. Chosen(s) \in s
    BY <2>4, ChosenIn
  <2>6. s \ {Chosen(s)} \notin Bad
    BY <2>2, <2>5
  <2>7. g[s \ {Chosen(s)}] = h[s \ {Chosen(s)}]
    BY <2>3, <2>6 DEF Bad
  <2> QED
    BY <2>3, <2>4, <2>7, SumsAt
<1>2. \A s \in SUBSET S : g[s] = h[s]
  BY <1>1
<1>3. g = [s \in SUBSET S |-> g[s]] /\ h = [s \in SUBSET S |-> h[s]]
  BY DEF SumsOf
<1> QED
  BY <1>2, <1>3

LEMMA SumsRestrict ==
  ASSUME NEW S, NEW f, NEW g, SumsOf(g, f, S), NEW T \in SUBSET S
  PROVE  SumsOf([s \in SUBSET T |-> g[s]], f, T)
PROOF
<1> DEFINE h == [s \in SUBSET T |-> g[s]]
<1>1. \A s \in SUBSET T :
        h[s] = IF s = {} THEN 0 ELSE f[Chosen(s)] + h[s \ {Chosen(s)}]
  <2> TAKE s \in SUBSET T
  <2>1. s \in SUBSET S /\ s \ {Chosen(s)} \in SUBSET T
    OBVIOUS
  <2> QED
    BY <2>1, SumsAt
<1>2. h = [s \in SUBSET T |-> h[s]]
  OBVIOUS
<1> HIDE DEF h
<1>3. h = [s \in SUBSET T |-> IF s = {} THEN 0 ELSE f[Chosen(s)] + h[s \ {Chosen(s)}]]
  BY <1>1, <1>2
<1> QED
  BY <1>3 DEF h, SumsOf

LEMMA SumsExist ==
  ASSUME NEW S, IsFiniteSet(S), NEW f
  PROVE  \E g : SumsOf(g, f, S)
PROOF
<1> DEFINE Bad == {s \in SUBSET S : ~\E g : SumsOf(g, f, s)}
<1>1. Bad = {}
  <2> SUFFICES ASSUME Bad # {} PROVE FALSE
    OBVIOUS
  <2>1. Bad \in SUBSET SUBSET S
    OBVIOUS
  <2> HIDE DEF Bad
  <2>2. PICK t \in Bad : \A s \in Bad : ~(s \subseteq t /\ s # t)
    BY <2>1, SmallestSubset
  <2>3. t \in SUBSET S /\ ~\E g : SumsOf(g, f, t)
    BY DEF Bad
  <2> DEFINE G(s) == CHOOSE g : SumsOf(g, f, s)
  <2>4. ASSUME NEW s \in SUBSET t, s # t PROVE SumsOf(G(s), f, s)
    <3>1. \E g : SumsOf(g, f, s)
      BY <2>2, <2>3, <2>4 DEF Bad
    <3> QED
      BY <3>1
  <2>5. ASSUME NEW s \in SUBSET t, s # t, NEW r \in SUBSET s PROVE G(s)[r] = G(r)[r]
    <3>1. r # t
      BY <2>5
    <3>2. SumsOf(G(s), f, s) /\ SumsOf(G(r), f, r)
      BY <2>4, <2>5, <3>1
    <3>3. SumsOf([q \in SUBSET r |-> G(s)[q]], f, r)
      BY <3>2, SumsRestrict
    <3>4. IsFiniteSet(r)
      BY <2>3, FS_Subset
    <3>5. [q \in SUBSET r |-> G(s)[q]] = G(r)
      BY <3>2, <3>3, <3>4, SumsUnique
    <3> HIDE DEF G
    <3>6. [q \in SUBSET r |-> G(s)[q]][r] = G(s)[r]
      OBVIOUS
    <3> QED
      BY <3>5, <3>6
  <2> HIDE DEF G
  <2> DEFINE h == [s \in SUBSET t |->
                     IF s = {} THEN 0
                     ELSE f[Chosen(s)] + G(s \ {Chosen(s)})[s \ {Chosen(s)}]]
  <2>6. ASSUME NEW s \in SUBSET t, s # t PROVE h[s] = G(s)[s]
    <3>1. SumsOf(G(s), f, s)
      BY <2>4, <2>6
    <3>2. G(s)[s] = IF s = {} THEN 0 ELSE f[Chosen(s)] + G(s)[s \ {Chosen(s)}]
      BY <3>1, SumsAt
    <3>3. G(s)[s \ {Chosen(s)}] = G(s \ {Chosen(s)})[s \ {Chosen(s)}]
      BY <2>5, <2>6
    <3> QED
      BY <3>2, <3>3
  <2>7. ASSUME NEW s \in SUBSET t
        PROVE  h[s] = IF s = {} THEN 0 ELSE f[Chosen(s)] + h[s \ {Chosen(s)}]
    <3>1. CASE s = {}
      BY <3>1
    <3>2. CASE s # {}
      <4>1. s \ {Chosen(s)} \in SUBSET t /\ s \ {Chosen(s)} # t
        BY <3>2, ChosenIn
      <4>2. h[s \ {Chosen(s)}] = G(s \ {Chosen(s)})[s \ {Chosen(s)}]
        BY <2>6, <4>1
      <4> QED
        BY <3>2, <4>2
    <3> QED
      BY <3>1, <3>2
  <2>8. h = [s \in SUBSET t |-> h[s]]
    OBVIOUS
  <2> HIDE DEF h
  <2>9. SumsOf(h, f, t)
    BY <2>7, <2>8 DEF SumsOf
  <2> QED
    BY <2>3, <2>9
<1>2. S \notin Bad
  BY <1>1
<1> QED
  BY <1>2

-----------------------------------------------------------------------------
LEMMA TotalIs ==
  ASSUME NEW S, IsFiniteSet(S), NEW f, NEW g, SumsOf(g, f, S)
  PROVE  Total(f, S) = g[S]
PROOF
<1>1. SumsOf(CHOOSE h : SumsOf(h, f, S), f, S)
  OBVIOUS
<1>2. (CHOOSE h : SumsOf(h, f, S)) = g
  BY <1>1, SumsUnique
<1> QED
  BY <1>2 DEF Total

LEMMA TotalEmpty == ASSUME NEW f PROVE Total(f, {}) = 0
PROOF
<1>1. IsFiniteSet({})
  BY FS_EmptySet
<1>2. PICK g : SumsOf(g, f, {})
  BY <1>1, SumsExist
<1>3. g[{}] = 0
  BY <1>2, SumsAt
<1> QED
  BY <1>1, <1>2, <1>3, TotalIs

(* The sum over a subset is in the table of the sums over the set.         *)
LEMMA TotalAt ==
  ASSUME NEW S, IsFiniteSet(S), NEW f, NEW g, SumsOf(g, f, S), NEW s \in SUBSET S
  PROVE  Total(f, s) = g[s]
PROOF
<1>1. IsFiniteSet(s)
  BY FS_Subset
<1>2. SumsOf([q \in SUBSET s |-> g[q]], f, s)
  BY SumsRestrict
<1> QED
  BY <1>1, <1>2, TotalIs

LEMMA TotalChosen ==
  ASSUME NEW S, IsFiniteSet(S), S # {}, NEW f
  PROVE  Total(f, S) = f[Chosen(S)] + Total(f, S \ {Chosen(S)})
PROOF
<1>1. PICK g : SumsOf(g, f, S)
  BY SumsExist
<1>2. g[S] = f[Chosen(S)] + g[S \ {Chosen(S)}]
  BY <1>1, SumsAt
<1>3. Total(f, S) = g[S] /\ Total(f, S \ {Chosen(S)}) = g[S \ {Chosen(S)}]
  BY <1>1, TotalAt
<1> QED
  BY <1>2, <1>3

LEMMA TotalInteger ==
  ASSUME NEW S, IsFiniteSet(S), NEW f, \A x \in S : f[x] \in Int
  PROVE  Total(f, S) \in Int
PROOF
<1> DEFINE Bad == {s \in SUBSET S : Total(f, s) \notin Int}
<1> SUFFICES ASSUME Bad # {} PROVE FALSE
  OBVIOUS
<1>1. Bad \in SUBSET SUBSET S
  OBVIOUS
<1> HIDE DEF Bad
<1>2. PICK s \in Bad : \A t \in Bad : ~(t \subseteq s /\ t # s)
  BY <1>1, SmallestSubset
<1>3. s \in SUBSET S /\ Total(f, s) \notin Int
  BY DEF Bad
<1>4. s # {}
  BY <1>3, TotalEmpty
<1>5. Chosen(s) \in s
  BY <1>4, ChosenIn
<1>6. Total(f, s \ {Chosen(s)}) \in Int
  BY <1>2, <1>3, <1>5 DEF Bad
<1>7. IsFiniteSet(s) /\ f[Chosen(s)] \in Int
  BY <1>3, <1>5, FS_Subset
<1>8. Total(f, s) = f[Chosen(s)] + Total(f, s \ {Chosen(s)})
  BY <1>4, <1>7, TotalChosen
<1> QED
  BY <1>3, <1>6, <1>7, <1>8

LEMMA TotalNatural ==
  ASSUME NEW S, IsFiniteSet(S), NEW f, \A x \in S : f[x] \in Nat
  PROVE  Total(f, S) \in Nat
PROOF
<1> DEFINE Bad == {s \in SUBSET S : Total(f, s) \notin Nat}
<1> SUFFICES ASSUME Bad # {} PROVE FALSE
  OBVIOUS
<1>1. Bad \in SUBSET SUBSET S
  OBVIOUS
<1> HIDE DEF Bad
<1>2. PICK s \in Bad : \A t \in Bad : ~(t \subseteq s /\ t # s)
  BY <1>1, SmallestSubset
<1>3. s \in SUBSET S /\ Total(f, s) \notin Nat
  BY DEF Bad
<1>4. s # {}
  BY <1>3, TotalEmpty
<1>5. Chosen(s) \in s
  BY <1>4, ChosenIn
<1>6. Total(f, s \ {Chosen(s)}) \in Nat
  BY <1>2, <1>3, <1>5 DEF Bad
<1>7. IsFiniteSet(s) /\ f[Chosen(s)] \in Nat
  BY <1>3, <1>5, FS_Subset
<1>8. Total(f, s) = f[Chosen(s)] + Total(f, s \ {Chosen(s)})
  BY <1>4, <1>7, TotalChosen
<1> QED
  BY <1>3, <1>6, <1>7, <1>8

(* Any element may be taken out first.                                     *)
LEMMA TotalRemove ==
  ASSUME NEW S, IsFiniteSet(S), NEW f, \A y \in S : f[y] \in Int, NEW x \in S
  PROVE  Total(f, S) = f[x] + Total(f, S \ {x})
PROOF
<1> DEFINE Bad == {s \in SUBSET S : \E y \in s : Total(f, s) # f[y] + Total(f, s \ {y})}
<1>1. Bad = {}
  <2> SUFFICES ASSUME Bad # {} PROVE FALSE
    OBVIOUS
  <2>1. Bad \in SUBSET SUBSET S
    OBVIOUS
  <2> HIDE DEF Bad
  <2>2. PICK s \in Bad : \A t \in Bad : ~(t \subseteq s /\ t # s)
    BY <2>1, SmallestSubset
  <2>3. s \in SUBSET S
    BY DEF Bad
  <2>4. PICK y \in s : Total(f, s) # f[y] + Total(f, s \ {y})
    BY DEF Bad
  <2>5. PICK c \in s : c = Chosen(s)
    BY ChosenIn
  <2>6. \A t \in SUBSET S : IsFiniteSet(t) /\ Total(f, t) \in Int
    BY FS_Subset, TotalInteger
  <2>7. Total(f, s) = f[c] + Total(f, s \ {c})
    BY <2>3, <2>5, <2>6, TotalChosen
  <2>8. y # c
    BY <2>4, <2>7
  <2>9. s \ {c} \notin Bad /\ s \ {y} \notin Bad
    BY <2>2
  <2>10. Total(f, s \ {c}) = f[y] + Total(f, (s \ {c}) \ {y})
    BY <2>3, <2>8, <2>9 DEF Bad
  <2>11. Total(f, s \ {y}) = f[c] + Total(f, (s \ {y}) \ {c})
    BY <2>3, <2>8, <2>9 DEF Bad
  <2>12. (s \ {c}) \ {y} = (s \ {y}) \ {c}
    OBVIOUS
  <2>13. PICK rest \in Int : rest = Total(f, (s \ {c}) \ {y})
    BY <2>3, <2>6
  <2>14. f[y] \in Int /\ f[c] \in Int
    BY <2>3
  <2>15. Total(f, s) = f[c] + (f[y] + rest)
    BY <2>7, <2>10, <2>13
  <2>16. Total(f, s \ {y}) = f[c] + rest
    BY <2>11, <2>12, <2>13
  <2> QED
    BY <2>4, <2>13, <2>14, <2>15, <2>16
<1>2. S \notin Bad
  BY <1>1
<1> QED
  BY <1>2

(* Only what a function is on the set counts.                              *)
LEMMA TotalSame ==
  ASSUME NEW S, IsFiniteSet(S), NEW f, NEW h, \A x \in S : f[x] = h[x]
  PROVE  Total(f, S) = Total(h, S)
PROOF
<1>1. PICK g : SumsOf(g, f, S)
  BY SumsExist
<1>2. \A s \in SUBSET S : (IF s = {} THEN 0 ELSE f[Chosen(s)] + g[s \ {Chosen(s)}])
                         = (IF s = {} THEN 0 ELSE h[Chosen(s)] + g[s \ {Chosen(s)}])
  BY ChosenIn
<1>3. SumsOf(g, h, S)
  BY <1>1, <1>2 DEF SumsOf
<1> QED
  BY <1>1, <1>3, TotalIs

(* One summand changes.                                                    *)
LEMMA TotalChange ==
  ASSUME NEW S, IsFiniteSet(S), NEW f, NEW h, \A y \in S : f[y] \in Int /\ h[y] \in Int,
         NEW x \in S, \A y \in S \ {x} : f[y] = h[y]
  PROVE  Total(h, S) = Total(f, S) - f[x] + h[x]
PROOF
<1>1. IsFiniteSet(S \ {x})
  BY FS_Subset
<1>2. Total(f, S \ {x}) \in Int /\ Total(f, S \ {x}) = Total(h, S \ {x})
  BY <1>1, TotalInteger, TotalSame
<1>3. Total(f, S) = f[x] + Total(f, S \ {x}) /\ Total(h, S) = h[x] + Total(h, S \ {x})
  BY TotalRemove
<1> QED
  BY <1>2, <1>3

LEMMA TotalZero ==
  ASSUME NEW S, IsFiniteSet(S), NEW f, \A x \in S : f[x] = 0
  PROVE  Total(f, S) = 0
PROOF
<1> DEFINE zero == [s \in SUBSET S |-> 0]
<1>1. \A s \in SUBSET S :
        zero[s] = IF s = {} THEN 0 ELSE f[Chosen(s)] + zero[s \ {Chosen(s)}]
  BY ChosenIn
<1>2. zero = [s \in SUBSET S |-> zero[s]]
  OBVIOUS
<1> HIDE DEF zero
<1>3. SumsOf(zero, f, S)
  BY <1>1, <1>2 DEF SumsOf
<1>4. zero[S] = 0
  BY DEF zero
<1> QED
  BY <1>3, <1>4, TotalIs

(* Summands of zero may be left out.                                       *)
LEMMA TotalOutside ==
  ASSUME NEW T, IsFiniteSet(T), NEW S \in SUBSET T, NEW f, \A x \in T : f[x] \in Int,
         \A x \in T \ S : f[x] = 0
  PROVE  Total(f, T) = Total(f, S)
PROOF
<1> DEFINE Bad == {R \in SUBSET T : S \subseteq R /\ Total(f, R) # Total(f, S)}
<1>1. Bad = {}
  <2> SUFFICES ASSUME Bad # {} PROVE FALSE
    OBVIOUS
  <2>1. Bad \in SUBSET SUBSET T
    OBVIOUS
  <2>2. PICK R \in Bad : \A Q \in Bad : ~(Q \subseteq R /\ Q # R)
    <3> HIDE DEF Bad
    <3> QED
      BY <2>1, SmallestSubset
  <2>3. R \in SUBSET T /\ S \subseteq R /\ Total(f, R) # Total(f, S)
    OBVIOUS
  <2>4. PICK x \in R : x \notin S
    BY <2>3
  <2>5. R \ {x} \notin Bad
    BY <2>2, <2>4
  <2>6. Total(f, R \ {x}) = Total(f, S)
    BY <2>3, <2>4, <2>5
  <2>7. IsFiniteSet(R) /\ IsFiniteSet(R \ {x})
    BY <2>3, FS_Subset
  <2>8. Total(f, R) = f[x] + Total(f, R \ {x})
    BY <2>3, <2>7, TotalRemove
  <2>9. f[x] = 0 /\ Total(f, R \ {x}) \in Int
    BY <2>3, <2>4, <2>7, TotalInteger
  <2> QED
    BY <2>3, <2>6, <2>8, <2>9
<1>2. T \notin Bad
  BY <1>1
<1> QED
  BY <1>2

-----------------------------------------------------------------------------
(* Recursion over numbers.                                                *)
LEMMA SmallestNumber ==
  ASSUME NEW Bad \in SUBSET Nat, Bad # {}
  PROVE  \E n \in Bad : \A m \in Bad : n <= m
PROOF
<1> DEFINE Less == OpToRel(<, Nat)
<1>3. IsWellFoundedOn(Less, Nat)
  BY NatLessThanWellFounded
<1>4. \A p \in Nat \X Nat : p[1] < p[2] => p \in Less
  BY Zenon DEF OpToRel
<1> HIDE DEF Less
<1>1. PICK n \in Bad : \A m \in Bad : ~(<<m, n>> \in Less)
  BY <1>3, WFMin
<1>2. ASSUME NEW m \in Bad, m < n PROVE <<m, n>> \in Less
  <2> DEFINE pair == <<m, n>>
  <2>1. pair \in Nat \X Nat /\ pair[1] = m /\ pair[2] = n
    OBVIOUS
  <2> HIDE DEF pair
  <2>2. pair \in Less
    BY <1>2, <1>4, <2>1
  <2> QED
    BY <2>2 DEF pair
<1>5. n \in Nat /\ \A m \in Bad : m \in Nat /\ ~(m < n)
  BY <1>1, <1>2
<1> QED
  BY <1>5

(* A function on 0..N that is given by its first value and its steps.      *)
Stepped(g, s0, N, S, step) ==
  /\ g \in [0..N -> S]
  /\ g[0] = s0
  /\ \A k \in 1..N : g[k] = step[<<k, g[k - 1]>>]

LEMMA StepsExist ==
  ASSUME NEW S, NEW s0 \in S, NEW N \in Nat, NEW step,
         \A k \in 1..N, x \in S : step[<<k, x>>] \in S
  PROVE  \E g : Stepped(g, s0, N, S, step)
PROOF
<1> DEFINE Bad == {n \in 0..N : ~\E g : Stepped(g, s0, n, S, step)}
<1>1. Bad = {}
  <2> SUFFICES ASSUME Bad # {} PROVE FALSE
    OBVIOUS
  <2>1. Bad \in SUBSET Nat
    OBVIOUS
  <2>2. PICK n \in Bad : \A m \in Bad : n <= m
    <3> HIDE DEF Bad
    <3> QED BY <2>1, SmallestNumber
  <2>3. n \in 0..N /\ ~\E g : Stepped(g, s0, n, S, step)
    OBVIOUS
  <2>4. n # 0
    <3>1. Stepped([k \in 0..0 |-> s0], s0, 0, S, step)
      BY DEF Stepped
    <3> QED
      BY <2>3, <3>1
  <2>5. n - 1 \in 0..N /\ n - 1 \notin Bad
    BY <2>2, <2>3, <2>4
  <2>6. PICK g : Stepped(g, s0, n - 1, S, step)
    BY <2>5
  <2> DEFINE h == [k \in 0..n |-> IF k = n THEN step[<<n, g[n - 1]>>] ELSE g[k]]
  <2>7. n \in 1..N /\ n - 1 \in 0..n - 1 /\ g[n - 1] \in S
    BY <2>3, <2>4, <2>6 DEF Stepped
  <2>8. step[<<n, g[n - 1]>>] \in S
    BY <2>7
  <2>9. h \in [0..n -> S]
    BY <2>6, <2>7, <2>8 DEF Stepped
  <2>10. h[0] = s0
    BY <2>6, <2>7 DEF Stepped
  <2>11. ASSUME NEW k \in 1..n PROVE h[k] = step[<<k, h[k - 1]>>]
    <3>1. h[k - 1] = g[k - 1]
      BY <2>7
    <3>2. CASE k = n
      BY <3>1, <3>2
    <3>3. CASE k # n
      BY <2>6, <2>7, <3>1, <3>3 DEF Stepped
    <3> QED
      BY <3>2, <3>3
  <2> QED
    BY <2>3, <2>9, <2>10, <2>11 DEF Stepped
<1>2. N \notin Bad
  BY <1>1
<1>3. PICK g : Stepped(g, s0, N, S, step)
  BY <1>2
<1> QED
  BY <1>3

-----------------------------------------------------------------------------
(* What the operator of the community modules computes is such a sum; the  *)
(* summand is an operator there, so every use needs a step of its own.     *)
LEMMA SumIsTotal ==
  ASSUME NEW S, IsFiniteSet(S), NEW f
  PROVE  MapThenSumSet(LAMBDA x : f[x], S) = Total(f, S)
PROOF
<1> DEFINE P(g) == g = [s \in SUBSET S |-> IF s = {} THEN 0
                       ELSE LET x == CHOOSE x \in s : TRUE IN f[x] + g[s \ {x}]]
<1>1. MapThenSumSet(LAMBDA x : f[x], S) = (CHOOSE g : P(g))[S]
  BY DEF MapThenSumSet, MapThenFoldSet
<1>2. \A g : P(g) <=> SumsOf(g, f, S)
  BY DEF SumsOf, Chosen
<1>3. \E g : SumsOf(g, f, S)
  BY SumsExist
<1> HIDE DEF P
<1>4. SumsOf(CHOOSE g : P(g), f, S)
  BY <1>2, <1>3
<1> QED
  BY <1>1, <1>4, TotalIs
===============================================================================
