---------------------------- MODULE PayLines_proofs ----------------------------
(***************************************************************************)
(* Theorems about PayLines, for any dates, periods, wages, overtime        *)
(* requests, settings and amounts, any number of concurrent requests and   *)
(* any crash: wages stay apart and are kept, a line is the current pay,    *)
(* and more pay nets more.  The rules of pay come first: sums over finite  *)
(* sets, rounding, and the tax bands against the marginal definition.      *)
(***************************************************************************)
EXTENDS PayLines, FiniteSetTheorems, WellFoundedInduction, TLAPS

-----------------------------------------------------------------------------
(* Sums over finite sets, as PayRules computes them with MapThenSumSet.    *)

\* The recursive function that MapThenSumSet evaluates.
Pick(s) == CHOOSE x \in s : TRUE
Iterates(A, S, f) == f = [s \in SUBSET S |-> IF s = {} THEN 0 ELSE A[Pick(s)] + f[s \ {Pick(s)}]]
Iterated(A, S) == CHOOSE f : Iterates(A, S, f)
SumOver(A, S) == Iterated(A, S)[S]

LEMMA SumOverIs ==
    ASSUME NEW A, NEW S
    PROVE  MapThenSumSet(LAMBDA x : A[x], S) = SumOver(A, S)
BY DEF MapThenSumSet, MapThenFoldSet, SumOver, Iterated, Iterates, Pick

LEMMA PickIn == ASSUME NEW s, s # {} PROVE Pick(s) \in s
BY DEF Pick

\* Among subsets of a finite set there is a minimal one.
LEMMA MinimalSubset ==
    ASSUME NEW S, IsFiniteSet(S), NEW T, T \subseteq SUBSET S, T # {}
    PROVE  \E s \in T : \A t \in T : t \subseteq s => t = s
<1>1. T \subseteq FiniteSubsetsOf(S)
  BY FS_Subset DEF FiniteSubsetsOf
<1>2. \E s \in T : \A t \in T : ~ (<<t, s>> \in StrictSubsetOrdering(S))
  BY <1>1, FS_StrictSubsetOrderingWellFounded, WFMin
<1> QED BY <1>2 DEF StrictSubsetOrdering

LEMMA IterationIsUnique ==
    ASSUME NEW A, NEW S, IsFiniteSet(S), NEW f, NEW g, Iterates(A, S, f), Iterates(A, S, g)
    PROVE  f = g
<1> DEFINE T == {s \in SUBSET S : f[s] # g[s]}
<1>1. CASE T = {}
  BY <1>1 DEF Iterates
<1>2. CASE T # {}
  <2>0. T \subseteq SUBSET S
    OBVIOUS
  <2>1. PICK s \in T : \A t \in T : t \subseteq s => t = s
    <3> HIDE DEF T
    <3> QED BY <1>2, <2>0, MinimalSubset
  <2> DEFINE u == s \ {Pick(s)}
  <2>2. /\ f[s] = IF s = {} THEN 0 ELSE A[Pick(s)] + f[u]
        /\ g[s] = IF s = {} THEN 0 ELSE A[Pick(s)] + g[u]
    BY DEF Iterates
  <2>3. s # {} /\ Pick(s) \in s
    BY <2>2, PickIn
  <2>4. u \in SUBSET S /\ u \subseteq s /\ u # s
    BY <2>3
  <2>5. f[u] = g[u]
    BY <2>1, <2>4
  <2> QED BY <2>2, <2>3, <2>5
<1> QED BY <1>1, <1>2

LEMMA IterationRestricts ==
    ASSUME NEW A, NEW S, NEW f, Iterates(A, S, f), NEW t \in SUBSET S
    PROVE  Iterates(A, t, [s \in SUBSET t |-> f[s]])
<1> DEFINE g == [s \in SUBSET t |-> f[s]]
<1>1. ASSUME NEW s \in SUBSET t
      PROVE  g[s] = IF s = {} THEN 0 ELSE A[Pick(s)] + g[s \ {Pick(s)}]
  <2>1. s \in SUBSET S /\ s \ {Pick(s)} \in SUBSET t
    OBVIOUS
  <2>2. f[s] = IF s = {} THEN 0 ELSE A[Pick(s)] + f[s \ {Pick(s)}]
    BY <2>1 DEF Iterates
  <2> QED BY <2>1, <2>2
<1> QED BY <1>1 DEF Iterates

LEMMA IterationExists ==
    ASSUME NEW A, NEW S, IsFiniteSet(S)
    PROVE  Iterates(A, S, Iterated(A, S))
<1> DEFINE T == {s \in SUBSET S : ~ \E f : Iterates(A, s, f)}
<1>1. CASE T = {}
  <2>1. \E f : Iterates(A, S, f)
    BY <1>1
  <2> QED BY <2>1 DEF Iterated
<1>2. CASE T # {}
  <2>0. T \subseteq SUBSET S
    OBVIOUS
  <2>1. PICK s \in T : \A t \in T : t \subseteq s => t = s
    <3> HIDE DEF T
    <3> QED BY <1>2, <2>0, MinimalSubset
  <2> DEFINE rest(t) == t \ {Pick(t)}
             f == [t \in SUBSET s |-> IF t = {} THEN 0 ELSE A[Pick(t)] + SumOver(A, rest(t))]
  <2>2. ASSUME NEW u \in SUBSET s, u # s PROVE Iterates(A, u, Iterated(A, u))
    <3>1. \E h : Iterates(A, u, h)
      BY <2>1, <2>2
    <3> QED BY <3>1 DEF Iterated
  <2>3. ASSUME NEW u \in SUBSET s, u # s PROVE f[u] = SumOver(A, u)
    <3> DEFINE h == Iterated(A, u)
               v == rest(u)
    <3>1. h[u] = IF u = {} THEN 0 ELSE A[Pick(u)] + h[v]
      BY <2>2, <2>3 DEF Iterates
    <3>2. CASE u = {}
      BY <3>1, <3>2 DEF SumOver
    <3>3. CASE u # {}
      <4>1. v \in SUBSET u /\ v \in SUBSET s /\ v # s
        BY <3>3, PickIn
      <4>2. Iterates(A, v, Iterated(A, v)) /\ Iterates(A, v, [t \in SUBSET v |-> h[t]])
        BY <2>2, <2>3, <4>1, IterationRestricts
      <4>3. IsFiniteSet(v)
        BY <4>1, FS_Subset
      <4>4. Iterated(A, v) = [t \in SUBSET v |-> h[t]]
        BY <4>2, <4>3, IterationIsUnique
      <4>5. h[v] = SumOver(A, v)
        BY <4>4 DEF SumOver
      <4> QED BY <3>1, <3>3, <4>5 DEF SumOver
    <3> QED BY <3>2, <3>3
  <2>4. ASSUME NEW t \in SUBSET s PROVE f[t] = IF t = {} THEN 0 ELSE A[Pick(t)] + f[t \ {Pick(t)}]
    <3>1. CASE t = {}
      BY <3>1
    <3>2. CASE t # {}
      <4>1. rest(t) \in SUBSET s /\ rest(t) # s
        BY <3>2, PickIn
      <4> QED BY <2>3, <3>2, <4>1
    <3> QED BY <3>1, <3>2
  <2>5. Iterates(A, s, f)
    <3> HIDE DEF f
    <3>1. f = [t \in SUBSET s |-> f[t]]
      BY DEF f
    <3> QED BY <2>4, <3>1 DEF Iterates
  <2> QED BY <2>1, <2>5
<1> QED BY <1>1, <1>2

LEMMA SumEmpty == ASSUME NEW A PROVE SumOver(A, {}) = 0
<1>1. Iterates(A, {}, Iterated(A, {}))
  BY FS_EmptySet, IterationExists
<1> QED BY <1>1 DEF Iterates, SumOver

LEMMA SumPick ==
    ASSUME NEW A, NEW S, IsFiniteSet(S), S # {}
    PROVE  SumOver(A, S) = A[Pick(S)] + SumOver(A, S \ {Pick(S)})
<1> DEFINE f == Iterated(A, S)
           u == S \ {Pick(S)}
<1>1. Iterates(A, S, f) /\ IsFiniteSet(u) /\ u \in SUBSET S
  BY IterationExists, FS_Subset
<1>2. f[S] = A[Pick(S)] + f[u]
  BY <1>1 DEF Iterates
<1>3. Iterated(A, u) = [t \in SUBSET u |-> f[t]]
  <2>1. Iterates(A, u, Iterated(A, u))
    BY <1>1, IterationExists
  <2>2. Iterates(A, u, [t \in SUBSET u |-> f[t]])
    BY <1>1, IterationRestricts
  <2> QED BY <1>1, <2>1, <2>2, IterationIsUnique
<1>4. SumOver(A, u) = f[u]
  BY <1>3 DEF SumOver
<1> QED BY <1>2, <1>4 DEF SumOver

\* Sums of naturals are naturals.
LEMMA SumNat ==
    ASSUME NEW S, IsFiniteSet(S), NEW A, \A x \in S : A[x] \in Nat
    PROVE  SumOver(A, S) \in Nat
<1> DEFINE T == {s \in SUBSET S : SumOver(A, s) \notin Nat}
<1>1. CASE T # {}
  <2>0. T \subseteq SUBSET S
    OBVIOUS
  <2>1. PICK s \in T : \A t \in T : t \subseteq s => t = s
    <3> HIDE DEF T
    <3> QED BY <1>1, <2>0, MinimalSubset
  <2>2. s # {} /\ Pick(s) \in s /\ IsFiniteSet(s)
    <3>1. s \in SUBSET S /\ SumOver(A, s) \notin Nat
      BY <2>1
    <3>2. s # {}
      BY <3>1, SumEmpty
    <3> QED BY <3>1, <3>2, PickIn, FS_Subset
  <2>3. SumOver(A, s \ {Pick(s)}) \in Nat
    BY <2>1, <2>2
  <2> QED BY <2>1, <2>2, <2>3, SumPick
<1> QED BY <1>1

\* A sum loses exactly A[x] with x, whatever order its terms are picked in.
LEMMA SumRemove ==
    ASSUME NEW S, IsFiniteSet(S), NEW A, \A x \in S : A[x] \in Nat, NEW x \in S
    PROVE  SumOver(A, S) = A[x] + SumOver(A, S \ {x})
<1> DEFINE Fits(s) == \A y \in s : SumOver(A, s) = A[y] + SumOver(A, s \ {y})
           T == {s \in SUBSET S : ~ Fits(s)}
<1>1. CASE T # {}
  <2>0. T \subseteq SUBSET S
    OBVIOUS
  <2>1. PICK s \in T : \A t \in T : t \subseteq s => t = s
    <3> HIDE DEF T
    <3> QED BY <1>1, <2>0, MinimalSubset
  <2>2. PICK y \in s : SumOver(A, s) # A[y] + SumOver(A, s \ {y})
    BY <2>1
  <2> DEFINE c == Pick(s)
             both == s \ {c, y}
  <2>3. IsFiniteSet(s) /\ c \in s
    BY <2>2, FS_Subset, PickIn
  <2>4. SumOver(A, s) = A[c] + SumOver(A, s \ {c})
    BY <2>2, <2>3, SumPick
  <2>5. y # c
    BY <2>2, <2>4
  <2>6. Fits(s \ {c}) /\ Fits(s \ {y})
    BY <2>1, <2>3
  <2>7. both = (s \ {c}) \ {y} /\ both = (s \ {y}) \ {c} /\ y \in s \ {c} /\ c \in s \ {y}
    BY <2>3, <2>5
  <2>8. /\ SumOver(A, s \ {c}) = A[y] + SumOver(A, both)
        /\ SumOver(A, s \ {y}) = A[c] + SumOver(A, both)
    BY <2>6, <2>7
  <2>9. IsFiniteSet(both) /\ A[c] \in Nat /\ A[y] \in Nat
    BY <2>3, FS_Subset
  <2>10. SumOver(A, both) \in Nat
    BY <2>9, SumNat
  <2> QED BY <2>2, <2>4, <2>8, <2>9, <2>10
<1>2. CASE T = {}
  BY <1>2
<1> QED BY <1>1, <1>2

\* A sum is given by the values of its terms.
LEMMA SumSame ==
    ASSUME NEW S, IsFiniteSet(S), NEW A, NEW B, \A x \in S : A[x] = B[x]
    PROVE  SumOver(A, S) = SumOver(B, S)
<1> DEFINE T == {s \in SUBSET S : SumOver(A, s) # SumOver(B, s)}
<1>1. CASE T # {}
  <2>0. T \subseteq SUBSET S
    OBVIOUS
  <2>1. PICK s \in T : \A t \in T : t \subseteq s => t = s
    <3> HIDE DEF T
    <3> QED BY <1>1, <2>0, MinimalSubset
  <2>2. s \in SUBSET S /\ SumOver(A, s) # SumOver(B, s)
    BY <2>1
  <2>3. s # {} /\ Pick(s) \in s /\ IsFiniteSet(s)
    BY <2>2, SumEmpty, PickIn, FS_Subset
  <2>4. SumOver(A, s \ {Pick(s)}) = SumOver(B, s \ {Pick(s)})
    BY <2>1, <2>3
  <2> QED BY <2>2, <2>3, <2>4, SumPick
<1> QED BY <1>1

LEMMA SumScale ==
    ASSUME NEW S, IsFiniteSet(S), NEW A, NEW B, NEW k \in Nat,
           \A x \in S : A[x] \in Nat /\ B[x] = k * A[x]
    PROVE  SumOver(B, S) = k * SumOver(A, S)
<1> DEFINE T == {s \in SUBSET S : SumOver(B, s) # k * SumOver(A, s)}
<1>1. CASE T # {}
  <2>0. T \subseteq SUBSET S
    OBVIOUS
  <2>1. PICK s \in T : \A t \in T : t \subseteq s => t = s
    <3> HIDE DEF T
    <3> QED BY <1>1, <2>0, MinimalSubset
  <2>2. s \in SUBSET S /\ SumOver(B, s) # k * SumOver(A, s)
    BY <2>1
  <2>3. s # {}
    <3>1. k * 0 = 0
      OBVIOUS
    <3> QED BY <2>2, <3>1, SumEmpty
  <2> DEFINE c == Pick(s)
             rest == s \ {c}
  <2>4. c \in s /\ IsFiniteSet(s) /\ IsFiniteSet(rest) /\ rest \in SUBSET S
    BY <2>2, <2>3, PickIn, FS_Subset
  <2>5. SumOver(B, rest) = k * SumOver(A, rest)
    BY <2>1, <2>4
  <2>6. SumOver(A, s) = A[c] + SumOver(A, rest) /\ SumOver(B, s) = B[c] + SumOver(B, rest)
    BY <2>3, <2>4, SumPick
  <2>7. A[c] \in Nat /\ B[c] = k * A[c] /\ SumOver(A, rest) \in Nat
    BY <2>2, <2>4, SumNat
  <2> HIDE DEF c, rest
  <2>8. k * (A[c] + SumOver(A, rest)) = k * A[c] + k * SumOver(A, rest)
    BY <2>7
  <2> QED BY <2>2, <2>5, <2>6, <2>7, <2>8
<1> QED BY <1>1

\* Terms that are each rounded once: every one adds half a unit to the error.
LEMMA SumNear ==
    ASSUME NEW S, IsFiniteSet(S), NEW A, NEW B, NEW d \in Nat,
           \A x \in S : A[x] \in Nat /\ B[x] \in Nat /\ Near(A[x], B[x], d, 1)
    PROVE  Near(SumOver(A, S), SumOver(B, S), d, Cardinality(S))
<1> DEFINE Fits(s) == Near(SumOver(A, s), SumOver(B, s), d, Cardinality(s))
           T == {s \in SUBSET S : ~ Fits(s)}
<1>1. CASE T # {}
  <2>0. T \subseteq SUBSET S
    OBVIOUS
  <2>1. PICK s \in T : \A t \in T : t \subseteq s => t = s
    <3> HIDE DEF T
    <3> QED BY <1>1, <2>0, MinimalSubset
  <2>2. s \in SUBSET S /\ ~ Fits(s)
    BY <2>1
  <2>3. s # {}
    BY <2>2, SumEmpty, FS_EmptySet DEF Near
  <2> DEFINE c == Pick(s)
             rest == s \ {c}
  <2>4. c \in s /\ IsFiniteSet(s) /\ IsFiniteSet(rest) /\ rest \in SUBSET S
    BY <2>2, <2>3, PickIn, FS_Subset
  <2>5. Fits(rest)
    BY <2>1, <2>4
  <2>6. SumOver(A, s) = A[c] + SumOver(A, rest) /\ SumOver(B, s) = B[c] + SumOver(B, rest)
    BY <2>3, <2>4, SumPick
  <2>7. /\ A[c] \in Nat /\ B[c] \in Nat /\ Near(A[c], B[c], d, 1)
        /\ SumOver(A, rest) \in Nat /\ SumOver(B, rest) \in Nat
    BY <2>2, <2>4, SumNat
  <2>8. Cardinality(s) = Cardinality(rest) + 1 /\ Cardinality(rest) \in Nat
    <3>1. Cardinality(rest) = Cardinality(s) - 1 /\ Cardinality(s) \in Nat
      BY <2>4, FS_RemoveElement, FS_CardinalityType
    <3> QED BY <3>1, <2>4, FS_CardinalityType
  <2>9. Fits(s)
    <3>1. ASSUME NEW a \in Nat, NEW b \in Nat, NEW x \in Nat, NEW y \in Nat, NEW k \in Nat,
                 Near(a, b, d, 1), Near(x, y, d, k)
          PROVE  Near(a + x, b + y, d, k + 1)
      <4>1. (a + x) * d = a * d + x * d /\ (k + 1) * d = k * d + d
        OBVIOUS
      <4> QED BY <3>1, <4>1 DEF Near
    <3> HIDE DEF c, rest
    <3> QED BY <2>5, <2>6, <2>7, <2>8, <3>1, ZenonT(30)
  <2> QED BY <2>2, <2>9
<1> QED BY <1>1, FS_CardinalityType

\* A sum written with an expression for its terms.
LEMMA MinutesSumIs ==
    ASSUME NEW S, IsFiniteSet(S), NEW rows
    PROVE  MapThenSumSet(LAMBDA r : rows[r].minutes, S) = SumOver([r \in S |-> rows[r].minutes], S)
<1> DEFINE A == [r \in S |-> rows[r].minutes]
           Fits(f) == f = [s \in SUBSET S |-> IF s = {} THEN 0
                                              ELSE rows[Pick(s)].minutes + f[s \ {Pick(s)}]]
           iter == CHOOSE f : Fits(f)
<1>1. MapThenSumSet(LAMBDA r : rows[r].minutes, S) = iter[S]
  BY DEF MapThenSumSet, MapThenFoldSet, Pick
<1>2. \A s \in SUBSET S : s # {} => A[Pick(s)] = rows[Pick(s)].minutes
  BY PickIn
<1> HIDE DEF A
<1>3. ASSUME NEW f PROVE Fits(f) <=> Iterates(A, S, f)
  BY <1>2 DEF Iterates
<1>4. Fits(Iterated(A, S))
  BY <1>3, IterationExists
<1>5. Fits(iter)
  BY <1>4
<1> HIDE DEF iter, Fits
<1>6. iter = Iterated(A, S)
  BY <1>3, <1>5, IterationExists, IterationIsUnique
<1> QED BY <1>1, <1>6 DEF SumOver, A

LEMMA LateSumIs ==
    ASSUME NEW S, IsFiniteSet(S), NEW dates
    PROVE  MapThenSumSet(LAMBDA d : dates[d].late, S) = SumOver([d \in S |-> dates[d].late], S)
<1> DEFINE A == [d \in S |-> dates[d].late]
           Fits(f) == f = [s \in SUBSET S |-> IF s = {} THEN 0
                                              ELSE dates[Pick(s)].late + f[s \ {Pick(s)}]]
           iter == CHOOSE f : Fits(f)
<1>1. MapThenSumSet(LAMBDA d : dates[d].late, S) = iter[S]
  BY DEF MapThenSumSet, MapThenFoldSet, Pick
<1>2. \A s \in SUBSET S : s # {} => A[Pick(s)] = dates[Pick(s)].late
  BY PickIn
<1> HIDE DEF A
<1>3. ASSUME NEW f PROVE Fits(f) <=> Iterates(A, S, f)
  BY <1>2 DEF Iterates
<1>4. Fits(Iterated(A, S))
  BY <1>3, IterationExists
<1>5. Fits(iter)
  BY <1>4
<1> HIDE DEF iter, Fits
<1>6. iter = Iterated(A, S)
  BY <1>3, <1>5, IterationExists, IterationIsUnique
<1> QED BY <1>1, <1>6 DEF SumOver, A

LEMMA OvertimeSumIs ==
    ASSUME NEW S, IsFiniteSet(S), NEW wage, NEW m
    PROVE  MapThenSumSet(LAMBDA r : OvertimePay(wage, m[r]), S) = SumOver([r \in S |-> OvertimePay(wage, m[r])], S)
<1> DEFINE A == [r \in S |-> OvertimePay(wage, m[r])]
           Fits(f) == f = [s \in SUBSET S |-> IF s = {} THEN 0
                                              ELSE OvertimePay(wage, m[Pick(s)]) + f[s \ {Pick(s)}]]
           iter == CHOOSE f : Fits(f)
<1>1. MapThenSumSet(LAMBDA r : OvertimePay(wage, m[r]), S) = iter[S]
  BY DEF MapThenSumSet, MapThenFoldSet, Pick
<1>2. \A s \in SUBSET S : s # {} => A[Pick(s)] = OvertimePay(wage, m[Pick(s)])
  BY PickIn
<1> HIDE DEF A
<1>3. ASSUME NEW f PROVE Fits(f) <=> Iterates(A, S, f)
  BY <1>2 DEF Iterates
<1>4. Fits(Iterated(A, S))
  BY <1>3, IterationExists
<1>5. Fits(iter)
  BY <1>4
<1> HIDE DEF iter, Fits
<1>6. iter = Iterated(A, S)
  BY <1>3, <1>5, IterationExists, IterationIsUnique
<1> QED BY <1>1, <1>6 DEF SumOver, A

LEMMA SliceSumIs ==
    ASSUME NEW S, IsFiniteSet(S), NEW income
    PROVE  MapThenSumSet(LAMBDA i : SliceTax(income, i), S) = SumOver([i \in S |-> SliceTax(income, i)], S)
<1> DEFINE A == [i \in S |-> SliceTax(income, i)]
           Fits(f) == f = [s \in SUBSET S |-> IF s = {} THEN 0
                                              ELSE SliceTax(income, Pick(s)) + f[s \ {Pick(s)}]]
           iter == CHOOSE f : Fits(f)
<1>1. MapThenSumSet(LAMBDA i : SliceTax(income, i), S) = iter[S]
  BY DEF MapThenSumSet, MapThenFoldSet, Pick
<1>2. \A s \in SUBSET S : s # {} => A[Pick(s)] = SliceTax(income, Pick(s))
  BY PickIn
<1> HIDE DEF A
<1>3. ASSUME NEW f PROVE Fits(f) <=> Iterates(A, S, f)
  BY <1>2 DEF Iterates
<1>4. Fits(Iterated(A, S))
  BY <1>3, IterationExists
<1>5. Fits(iter)
  BY <1>4
<1> HIDE DEF iter, Fits
<1>6. iter = Iterated(A, S)
  BY <1>3, <1>5, IterationExists, IterationIsUnique
<1> QED BY <1>1, <1>6 DEF SumOver, A

\* What a band adds to the tax in MarginalTax.
Rise(income, i) ==
    (TaxBands[i].rate - (IF i = 1 THEN 0 ELSE TaxBands[i - 1].rate)) * Greatest(0, income - Lower(i))

LEMMA RiseSumIs ==
    ASSUME NEW S, IsFiniteSet(S), NEW income
    PROVE  MapThenSumSet(LAMBDA i : Rise(income, i), S) = SumOver([i \in S |-> Rise(income, i)], S)
<1> DEFINE A == [i \in S |-> Rise(income, i)]
           Fits(f) == f = [s \in SUBSET S |-> IF s = {} THEN 0
                                              ELSE Rise(income, Pick(s)) + f[s \ {Pick(s)}]]
           iter == CHOOSE f : Fits(f)
<1>1. MapThenSumSet(LAMBDA i : Rise(income, i), S) = iter[S]
  BY DEF MapThenSumSet, MapThenFoldSet, Pick
<1>2. \A s \in SUBSET S : s # {} => A[Pick(s)] = Rise(income, Pick(s))
  BY PickIn
<1> HIDE DEF A
<1>3. ASSUME NEW f PROVE Fits(f) <=> Iterates(A, S, f)
  BY <1>2 DEF Iterates
<1>4. Fits(Iterated(A, S))
  BY <1>3, IterationExists
<1>5. Fits(iter)
  BY <1>4
<1> HIDE DEF iter, Fits
<1>6. iter = Iterated(A, S)
  BY <1>3, <1>5, IterationExists, IterationIsUnique
<1> QED BY <1>1, <1>6 DEF SumOver, A

-----------------------------------------------------------------------------
(* Rounding.                                                               *)

LEMMA RoundNear ==
    ASSUME NEW n \in Nat, NEW d \in Nat, d > 0
    PROVE  /\ Round(n, d) \in Nat
           /\ 2 * (Round(n, d) * d - n) <= d
           /\ 2 * (n - Round(n, d) * d) <= d
<1> DEFINE q == (2 * n + d) \div (2 * d)
           m == 2 * d
           s == 2 * n + d
<1>1. m \in Nat /\ m > 0 /\ s \in Nat
  OBVIOUS
<1>2. q = s \div m
  OBVIOUS
<1>3. q \in Int /\ m * q <= s /\ s < m * (q + 1)
  <2> HIDE DEF m, s
  <2> QED BY <1>1, <1>2 
<1> QED BY <1>3 DEF Round


LEMMA RoundedOnce ==
    ASSUME NEW n \in Nat, NEW d \in Nat, d > 0
    PROVE  Near(Round(n, d), n, d, 1)
BY RoundNear DEF Near

LEMMA WageFraction ==
    ASSUME NEW w \in WageRow
    PROVE  DayWage(w).num \in Nat /\ DayWage(w).den \in {1, 30} /\ BasePay(w) \in Nat
BY DEF WageRow, DayWage, BasePay

LEMMA OvertimeNear ==
    ASSUME NEW w \in WageRow, NEW m \in Nat
    PROVE  /\ OvertimePay(w, m) \in Nat
           /\ Near(OvertimePay(w, m), DayWage(w).num * m, 320 * DayWage(w).den, 1)
<1>1. DayWage(w).num * m \in Nat /\ DayWage(w).den * 320 \in Nat /\ DayWage(w).den * 320 > 0
      /\ 320 * DayWage(w).den = DayWage(w).den * 320
  BY WageFraction
<1> DEFINE n == DayWage(w).num * m
           d == DayWage(w).den * 320
<1> HIDE DEF n, d
<1>2. Round(n, d) \in Nat /\ Near(Round(n, d), n, d, 1)
  <2>1. n \in Nat /\ d \in Nat /\ d > 0
    BY <1>1 DEF n, d
  <2> QED BY <2>1, RoundNear, RoundedOnce
<1> QED BY <1>1, <1>2 DEF OvertimePay, n, d

LEMMA LateNear ==
    ASSUME NEW w \in WageRow, NEW pay \in PayRates, NEW m \in Nat
    PROVE  /\ LatePay(w, pay, m) \in Nat
           /\ IF pay.perMinute > 0 THEN LatePay(w, pay, m) = m * pay.perMinute
              ELSE Near(LatePay(w, pay, m), DayWage(w).num * m, 480 * DayWage(w).den, 1)
           /\ m = 0 => LatePay(w, pay, m) = 0
<1>1. DayWage(w).num * m \in Nat /\ DayWage(w).den * 480 \in Nat /\ DayWage(w).den * 480 > 0
      /\ 480 * DayWage(w).den = DayWage(w).den * 480
  BY WageFraction
<1>2. pay.perMinute \in Nat /\ pay.perMinute * m \in Nat /\ pay.perMinute * m = m * pay.perMinute
  BY DEF PayRates
<1>3. m = 0 => pay.perMinute * m = 0 /\ DayWage(w).num * m = 0
  BY <1>2, WageFraction
<1>4. ASSUME NEW d \in Nat, d > 0 PROVE Round(0, d) = 0
  <2>1. Round(0, d) \in Nat /\ 2 * (Round(0, d) * d) <= d
    BY <1>4, RoundNear
  <2>2. Round(0, d) > 0 => Round(0, d) * d >= d
    BY <1>4, <2>1
  <2> QED BY <1>4, <2>1, <2>2
<1> DEFINE n == DayWage(w).num * m
           d == DayWage(w).den * 480
<1> HIDE DEF n, d
<1>5. Round(n, d) \in Nat /\ Near(Round(n, d), n, d, 1) /\ (m = 0 => Round(n, d) = 0)
  <2>1. n \in Nat /\ d \in Nat /\ d > 0 /\ (m = 0 => n = 0)
    BY <1>1, <1>3 DEF n, d
  <2> QED BY <1>4, <2>1, RoundNear, RoundedOnce
<1>6. LatePay(w, pay, m) = IF pay.perMinute > 0 THEN pay.perMinute * m ELSE Round(n, d)
  BY DEF LatePay, n, d
<1>7. Near(Round(n, d), DayWage(w).num * m, 480 * DayWage(w).den, 1)
  BY <1>1, <1>5 DEF n, d
<1> QED BY <1>2, <1>3, <1>5, <1>6, <1>7

LEMMA AbsenceNear ==
    ASSUME NEW w \in WageRow, NEW pay \in PayRates, NEW n \in Nat
    PROVE  /\ AbsencePay(w, pay, n) \in Nat
           /\ IF pay.perDay > 0 THEN AbsencePay(w, pay, n) = n * pay.perDay
              ELSE Near(AbsencePay(w, pay, n), DayWage(w).num * n, DayWage(w).den, 1)
           /\ n = 0 => AbsencePay(w, pay, n) = 0
<1>1. DayWage(w).num * n \in Nat /\ DayWage(w).den \in Nat /\ DayWage(w).den > 0
  BY WageFraction
<1>2. pay.perDay \in Nat /\ pay.perDay * n \in Nat /\ pay.perDay * n = n * pay.perDay
  BY DEF PayRates
<1>3. n = 0 => pay.perDay * n = 0 /\ DayWage(w).num * n = 0
  BY <1>2, WageFraction
<1>4. ASSUME NEW d \in Nat, d > 0 PROVE Round(0, d) = 0
  <2>1. Round(0, d) \in Nat /\ 2 * (Round(0, d) * d) <= d
    BY <1>4, RoundNear
  <2>2. Round(0, d) > 0 => Round(0, d) * d >= d
    BY <1>4, <2>1
  <2> QED BY <1>4, <2>1, <2>2
<1> QED BY <1>1, <1>2, <1>3, <1>4, RoundNear, RoundedOnce DEF AbsencePay

-----------------------------------------------------------------------------
(* Tax and social security.                                                *)

LEMMA InitialSegment ==
    ASSUME NEW n \in Nat
    PROVE  IsFiniteSet(1 .. n)
<1>1. 1 \in Int /\ n \in Int
  OBVIOUS
<1> QED BY <1>1, FS_Interval

LEMMA EightBands == DOMAIN TaxBands = 1 .. 8 /\ IsFiniteSet(1 .. 8)
<1>1. DOMAIN TaxBands = 1 .. 8
  BY SMT DEF TaxBands
<1> QED BY <1>1, InitialSegment

LEMMA Bands ==
    /\ <<TaxBands[1].rate, TaxBands[2].rate, TaxBands[3].rate, TaxBands[4].rate>> = <<0, 5, 10, 15>>
    /\ <<TaxBands[5].rate, TaxBands[6].rate, TaxBands[7].rate, TaxBands[8].rate>> = <<20, 25, 30, 35>>
    /\ TaxBands[1].upTo = 15000000 /\ TaxBands[2].upTo = 30000000 /\ TaxBands[3].upTo = 50000000
    /\ TaxBands[4].upTo = 75000000 /\ TaxBands[5].upTo = 100000000 /\ TaxBands[6].upTo = 200000000
    /\ TaxBands[7].upTo = 500000000 /\ TaxBands[8].upTo = Unlimited
BY SMT DEF TaxBands, Band, Baht

\* A sum of eight terms, written out.
LEMMA SumOfEight ==
    ASSUME NEW A, \A i \in 1 .. 8 : A[i] \in Nat
    PROVE  /\ SumOver(A, 1 .. 8) = A[1] + A[2] + A[3] + A[4] + A[5] + A[6] + A[7] + A[8]
           /\ IsFiniteSet(1 .. 8)
<1>1. IsFiniteSet(1 .. 8)
  BY EightBands
<1>2. ASSUME NEW n \in 1 .. 8
      PROVE  SumOver(A, 1 .. n) = A[n] + SumOver(A, 1 .. (n - 1)) /\ SumOver(A, 1 .. (n - 1)) \in Nat
  <2>1. n \in Nat /\ n - 1 \in Nat /\ n \in 1 .. n /\ (1 .. n) \ {n} = 1 .. (n - 1)
    OBVIOUS
  <2>2. IsFiniteSet(1 .. n) /\ IsFiniteSet(1 .. (n - 1))
    BY <2>1, InitialSegment
  <2>3. \A i \in 1 .. n : A[i] \in Nat
    OBVIOUS
  <2>4. \A i \in 1 .. (n - 1) : A[i] \in Nat
    OBVIOUS
  <2>5. SumOver(A, 1 .. n) = A[n] + SumOver(A, (1 .. n) \ {n})
    BY <2>1, <2>2, <2>3, SumRemove
  <2>6. SumOver(A, 1 .. (n - 1)) \in Nat
    BY <2>2, <2>4, SumNat
  <2> QED BY <2>1, <2>5, <2>6
<1>3. SumOver(A, 1 .. 0) = 0
  <2>1. 1 .. 0 = {}
    OBVIOUS
  <2> QED BY <2>1, SumEmpty
<1>4. /\ SumOver(A, 1 .. 8) = A[8] + SumOver(A, 1 .. 7) /\ SumOver(A, 1 .. 7) = A[7] + SumOver(A, 1 .. 6)
      /\ SumOver(A, 1 .. 6) = A[6] + SumOver(A, 1 .. 5) /\ SumOver(A, 1 .. 5) = A[5] + SumOver(A, 1 .. 4)
      /\ SumOver(A, 1 .. 4) = A[4] + SumOver(A, 1 .. 3) /\ SumOver(A, 1 .. 3) = A[3] + SumOver(A, 1 .. 2)
      /\ SumOver(A, 1 .. 2) = A[2] + SumOver(A, 1 .. 1) /\ SumOver(A, 1 .. 1) = A[1] + SumOver(A, 1 .. 0)
  <2>1. /\ 8 - 1 = 7 /\ 7 - 1 = 6 /\ 6 - 1 = 5 /\ 5 - 1 = 4 /\ 4 - 1 = 3 /\ 3 - 1 = 2
        /\ 2 - 1 = 1 /\ 1 - 1 = 0
        /\ 1 \in 1 .. 8 /\ 2 \in 1 .. 8 /\ 3 \in 1 .. 8 /\ 4 \in 1 .. 8 /\ 5 \in 1 .. 8 /\ 6 \in 1 .. 8
        /\ 7 \in 1 .. 8 /\ 8 \in 1 .. 8
    OBVIOUS
  <2> QED BY <1>2, <2>1
<1>5. /\ A[1] \in Nat /\ A[2] \in Nat /\ A[3] \in Nat /\ A[4] \in Nat /\ A[5] \in Nat /\ A[6] \in Nat
      /\ A[7] \in Nat /\ A[8] \in Nat
  OBVIOUS
<1> QED BY <1>1, <1>3, <1>4, <1>5

Over(x, l) == Greatest(0, x - l)

LEMMA LowerEnds ==
    /\ Lower(1) = 0 /\ Lower(2) = 15000000 /\ Lower(3) = 30000000 /\ Lower(4) = 50000000
    /\ Lower(5) = 75000000 /\ Lower(6) = 100000000 /\ Lower(7) = 200000000 /\ Lower(8) = 500000000
BY SMT, Bands DEF Lower

LEMMA RiseSumsUp ==
    ASSUME NEW x
    PROVE  MarginalTax(x) = SumOver([i \in 1 .. 8 |-> Rise(x, i)], 1 .. 8)
<1>1. MapThenSumSet(LAMBDA i : Rise(x, i), 1 .. 8) = SumOver([i \in 1 .. 8 |-> Rise(x, i)], 1 .. 8)
  BY RiseSumIs, EightBands
<1>2. MarginalTax(x) = MapThenSumSet(LAMBDA i : Rise(x, i), 1 .. 8)
  BY EightBands DEF MarginalTax, Rise
<1> QED BY <1>1, <1>2

\* The marginal tax, written out: every band adds five percent of what lies above it.
LEMMA MarginalTaxIs ==
    ASSUME NEW x \in Nat
    PROVE  MarginalTax(x) = 5 * (  Over(x, 15000000) + Over(x, 30000000) + Over(x, 50000000)
                                 + Over(x, 75000000) + Over(x, 100000000) + Over(x, 200000000)
                                 + Over(x, 500000000))
<1> DEFINE B == [i \in 1 .. 8 |-> Rise(x, i)]
<1>1. /\ B[1] = 0
      /\ B[2] = 5 * Over(x, 15000000) /\ B[3] = 5 * Over(x, 30000000) /\ B[4] = 5 * Over(x, 50000000)
      /\ B[5] = 5 * Over(x, 75000000) /\ B[6] = 5 * Over(x, 100000000) /\ B[7] = 5 * Over(x, 200000000)
      /\ B[8] = 5 * Over(x, 500000000)
  BY SMT, Bands, LowerEnds DEF Rise, Over, Greatest
<1>2. \A i \in 1 .. 8 : B[i] \in Nat
  <2>1. \A i \in 1 .. 8 : i \in {1, 2, 3, 4, 5, 6, 7, 8}
    OBVIOUS
  <2>2. \A n \in Int : Greatest(0, n) \in Nat
    BY DEF Greatest
  <2> HIDE DEF B
  <2> QED BY SMT, <1>1, <2>1, <2>2 DEF Over
<1>3. MarginalTax(x) = SumOver(B, 1 .. 8)
  BY RiseSumsUp
<1> HIDE DEF B
<1>4. SumOver(B, 1 .. 8) = B[1] + B[2] + B[3] + B[4] + B[5] + B[6] + B[7] + B[8]
  BY <1>2, SumOfEight
<1> QED BY SMT, <1>1, <1>3, <1>4 DEF Over, Greatest

\* The tax of a year, band by band, is the marginal one.
LEMMA BandsAreMarginal ==
    ASSUME NEW x \in Nat
    PROVE  SumOver([i \in 1 .. 8 |-> SliceTax(x, i)], 1 .. 8) = MarginalTax(x)
<1> DEFINE A == [i \in 1 .. 8 |-> SliceTax(x, i)]
<1>1. /\ A[1] = 0
      /\ A[2] = 5 * Greatest(0, Least(x, 30000000) - 15000000)
      /\ A[3] = 10 * Greatest(0, Least(x, 50000000) - 30000000)
      /\ A[4] = 15 * Greatest(0, Least(x, 75000000) - 50000000)
      /\ A[5] = 20 * Greatest(0, Least(x, 100000000) - 75000000)
      /\ A[6] = 25 * Greatest(0, Least(x, 200000000) - 100000000)
      /\ A[7] = 30 * Greatest(0, Least(x, 500000000) - 200000000)
      /\ A[8] = 35 * Greatest(0, x - 500000000)
  BY SMT, Bands, LowerEnds DEF SliceTax, UpTo, Unlimited, Least, Greatest
<1>2. \A i \in 1 .. 8 : A[i] \in Nat
  <2>1. \A i \in 1 .. 8 : i \in {1, 2, 3, 4, 5, 6, 7, 8}
    OBVIOUS
  <2>2. \A n \in Int : Greatest(0, n) \in Nat
    BY DEF Greatest
  <2>3. \A l \in Nat : Least(x, l) \in Nat
    BY DEF Least
  <2> HIDE DEF A
  <2> QED BY SMT, <1>1, <2>1, <2>2, <2>3
<1> HIDE DEF A
<1>3. SumOver(A, 1 .. 8) = A[1] + A[2] + A[3] + A[4] + A[5] + A[6] + A[7] + A[8]
  BY <1>2, SumOfEight
<1>4. MarginalTax(x) = 5 * (  Over(x, 15000000) + Over(x, 30000000) + Over(x, 50000000)
                            + Over(x, 75000000) + Over(x, 100000000) + Over(x, 200000000)
                            + Over(x, 500000000))
  BY SMT, MarginalTaxIs
<1>5. SumOver(A, 1 .. 8) = MarginalTax(x)
  BY SMT, <1>1, <1>3, <1>4 DEF Over, Greatest, Least
<1> QED BY SMT, <1>5 DEF A

LEMMA MarginalTaxType ==
    ASSUME NEW x \in Nat
    PROVE  MarginalTax(x) \in Nat
<1>1. \A i \in 1 .. 8 : [k \in 1 .. 8 |-> Rise(x, k)][i] \in Nat
  <2>1. \A i \in 1 .. 8 : i \in {1, 2, 3, 4, 5, 6, 7, 8}
    OBVIOUS
  <2>2. \A n \in Int : Greatest(0, n) \in Nat
    BY DEF Greatest
  <2>3. \A i \in 1 .. 8 : Rise(x, i) \in Nat
    BY SMT, <2>1, <2>2, Bands, LowerEnds DEF Rise
  <2> QED BY <2>3
<1>2. SumOver([i \in 1 .. 8 |-> Rise(x, i)], 1 .. 8) \in Nat
  BY <1>1, EightBands, SumNat
<1> QED BY <1>2, RiseSumsUp

LEMMA AnnualTaxIs ==
    ASSUME NEW x \in Nat
    PROVE  AnnualTax(x) = Round(MarginalTax(x), 100)
<1>1. MapThenSumSet(LAMBDA i : SliceTax(x, i), 1 .. 8) = SumOver([i \in 1 .. 8 |-> SliceTax(x, i)], 1 .. 8)
  BY SliceSumIs, EightBands
<1>2. SumOver([i \in 1 .. 8 |-> SliceTax(x, i)], 1 .. 8) = MarginalTax(x)
  BY SMT, BandsAreMarginal
<1> QED BY <1>1, <1>2, EightBands DEF AnnualTax

LEMMA TaxableAnnualType ==
    ASSUME NEW x \in Nat, NEW tax \in TaxRates
    PROVE  TaxableAnnual(x, tax) \in Nat
<1> DEFINE half == Round(12 * x, 2)
<1>1. half \in Nat /\ 12 * x \in Nat
  BY RoundNear
<1>2. tax.allowance \in Nat
  BY DEF TaxRates
<1> HIDE DEF half
<1> QED BY SMT, <1>1, <1>2 DEF TaxableAnnual, Greatest, Least, Baht, half

\* What is withheld is what the year owes, by twelve, rounded twice; or the flat
\* rate, rounded once.
LEMMA TaxNear ==
    ASSUME NEW x \in Nat, NEW tax \in TaxRates
    PROVE  Tax(x, tax) \in Nat /\ IsTax(Tax(x, tax), x, tax)
<1>1. tax.on \in BOOLEAN /\ tax.method \in {"FLAT", "PROGRESSIVE"} /\ tax.rate \in Nat
  BY DEF TaxRates
<1>2. CASE ~ tax.on
  BY <1>2 DEF Tax, IsTax
<1>3. CASE tax.on /\ tax.method = "FLAT"
  <2>1. x * tax.rate \in Nat
    BY <1>1
  <2>2. Round(x * tax.rate, 100) \in Nat /\ Near(Round(x * tax.rate, 100), x * tax.rate, 100, 1)
    BY <2>1, RoundNear, RoundedOnce
  <2> QED BY <1>3, <2>2 DEF Tax, IsTax
<1>4. CASE tax.on /\ tax.method = "PROGRESSIVE"
  <2> DEFINE y == TaxableAnnual(x, tax)
             m == MarginalTax(y)
             a == Round(m, 100)
             t == Round(a, 12)
  <2>1. y \in Nat
    BY TaxableAnnualType
  <2>2. m \in Nat
    BY <2>1, MarginalTaxType
  <2>3. AnnualTax(y) = a
    BY <2>1, AnnualTaxIs
  <2> HIDE DEF y, m
  <2>4. a \in Nat /\ 2 * (a * 100 - m) <= 100 /\ 2 * (m - a * 100) <= 100
    <3>1. 100 \in Nat /\ 100 > 0
      OBVIOUS
    <3> QED BY ONLY <2>2, <3>1, RoundNear DEF a
  <2> HIDE DEF a
  <2>5. t \in Nat /\ 2 * (t * 12 - a) <= 12 /\ 2 * (a - t * 12) <= 12
    <3>1. 12 \in Nat /\ 12 > 0
      OBVIOUS
    <3> QED BY ONLY <2>4, <3>1, RoundNear DEF t
  <2> HIDE DEF t
  <2>6. Near(t, m, 1200, 2)
    BY <2>2, <2>4, <2>5 DEF Near
  <2>7. Tax(x, tax) = t
    BY <1>4, <2>3 DEF Tax, t, y
  <2> QED BY <1>4, <2>5, <2>6, <2>7 DEF IsTax, m, y
<1> QED BY <1>1, <1>2, <1>3, <1>4

LEMMA InsurableIsBase ==
    ASSUME NEW x \in Nat, NEW sso \in SsoRates, sso.min <= sso.max
    PROVE  /\ InsurableWage(x, sso) \in Nat
           /\ InsurableWage(x, sso) \in {0, x, sso.min, sso.max}
           /\ IsBase(InsurableWage(x, sso), x, sso)
<1>1. sso.min \in Nat /\ sso.max \in Nat
  BY DEF SsoRates
<1> QED BY <1>1 DEF InsurableWage, IsBase, Least, Greatest

LEMMA SocialSecurityNear ==
    ASSUME NEW x \in Nat, NEW sso \in SsoRates
    PROVE  /\ SocialSecurity(x, sso) \in Nat
           /\ sso.on => Near(SocialSecurity(x, sso),
                             Least(InsurableWage(x, sso) * sso.rate, 100 * sso.cap), 100, 1)
<1>1. sso.min \in Nat /\ sso.max \in Nat /\ sso.rate \in Nat /\ sso.cap \in Nat /\ sso.on \in BOOLEAN
  BY DEF SsoRates
<1>2. InsurableWage(x, sso) \in Nat
  BY <1>1 DEF InsurableWage, Least, Greatest
<1> DEFINE n == Least(InsurableWage(x, sso) * sso.rate, 100 * sso.cap)
<1>3. n \in Nat
  BY <1>1, <1>2 DEF Least
<1> HIDE DEF n
<1>4. Round(n, 100) \in Nat /\ Near(Round(n, 100), n, 100, 1)
  BY <1>3, RoundNear, RoundedOnce
<1>5. SocialSecurity(x, sso) = IF sso.on THEN Round(n, 100) ELSE 0
  BY DEF SocialSecurity, n
<1> QED BY <1>1, <1>4, <1>5 DEF n

-----------------------------------------------------------------------------
(* The lines of a payslip.                                                 *)

Code == Earnings \cup Deductions

LEMMA TaxableIs ==
    ASSUME NEW items \in [Code -> Nat]
    PROVE  Taxable(items) = items["BASE_PAY"] + items["OVERTIME"] /\ Taxable(items) \in Nat
<1>1. Earnings \ {"ADVANCE_PAYOUT"} = {"BASE_PAY", "OVERTIME"}
  BY DEF Earnings
<1>2. items["BASE_PAY"] \in Nat /\ items["OVERTIME"] \in Nat
  BY DEF Code, Earnings
<1> DEFINE T == {"BASE_PAY", "OVERTIME"}
<1>3. IsFiniteSet(T) /\ IsFiniteSet({"OVERTIME"}) /\ \A c \in T : items[c] \in Nat
  <2>1. IsFiniteSet({"OVERTIME"}) /\ T = {"OVERTIME"} \cup {"BASE_PAY"}
    BY FS_Singleton
  <2>2. IsFiniteSet(T)
    BY <2>1, FS_AddElement
  <2> QED BY <1>2, <2>1, <2>2
<1>4. T \ {"BASE_PAY"} = {"OVERTIME"} /\ {"OVERTIME"} \ {"OVERTIME"} = {}
  OBVIOUS
<1>5. SumOver(items, T) = items["BASE_PAY"] + SumOver(items, {"OVERTIME"})
  BY <1>3, <1>4, SumRemove
<1>6. SumOver(items, {"OVERTIME"}) = items["OVERTIME"] + SumOver(items, {})
  BY <1>3, <1>4, SumRemove
<1>7. Taxable(items) = SumOver(items, T)
  BY <1>1, SumOverIs DEF Taxable
<1> QED BY <1>2, <1>5, <1>6, <1>7, SumEmpty

LEMMA WithheldIs ==
    ASSUME NEW items \in [Code -> Nat], NEW s \in Settings
    PROVE  LET new == Withheld(items, s)
               x == items["BASE_PAY"] + items["OVERTIME"]
           IN /\ new \in [Code -> Nat]
              /\ \A c \in Code \ {"TAX", "SOCIAL_SECURITY"} : new[c] = items[c]
              /\ new["TAX"] = IF s.saved THEN Tax(x, s.tax) ELSE 0
              /\ new["SOCIAL_SECURITY"] = IF s.saved THEN SocialSecurity(x, s.sso) ELSE 0
<1> DEFINE x == items["BASE_PAY"] + items["OVERTIME"]
           t == IF s.saved THEN Tax(x, s.tax) ELSE 0
           u == IF s.saved THEN SocialSecurity(x, s.sso) ELSE 0
<1>1. x \in Nat /\ Taxable(items) = x
  BY TaxableIs
<1>2. s.saved => s.tax \in TaxRates /\ s.sso \in SsoRates
  BY DEF Settings
<1>3. t \in Nat /\ u \in Nat
  BY <1>1, <1>2, TaxNear, SocialSecurityNear
<1>4. Withheld(items, s) = [items EXCEPT !["TAX"] = t, !["SOCIAL_SECURITY"] = u]
  BY <1>1 DEF Withheld
<1> HIDE DEF t, u, x
<1>5. {"TAX", "SOCIAL_SECURITY"} \subseteq Code
  BY DEF Code, Deductions
<1>6. LET new == [items EXCEPT !["TAX"] = t, !["SOCIAL_SECURITY"] = u]
      IN /\ new \in [Code -> Nat] /\ \A c \in Code \ {"TAX", "SOCIAL_SECURITY"} : new[c] = items[c]
         /\ new["TAX"] = t /\ new["SOCIAL_SECURITY"] = u
  BY <1>3, <1>5
<1> QED BY <1>4, <1>6 DEF t, u, x

EffectsType(e) ==
    /\ IsFiniteSet(DOMAIN e.overtime) /\ \A r \in DOMAIN e.overtime : e.overtime[r] \in Nat
    /\ e.late \in Nat /\ e.absent \in Nat

OvertimeTotal(w, m) == SumOver([r \in DOMAIN m |-> OvertimePay(w, m[r])], DOMAIN m)

LEMMA CalculateIs ==
    ASSUME NEW w \in WageRow, NEW s \in Settings, NEW e, EffectsType(e),
           NEW payout \in Nat, NEW collected \in Nat
    PROVE  LET it == Calculate(w, s, e, payout, collected)
               x == it["BASE_PAY"] + it["OVERTIME"]
           IN /\ it \in [Code -> Nat]
              /\ it["BASE_PAY"] = BasePay(w) /\ it["OVERTIME"] = OvertimeTotal(w, e.overtime)
              /\ it["LATE"] = LatePay(w, s.pay, e.late) /\ it["ABSENCE"] = AbsencePay(w, s.pay, e.absent)
              /\ it["ADVANCE_PAYOUT"] = payout /\ it["ADVANCE"] = collected
              /\ it["TAX"] = IF s.saved THEN Tax(x, s.tax) ELSE 0
              /\ it["SOCIAL_SECURITY"] = IF s.saved THEN SocialSecurity(x, s.sso) ELSE 0
<1> DEFINE m == e.overtime
           o == MapThenSumSet(LAMBDA r : OvertimePay(w, m[r]), DOMAIN m)
           l == LatePay(w, s.pay, e.late)
           a == AbsencePay(w, s.pay, e.absent)
           items == [BASE_PAY |-> BasePay(w), OVERTIME |-> o, ADVANCE_PAYOUT |-> payout, LATE |-> l,
                     ABSENCE |-> a, ADVANCE |-> collected, TAX |-> 0, SOCIAL_SECURITY |-> 0]
<1>1. o = OvertimeTotal(w, m)
  BY OvertimeSumIs DEF EffectsType, OvertimeTotal
<1>2. o \in Nat
  <2>1. \A r \in DOMAIN m : [q \in DOMAIN m |-> OvertimePay(w, m[q])][r] \in Nat
    BY OvertimeNear DEF EffectsType
  <2>2. SumOver([r \in DOMAIN m |-> OvertimePay(w, m[r])], DOMAIN m) \in Nat
    BY <2>1, SumNat DEF EffectsType
  <2> QED BY <1>1, <2>2 DEF OvertimeTotal
<1>3. s.pay \in PayRates /\ BasePay(w) \in Nat
  BY WageFraction DEF Settings
<1>4. l \in Nat /\ a \in Nat
  BY <1>3, LateNear, AbsenceNear DEF EffectsType
<1>5. Calculate(w, s, e, payout, collected) = Withheld(items, s)
  BY DEF Calculate
<1> HIDE DEF o, l, a, m
<1>6. /\ items \in [Code -> Nat]
      /\ items["BASE_PAY"] = BasePay(w) /\ items["OVERTIME"] = o /\ items["ADVANCE_PAYOUT"] = payout
      /\ items["LATE"] = l /\ items["ABSENCE"] = a /\ items["ADVANCE"] = collected
  BY <1>2, <1>3, <1>4 DEF Code, Earnings, Deductions
<1> HIDE DEF items
<1> DEFINE it == Withheld(items, s)
<1>7. /\ it \in [Code -> Nat] /\ \A c \in Code \ {"TAX", "SOCIAL_SECURITY"} : it[c] = items[c]
      /\ it["TAX"] = IF s.saved THEN Tax(items["BASE_PAY"] + items["OVERTIME"], s.tax) ELSE 0
      /\ it["SOCIAL_SECURITY"] = IF s.saved THEN SocialSecurity(items["BASE_PAY"] + items["OVERTIME"], s.sso)
                                 ELSE 0
  BY <1>6, WithheldIs
<1> HIDE DEF it
<1>8. {"BASE_PAY", "OVERTIME", "ADVANCE_PAYOUT", "LATE", "ABSENCE", "ADVANCE"}
        \subseteq Code \ {"TAX", "SOCIAL_SECURITY"}
  BY DEF Code, Earnings, Deductions
<1>9. /\ it["BASE_PAY"] = BasePay(w) /\ it["OVERTIME"] = o /\ it["ADVANCE_PAYOUT"] = payout
      /\ it["LATE"] = l /\ it["ABSENCE"] = a /\ it["ADVANCE"] = collected
  BY <1>6, <1>7, <1>8
<1> QED BY <1>1, <1>5, <1>6, <1>7, <1>9 DEF it, l, a, m

-----------------------------------------------------------------------------
(* Requests and lines have their types.                                    *)

\* A request has the fields it is made with.
Fields(e) == e \in [op : {e.op}, pc : {e.pc}, row : {e.row}, wage : {e.wage}, period : {e.period},
                    loaded : {e.loaded}, quiet : BOOLEAN]

Formed(r) == r = [q \in Proc |-> r[q]] /\ \A q \in Proc : Fields(r[q])

Data ==
    /\ wages \in Seq(WageRow) /\ overtime \in Seq(OvertimeRow)
    /\ days \in [Day -> [late : Nat, absent : BOOLEAN]]
    /\ settings \in Settings
    /\ lines \in [Period -> Line \cup {NoLine}]
    /\ fresh \subseteq Period /\ raced \in BOOLEAN /\ made \in [Kind -> Nat]

\* A wage request holds a row of the history, and begins after the one it closes;
\* a calculation holds what it has read.
Held(p) ==
    LET e == req[p]
    IN /\ e.op \in {"none", "wage", "calculate"} /\ (e.op = "none" => ~ e.quiet)
       /\ e.pc \in {"idle", "correct", "close", "create", "load", "write"}
       /\ e.op = "wage" =>
             /\ e.pc \in {"correct", "close", "create"}
             /\ e.wage \in WageRow /\ e.row \in 0 .. Len(wages) /\ ~ e.quiet
             /\ e.wage.from <= e.wage.to /\ (e.wage.current <=> e.wage.to = Forever)
             /\ e.pc \in {"correct", "close"} => e.row \in Rows
             /\ e.pc = "close" => wages[e.row].from < e.wage.from
       /\ e.op = "calculate" =>
             /\ e.period \in Period /\ e.pc \in {"load", "write"}
             /\ e.row # 0 => e.wage \in WageRow
             /\ e.pc = "load" => e.loaded \in Settings
             /\ e.pc = "write" => e.loaded.settings \in Settings /\ EffectsType(e.loaded.effects)

TypeInv == Data /\ Formed(req) /\ \A p \in Proc : Held(p)

-----------------------------------------------------------------------------
(* The history of wages.                                                   *)

Apart(new, rows) == \A i \in rows : ~ Overlap(wages[i], new)

Ordered ==
    /\ \A i \in Rows : wages[i].from <= wages[i].to /\ (wages[i].current <=> Open(i))
    /\ \A i, j \in Rows : i # j => ~ Overlap(wages[i], wages[j])

\* What a wage request found is so until it is done.
Found(p) ==
    LET e == req[p]
    IN e.op = "wage" =>
          /\ e.pc = "correct" => Open(e.row) /\ wages[e.row].from = e.wage.from /\ wages[e.row].to = e.wage.to
          /\ e.pc = "close" => Open(e.row) /\ Apart(e.wage, Rows \ {e.row})
          /\ e.pc = "create" => Apart(e.wage, Rows)

HistoryInv ==
    raced \/ /\ Ordered /\ \A p \in Proc : Found(p)
             /\ \A p, q \in Proc : req[p].op = "wage" /\ req[q].op = "wage" => p = q

-----------------------------------------------------------------------------
(* What each action does to the requests.                                  *)

Carries(e, f) ==
    /\ f.op = e.op /\ f.pc = e.pc /\ f.row = e.row /\ f.wage = e.wage /\ f.period = e.period
    /\ f.loaded = e.loaded /\ (f.quiet => e.quiet)

LEMMA ToldIs ==
    ASSUME NEW r, Formed(r)
    PROVE  Formed(Told(r)) /\ \A q \in Proc : Carries(r[q], Told(r)[q]) /\ ~ Told(r)[q].quiet
<1>1. ASSUME NEW e, Fields(e)
      PROVE  Fields([e EXCEPT !.quiet = FALSE]) /\ Carries(e, [e EXCEPT !.quiet = FALSE])
             /\ ~ [e EXCEPT !.quiet = FALSE].quiet
  BY <1>1 DEF Fields, Carries
<1>2. \A q \in Proc : Told(r)[q] = [r[q] EXCEPT !.quiet = FALSE]
  BY DEF Told
<1>3. Told(r) = [q \in Proc |-> Told(r)[q]]
  BY DEF Told
<1>4. ASSUME NEW q \in Proc
      PROVE  Fields(Told(r)[q]) /\ Carries(r[q], Told(r)[q]) /\ ~ Told(r)[q].quiet
  <2>1. Fields(r[q])
    BY DEF Formed
  <2> QED BY <1>1, <1>2, <2>1
<1> QED BY <1>3, <1>4 DEF Formed

LEMMA IdleFields == Fields(Idle) /\ Idle.op = "none" /\ Idle.pc = "idle" /\ Idle.quiet = FALSE
BY DEF Fields, Idle

\* A request of its own, the others as they were.
LEMMA PutIs ==
    ASSUME NEW p \in Proc, NEW e, Fields(e), Formed(req)
    PROVE  /\ Formed([req EXCEPT ![p] = e]) /\ [req EXCEPT ![p] = e][p] = e
           /\ \A q \in Proc \ {p} : [req EXCEPT ![p] = e][q] = req[q]
BY DEF Formed

Alone(p) == Formed(req') /\ \A q \in Proc \ {p} : Carries(req[q], req'[q])
Ended(p) == Alone(p) /\ req'[p].op = "none" /\ req'[p].pc = "idle" /\ ~ req'[p].quiet

LEMMA CarriesItself == \A e : Carries(e, e)
BY DEF Carries

LEMMA PutAlone ==
    ASSUME NEW p \in Proc, NEW e, Fields(e), Formed(req), req' = [req EXCEPT ![p] = e]
    PROVE  Alone(p) /\ req'[p] = e /\ \A q \in Proc \ {p} : req'[q] = req[q]
<1>1. Formed(req') /\ req'[p] = e /\ \A q \in Proc \ {p} : req'[q] = req[q]
  BY SMTT(30) DEF Formed
<1>2. ASSUME NEW q \in Proc \ {p} PROVE Carries(req[q], req'[q])
  BY <1>1, CarriesItself
<1> QED BY <1>1, <1>2 DEF Alone

LEMMA ReturnIs ==
    ASSUME Formed(req), NEW p \in Proc, req' = Return(p)
    PROVE  Ended(p) /\ \A q \in Proc : ~ req'[q].quiet
<1> DEFINE r == [req EXCEPT ![p] = Idle]
<1>1. Formed(r) /\ r[p] = Idle /\ \A q \in Proc \ {p} : r[q] = req[q]
  BY PutIs, IdleFields
<1>2. req' = Told(r)
  BY DEF Return
<1> HIDE DEF r
<1>3. Formed(Told(r)) /\ \A q \in Proc : Carries(r[q], Told(r)[q]) /\ ~ Told(r)[q].quiet
  BY <1>1, ToldIs
<1>4. req'[p].op = "none" /\ req'[p].pc = "idle"
  BY <1>1, <1>2, <1>3, IdleFields DEF Carries
<1> QED BY <1>1, <1>2, <1>3, <1>4 DEF Ended, Alone

LEMMA DropIs ==
    ASSUME Formed(req), NEW p \in Proc, req' = [req EXCEPT ![p] = Idle]
    PROVE  Ended(p) /\ \A q \in Proc \ {p} : req'[q] = req[q]
BY PutAlone, IdleFields DEF Ended

LEMMA StatementIs ==
    ASSUME Formed(req), req' = Told(req)
    PROVE  Formed(req') /\ \A q \in Proc : Carries(req[q], req'[q]) /\ ~ req'[q].quiet
BY ToldIs

\* What a wage request found when it began.
Begins(p, new, current) ==
    /\ req'[p].op = "wage" /\ req'[p].row = current /\ req'[p].wage = new /\ ~ req'[p].quiet
    /\ \/ req'[p].pc = "correct" /\ current # 0 /\ wages[current].from = new.from
          /\ wages[current].to = new.to
       \/ /\ \A i \in Rows \ {current} : ~ Overlap(wages[i], new)
          /\ \/ req'[p].pc = "create" /\ current = 0
             \/ req'[p].pc = "close" /\ current # 0 /\ Later(current, new)

LEMMA WageStartIs ==
    ASSUME Formed(req), NEW p \in Proc, NEW new, NEW current, NEW manage,
           WageStart(p, new, current, manage)
    PROVE  Alone(p) /\ Begins(p, new, current) /\ \A q \in Proc \ {p} : req'[q] = req[q]
<1> DEFINE e(pc) == [Idle EXCEPT !.op = "wage", !.pc = pc, !.row = current, !.wage = new]
<1>1. ASSUME NEW pc
      PROVE  Fields(e(pc)) /\ e(pc).op = "wage" /\ e(pc).pc = pc /\ e(pc).row = current
             /\ e(pc).wage = new /\ ~ e(pc).quiet
  BY DEF Idle, Fields
<1>2. PICK pc : /\ req' = [req EXCEPT ![p] = e(pc)]
                /\ \/ pc = "correct" /\ current # 0 /\ wages[current].from = new.from
                      /\ wages[current].to = new.to
                   \/ /\ \A i \in Rows \ {current} : ~ Overlap(wages[i], new)
                      /\ \/ pc = "create" /\ current = 0
                         \/ pc = "close" /\ current # 0 /\ Later(current, new)
  BY DEF WageStart
<1> HIDE DEF e
<1>3. Alone(p) /\ req'[p] = e(pc) /\ \A q \in Proc \ {p} : req'[q] = req[q]
  BY <1>1, <1>2, PutAlone
<1> QED BY <1>1, <1>2, <1>3 DEF Begins

LEMMA WageCloseIs ==
    ASSUME Formed(req), NEW p \in Proc, WageClose(p)
    PROVE  /\ Alone(p) /\ req'[p].op = "wage" /\ req'[p].pc = "create" /\ req'[p].row = req[p].row
           /\ req'[p].wage = req[p].wage /\ \A q \in Proc : ~ req'[q].quiet
<1> DEFINE e == [req[p] EXCEPT !.pc = "create"]
           r == [req EXCEPT ![p].pc = "create"]
<1>1. Fields(e) /\ e.op = req[p].op /\ e.pc = "create" /\ e.row = req[p].row /\ e.wage = req[p].wage
  BY DEF Formed, Fields
<1>2. r = [req EXCEPT ![p] = e]
  BY DEF Formed
<1> HIDE DEF e
<1>3. Formed(r) /\ r[p] = e /\ \A q \in Proc \ {p} : r[q] = req[q]
  BY <1>1, <1>2, PutIs
<1>4. req' = Told(r) /\ req[p].op = "wage"
  BY DEF WageClose, At
<1> HIDE DEF r
<1>5. Formed(Told(r)) /\ \A q \in Proc : Carries(r[q], Told(r)[q]) /\ ~ Told(r)[q].quiet
  BY <1>3, ToldIs
<1>6. Carries(e, req'[p])
  BY <1>3, <1>4, <1>5
<1> QED BY <1>1, <1>3, <1>4, <1>5, <1>6 DEF Alone, Carries

LEMMA CalculateStartIs ==
    ASSUME Formed(req), NEW p \in Proc, NEW per, NEW current, CalculateStart(p, per, current)
    PROVE  /\ Alone(p) /\ req'[p].op = "calculate" /\ req'[p].pc = "load" /\ req'[p].period = per
           /\ req'[p].row = current /\ (current # 0 => req'[p].wage = wages[current])
           /\ req'[p].loaded = settings /\ req'[p].quiet
           /\ \A q \in Proc \ {p} : req'[q] = req[q]
<1> DEFINE e == [Idle EXCEPT !.op = "calculate", !.pc = "load", !.period = per, !.quiet = TRUE,
                              !.row = current,
                              !.wage = IF current = 0 THEN 0 ELSE wages[current],
                              !.loaded = settings]
<1>1. /\ Fields(e) /\ e.op = "calculate" /\ e.pc = "load" /\ e.period = per /\ e.row = current
      /\ (current # 0 => e.wage = wages[current]) /\ e.loaded = settings /\ e.quiet
  BY DEF Idle, Fields
<1>2. req' = [req EXCEPT ![p] = e]
  BY DEF CalculateStart
<1> HIDE DEF e
<1> QED BY <1>1, <1>2, PutAlone

LEMMA CalculateLoadIs ==
    ASSUME Formed(req), NEW p \in Proc, CalculateLoad(p)
    PROVE  LET s == req[p].loaded
           IN /\ Alone(p) /\ req'[p].op = "calculate" /\ req'[p].pc = "write"
              /\ req'[p].row = req[p].row /\ req'[p].wage = req[p].wage
              /\ req'[p].period = req[p].period /\ req'[p].quiet = req[p].quiet
              /\ req'[p].loaded = [settings |-> s, effects |-> Effects(req[p].period, s.pay)]
              /\ \A q \in Proc \ {p} : req'[q] = req[q]
<1> DEFINE new == [settings |-> req[p].loaded, effects |-> Effects(req[p].period, req[p].loaded.pay)]
           e == [req[p] EXCEPT !.pc = "write", !.loaded = new]
<1>1. req' = [req EXCEPT ![p] = e] /\ req[p].op = "calculate"
  BY DEF CalculateLoad, Formed, At
<1> HIDE DEF new
<1>2. /\ Fields(e) /\ e.op = req[p].op /\ e.pc = "write" /\ e.row = req[p].row /\ e.wage = req[p].wage
      /\ e.period = req[p].period /\ e.loaded = new /\ e.quiet = req[p].quiet
  BY DEF Formed, Fields
<1> HIDE DEF e
<1> QED BY <1>1, <1>2, PutAlone DEF new

-----------------------------------------------------------------------------
(* Every step keeps the types.                                             *)

LEMMA Typed == TypeInv => TypeOK
<1>1. ASSUME TypeInv, NEW p \in Proc
      PROVE  /\ req[p].op \in {"none", "wage", "calculate"}
             /\ req[p].pc \in {"idle", "correct", "close", "create", "load", "write"}
             /\ req[p].op = "wage" => req[p].wage \in WageRow /\ req[p].row \in 0 .. Len(wages)
             /\ req[p].op = "calculate" => req[p].period \in Period
  BY <1>1 DEF TypeInv, Held
<1>2. ASSUME TypeInv
      PROVE  /\ wages \in Seq(WageRow) /\ overtime \in Seq(OvertimeRow)
             /\ days \in [Day -> [late : Nat, absent : BOOLEAN]] /\ settings \in Settings
             /\ fresh \subseteq Period /\ raced \in BOOLEAN /\ made \in [Kind -> Nat]
  BY <1>2 DEF TypeInv, Data
<1>3. ASSUME TypeInv, NEW per \in Period PROVE lines[per] = NoLine \/ lines[per] \in Line
  BY <1>3 DEF TypeInv, Data
<1> QED BY <1>1, <1>2, <1>3 DEF TypeOK

LEMMA InitTyped == Init => TypeInv
<1> SUFFICES ASSUME Init PROVE TypeInv
  OBVIOUS
<1>1. wages \in Seq(WageRow) /\ overtime \in Seq(OvertimeRow)
  BY HistoryAssumption DEF Init
<1>2. days \in [Day -> [late : Nat, absent : BOOLEAN]] /\ settings \in Settings
  BY PayAssumption DEF Init, Settings
<1>3. lines \in [Period -> Line \cup {NoLine}] /\ fresh \subseteq Period /\ raced \in BOOLEAN
      /\ made \in [Kind -> Nat]
  BY DEF Init
<1>4. Formed(req)
  BY IdleFields DEF Init, Formed
<1>5. \A p \in Proc : Held(p)
  BY DEF Init, Held, Idle
<1> QED BY <1>1, <1>2, <1>3, <1>4, <1>5 DEF TypeInv, Data

LEMMA CountedTyped ==
    ASSUME made \in [Kind -> Nat], NEW kind \in Kind, Counted(kind)
    PROVE  made' \in [Kind -> Nat]
<1>1. made' = [made EXCEPT ![kind] = @ + 1]
  BY Zenon DEF Counted
<1> QED BY <1>1

\* Rows are added at the end, and keep their start.
Grows == /\ wages' \in Seq(WageRow) /\ Len(wages) <= Len(wages')
         /\ \A i \in Rows : wages'[i].from = wages[i].from

LEMMA SameWagesGrow == ASSUME Data, UNCHANGED wages PROVE Grows
BY DEF Data, Grows

LEMMA HeldKept ==
    ASSUME TypeInv, NEW q \in Proc, Carries(req[q], req'[q]), Formed(req'), Grows
    PROVE  Held(q)'
<1>1. wages \in Seq(WageRow) /\ Held(q) /\ req'[q].quiet \in BOOLEAN
  BY DEF TypeInv, Data, Formed, Fields
<1>2. Len(wages) \in Nat /\ Len(wages') \in Nat /\ Len(wages) <= Len(wages')
      /\ Rows = 1 .. Len(wages) /\ Rows' = 1 .. Len(wages')
  <2>1. wages' \in Seq(WageRow) /\ Len(wages) <= Len(wages')
    BY DEF Grows
  <2> QED BY <1>1, <2>1 DEF Rows
<1>3. /\ \A i \in Rows : i \in Rows' /\ wages'[i].from = wages[i].from
      /\ \A i \in 0 .. Len(wages) : i \in 0 .. Len(wages')
  BY <1>2 DEF Grows
<1> DEFINE e == req[q]
           f == req'[q]
<1>4. /\ f.op = e.op /\ f.pc = e.pc /\ f.row = e.row /\ f.wage = e.wage /\ f.period = e.period
      /\ f.loaded = e.loaded /\ (f.quiet => e.quiet) /\ f.quiet \in BOOLEAN
  BY <1>1 DEF Carries
<1>5. f.op \in {"none", "wage", "calculate"} /\ (f.op = "none" => ~ f.quiet)
      /\ f.pc \in {"idle", "correct", "close", "create", "load", "write"}
  BY <1>1, <1>4 DEF Held
<1>6. ASSUME f.op = "wage"
      PROVE  /\ f.pc \in {"correct", "close", "create"}
             /\ f.wage \in WageRow /\ f.row \in 0 .. Len(wages') /\ ~ f.quiet
             /\ f.wage.from <= f.wage.to /\ (f.wage.current <=> f.wage.to = Forever)
             /\ f.pc \in {"correct", "close"} => f.row \in Rows'
             /\ f.pc = "close" => wages'[f.row].from < f.wage.from
  BY <1>1, <1>3, <1>4, <1>6 DEF Held
<1>7. ASSUME f.op = "calculate"
      PROVE  /\ f.period \in Period /\ f.pc \in {"load", "write"}
             /\ f.row # 0 => f.wage \in WageRow
             /\ f.pc = "load" => f.loaded \in Settings
             /\ f.pc = "write" => f.loaded.settings \in Settings /\ EffectsType(f.loaded.effects)
  BY <1>1, <1>4, <1>7 DEF Held
<1> QED BY <1>5, <1>6, <1>7 DEF Held

LEMMA EndedTyped ==
    ASSUME TypeInv, NEW p \in Proc, Ended(p), Grows, Data'
    PROVE  TypeInv'
<1>1. ASSUME NEW q \in Proc \ {p} PROVE Held(q)'
  BY HeldKept DEF Ended, Alone
<1>2. Held(p)'
  <2>1. Held(p)
    BY DEF TypeInv
  <2> QED BY <2>1 DEF Held, Ended
<1> QED BY <1>1, <1>2 DEF TypeInv, Ended, Alone

LEMMA NewWageIs ==
    ASSUME NEW w \in Wages, NEW from \in Day, NEW to \in Ends
    PROVE  LET new == NewWage(w, from, to)
           IN /\ new \in WageRow /\ new.from = from /\ new.to = to
              /\ (new.current <=> to = Forever)
BY PayAssumption DEF NewWage, WageRow

LEMMA WageStartTyped ==
    ASSUME TypeInv, NEW p \in Proc, NEW w \in Wages, NEW from \in Day, NEW to \in Ends,
           NEW current \in Rows \cup {0}, NEW manage, WageStart(p, NewWage(w, from, to), current, manage)
    PROVE  TypeInv'
<1> DEFINE new == NewWage(w, from, to)
<1>1. new \in WageRow /\ new.from = from /\ new.to = to /\ (new.current <=> to = Forever)
  BY NewWageIs
<1>2. new.from <= new.to /\ UNCHANGED <<inputs, lines, fresh>> /\ Counted("wage")
      /\ raced' = (raced \/ \E q \in Proc : req[q].op = "wage")
  BY Zenon DEF WageStart
<1>3. Alone(p) /\ Begins(p, new, current)
  BY WageStartIs DEF TypeInv
<1> HIDE DEF new
<1>4. made' \in [Kind -> Nat]
  BY <1>2, CountedTyped DEF TypeInv, Data, Kind
<1>5. Data'
  <2>1. Data /\ raced' \in BOOLEAN
    BY <1>2 DEF TypeInv, Data
  <2> QED BY <1>2, <1>4, <2>1 DEF Data, inputs
<1>6. UNCHANGED wages /\ Grows
  BY <1>2, SameWagesGrow DEF TypeInv, inputs
<1>7. ASSUME NEW q \in Proc \ {p} PROVE Held(q)'
  BY <1>3, <1>6, HeldKept DEF Alone
<1>8. Held(p)'
  <2>1. current \in 0 .. Len(wages) /\ Rows = 1 .. Len(wages) /\ (current # 0 => current \in Rows)
    BY DEF TypeInv, Data, Rows
  <2>2. wages' = wages /\ Rows' = Rows
    BY <1>6 DEF Rows
  <2>3. /\ req'[p].op = "wage" /\ req'[p].row = current /\ req'[p].wage = new /\ ~ req'[p].quiet
        /\ req'[p].pc \in {"correct", "close", "create"}
        /\ req'[p].pc = "correct" => current # 0
        /\ req'[p].pc = "close" => current # 0 /\ wages[current].from < new.from
    BY <1>3 DEF Begins, Later
  <2> QED BY <1>1, <1>2, <2>1, <2>2, <2>3 DEF Held
<1> QED BY <1>3, <1>5, <1>7, <1>8 DEF TypeInv, Alone

\* The rows after a statement of addCompensation.
CorrectedRows(p) ==
    /\ Len(wages') = Len(wages) /\ wages' \in Seq(WageRow)
    /\ LET i == req[p].row
       IN /\ \A j \in Rows \ {i} : wages'[j] = wages[j]
          /\ wages'[i].from = wages[i].from /\ wages'[i].to = wages[i].to
          /\ wages'[i].current = req[p].wage.current

LEMMA WageCorrectIs ==
    ASSUME TypeInv, NEW p \in Proc, WageCorrect(p)
    PROVE  CorrectedRows(p) /\ req[p].row \in Rows /\ req[p].op = "wage" /\ req[p].pc = "correct"
<1> DEFINE i == req[p].row
           new == req[p].wage
           row == [wages[i] EXCEPT !.type = new.type, !.amount = new.amount, !.current = new.current]
<1>1. req[p].op = "wage" /\ req[p].pc = "correct"
  BY DEF WageCorrect, At
<1>2. i \in Rows /\ new \in WageRow /\ wages \in Seq(WageRow) /\ wages[i] \in WageRow
  BY <1>1 DEF TypeInv, Held, Data, Rows
<1>3. wages' = [wages EXCEPT ![i] = row]
  BY <1>2 DEF WageCorrect, Rows
<1>4. row \in WageRow /\ row.from = wages[i].from /\ row.to = wages[i].to /\ row.current = new.current
  BY <1>2 DEF WageRow
<1> HIDE DEF i, new, row
<1>5. wages' \in Seq(WageRow) /\ Len(wages') = Len(wages) /\ wages'[i] = row
      /\ \A j \in Rows \ {i} : wages'[j] = wages[j]
  BY <1>2, <1>3, <1>4 DEF Rows
<1> QED BY <1>1, <1>2, <1>4, <1>5 DEF CorrectedRows, i, new

\* The day before a day of a wage is a day, if another wage begins before it.
LEMMA DayBefore ==
    ASSUME NEW a \in Day, NEW b \in Day, a < b
    PROVE  b - 1 \in Day /\ a <= b - 1
<1>1. a \in Int /\ b \in Int /\ a .. b \subseteq Day
  BY PayAssumption DEF Forever
<1> QED BY <1>1

ClosedRows(p) ==
    /\ Len(wages') = Len(wages) /\ wages' \in Seq(WageRow)
    /\ LET i == req[p].row
       IN /\ \A j \in Rows \ {i} : wages'[j] = wages[j]
          /\ wages'[i].from = wages[i].from /\ wages'[i].to = req[p].wage.from - 1
          /\ wages'[i].from <= wages'[i].to /\ wages'[i].to \in Day /\ wages'[i].current = FALSE

LEMMA WageCloseRows ==
    ASSUME TypeInv, NEW p \in Proc, WageClose(p)
    PROVE  ClosedRows(p) /\ req[p].row \in Rows /\ req[p].op = "wage" /\ req[p].pc = "close"
<1> DEFINE i == req[p].row
           new == req[p].wage
           row == [wages[i] EXCEPT !.to = new.from - 1, !.current = FALSE]
<1>1. req[p].op = "wage" /\ req[p].pc = "close"
  BY DEF WageClose, At
<1>2. i \in Rows /\ new \in WageRow /\ wages \in Seq(WageRow) /\ wages[i] \in WageRow
      /\ wages[i].from < new.from
  BY <1>1 DEF TypeInv, Held, Data, Rows
<1>3. wages' = [wages EXCEPT ![i] = row]
  BY <1>2 DEF WageClose, Rows, ClosedOn
<1>4. new.from - 1 \in Day /\ wages[i].from <= new.from - 1
  BY <1>2, DayBefore DEF WageRow
<1>5. row \in WageRow /\ row.from = wages[i].from /\ row.to = new.from - 1 /\ row.current = FALSE
  BY <1>2, <1>4 DEF WageRow
<1> HIDE DEF i, new, row
<1>6. wages' \in Seq(WageRow) /\ Len(wages') = Len(wages) /\ wages'[i] = row
      /\ \A j \in Rows \ {i} : wages'[j] = wages[j]
  BY <1>2, <1>3, <1>5 DEF Rows
<1> QED BY <1>1, <1>2, <1>4, <1>5, <1>6 DEF ClosedRows, i, new

AddedRows(p) ==
    /\ Len(wages') = Len(wages) + 1 /\ wages' \in Seq(WageRow)
    /\ wages'[Len(wages')] = req[p].wage /\ \A j \in Rows : wages'[j] = wages[j]

LEMMA WageCreateIs ==
    ASSUME TypeInv, NEW p \in Proc, WageCreate(p)
    PROVE  AddedRows(p) /\ req[p].op = "wage" /\ req[p].pc = "create"
<1>1. req[p].op = "wage" /\ req[p].pc = "create"
  BY DEF WageCreate, At
<1>2. req[p].wage \in WageRow /\ wages \in Seq(WageRow)
  BY <1>1 DEF TypeInv, Held, Data
<1>3. wages' = Append(wages, req[p].wage)
  BY DEF WageCreate
<1> QED BY <1>1, <1>2, <1>3 DEF AddedRows, Rows

LEMMA WageStepTyped ==
    ASSUME TypeInv, NEW p \in Proc, WageCorrect(p) \/ WageClose(p) \/ WageCreate(p)
    PROVE  TypeInv'
<1>1. /\ overtime' = overtime /\ days' = days /\ settings' = settings /\ lines' = lines
      /\ made' = made /\ raced' = raced /\ fresh' = {}
  BY DEF WageCorrect, WageClose, WageCreate, Changed
<1>2. Grows
  <2>1. wages \in Seq(WageRow)
    BY DEF TypeInv, Data
  <2>2. CASE WageCorrect(p)
    BY <2>1, <2>2, WageCorrectIs DEF CorrectedRows, Grows
  <2>3. CASE WageClose(p)
    <3>1. ClosedRows(p)
      BY <2>3, WageCloseRows
    <3>2. ASSUME NEW i \in Rows PROVE wages'[i].from = wages[i].from
      BY <3>1 DEF ClosedRows
    <3> QED BY <2>1, <3>1, <3>2 DEF ClosedRows, Grows
  <2>4. CASE WageCreate(p)
    BY <2>1, <2>4, WageCreateIs DEF AddedRows, Grows
  <2> QED BY <2>2, <2>3, <2>4
<1>3. Data'
  BY <1>1, <1>2 DEF TypeInv, Data, Grows
<1>4. CASE WageCorrect(p) \/ WageCreate(p)
  <2>1. req' = Return(p)
    BY <1>4 DEF WageCorrect, WageCreate
  <2> QED BY <2>1, <1>2, <1>3, ReturnIs, EndedTyped DEF TypeInv
<1>5. CASE WageClose(p)
  <2>1. /\ Alone(p) /\ req'[p].op = "wage" /\ req'[p].pc = "create" /\ req'[p].row = req[p].row
        /\ req'[p].wage = req[p].wage /\ ~ req'[p].quiet
    BY <1>5, WageCloseIs DEF TypeInv
  <2>2. ASSUME NEW q \in Proc \ {p} PROVE Held(q)'
    BY <2>1, <2>2, <1>2, HeldKept DEF Alone
  <2>3. Held(p) /\ req[p].op = "wage" /\ Len(wages') = Len(wages)
    BY <1>5, WageCloseRows DEF TypeInv, ClosedRows
  <2>4. Held(p)'
    BY <2>1, <2>3 DEF Held
  <2> QED BY <1>3, <2>1, <2>2, <2>4 DEF TypeInv, Alone
<1> QED BY <1>4, <1>5

LEMMA StatementTyped ==
    ASSUME TypeInv, NEW kind \in Kind, Statement(kind), UNCHANGED wages,
           overtime' \in Seq(OvertimeRow), days' \in [Day -> [late : Nat, absent : BOOLEAN]],
           settings' \in Settings
    PROVE  TypeInv'
<1>1. Counted(kind) /\ fresh' = {} /\ req' = Told(req) /\ lines' = lines /\ raced' = raced
  BY DEF Statement, Changed
<1>2. Formed(req') /\ \A q \in Proc : Carries(req[q], req'[q])
  BY <1>1, StatementIs DEF TypeInv
<1>3. made' \in [Kind -> Nat]
  BY <1>1, CountedTyped DEF TypeInv, Data
<1>4. Data' /\ Grows
  BY <1>1, <1>3, SameWagesGrow DEF TypeInv, Data
<1>5. \A q \in Proc : Held(q)'
  BY <1>2, <1>4, HeldKept
<1> QED BY <1>2, <1>4, <1>5 DEF TypeInv

LEMMA OvertimeTyped ==
    ASSUME TypeInv,
           \/ \E d \in Day, m \in Minutes : SubmitOvertime(d, m)
           \/ \E r \in DOMAIN overtime, status \in {"APPROVED", "REJECTED"} : ReviewOvertime(r, status)
    PROVE  TypeInv'
<1>1. overtime \in Seq(OvertimeRow) /\ "overtime" \in Kind
      /\ days \in [Day -> [late : Nat, absent : BOOLEAN]] /\ settings \in Settings
  BY DEF TypeInv, Data, Kind
<1>2. CASE \E d \in Day, m \in Minutes : SubmitOvertime(d, m)
  <2>1. PICK d \in Day, m \in Minutes : SubmitOvertime(d, m)
    BY <1>2
  <2>2. overtime' = Append(overtime, [day |-> d, minutes |-> m, status |-> "SUBMITTED"])
        /\ Statement("overtime") /\ wages' = wages /\ days' = days /\ settings' = settings
    BY <2>1 DEF SubmitOvertime
  <2>3. overtime' \in Seq(OvertimeRow)
    <3>1. [day |-> d, minutes |-> m, status |-> "SUBMITTED"] \in OvertimeRow
      BY DEF OvertimeRow
    <3> QED BY <1>1, <2>2, <3>1
  <2> QED BY <1>1, <2>2, <2>3, StatementTyped
<1>3. CASE \E r \in DOMAIN overtime, status \in {"APPROVED", "REJECTED"} : ReviewOvertime(r, status)
  <2>1. PICK r \in DOMAIN overtime, status \in {"APPROVED", "REJECTED"} : ReviewOvertime(r, status)
    BY <1>3
  <2>2. overtime' = [overtime EXCEPT ![r].status = status]
        /\ Statement("overtime") /\ wages' = wages /\ days' = days /\ settings' = settings
    BY <2>1 DEF ReviewOvertime
  <2>3. overtime' \in Seq(OvertimeRow)
    <3> DEFINE row == [overtime[r] EXCEPT !.status = status]
    <3>1. row \in OvertimeRow
      <4>1. overtime[r] \in OvertimeRow
        BY <1>1
      <4> QED BY <4>1 DEF OvertimeRow
    <3>2. overtime' = [overtime EXCEPT ![r] = row]
      BY <1>1, <2>2
    <3> HIDE DEF row
    <3> QED BY <1>1, <3>1, <3>2
  <2> QED BY <1>1, <2>2, <2>3, StatementTyped
<1> QED BY <1>2, <1>3

LEMMA DefaultRates == DefaultTax \in TaxRates /\ DefaultSso \in SsoRates
BY SMT DEF DefaultTax, DefaultSso, TaxRates, SsoRates, Baht

LEMMA SettingsTyped ==
    ASSUME TypeInv,
           \/ \E d \in Day, attendance \in Attendances : ChangeDay(d, attendance)
           \/ \E s \in TaxSettings : SaveRates(s)
           \/ \E pay \in PayStatements : SaveAttendancePay(pay)
    PROVE  TypeInv'
<1>1. overtime \in Seq(OvertimeRow) /\ "other" \in Kind
      /\ days \in [Day -> [late : Nat, absent : BOOLEAN]] /\ settings \in Settings
  BY DEF TypeInv, Data, Kind
<1>2. CASE \E d \in Day, attendance \in Attendances : ChangeDay(d, attendance)
  <2>1. PICK d \in Day, attendance \in Attendances : ChangeDay(d, attendance)
    BY <1>2
  <2>2. days' = [days EXCEPT ![d] = attendance]
        /\ Statement("other") /\ wages' = wages /\ overtime' = overtime /\ settings' = settings
    BY <2>1 DEF ChangeDay
  <2>3. days' \in [Day -> [late : Nat, absent : BOOLEAN]]
    BY <1>1, <2>2, PayAssumption
  <2> QED BY <1>1, <2>2, <2>3, StatementTyped
<1>3. CASE \E s \in TaxSettings : SaveRates(s)
  <2>1. PICK s \in TaxSettings : SaveRates(s)
    BY <1>3
  <2>2. settings' = [saved |-> TRUE, tax |-> s.tax, sso |-> s.sso, pay |-> settings.pay]
        /\ Statement("other") /\ wages' = wages /\ overtime' = overtime /\ days' = days
    BY <2>1 DEF SaveRates
  <2>3. settings' \in Settings
    <3>1. s \in [tax : TaxRates, sso : SsoRates]
      BY PayAssumption
    <3> QED BY <1>1, <2>2, <3>1 DEF Settings
  <2> QED BY <1>1, <2>2, <2>3, StatementTyped
<1>4. CASE \E pay \in PayStatements : SaveAttendancePay(pay)
  <2>1. PICK pay \in PayStatements : SaveAttendancePay(pay)
    BY <1>4
  <2>2. settings' = (IF settings.saved THEN [settings EXCEPT !.pay = pay]
                     ELSE [saved |-> TRUE, tax |-> DefaultTax, sso |-> DefaultSso, pay |-> pay])
        /\ Statement("other") /\ wages' = wages /\ overtime' = overtime /\ days' = days
    BY <2>1 DEF SaveAttendancePay
  <2>3. settings' \in Settings
    <3>1. pay \in PayRates
      BY PayAssumption
    <3> QED BY <1>1, <2>2, <3>1, DefaultRates DEF Settings
  <2> QED BY <1>1, <2>2, <2>3, StatementTyped
<1> QED BY <1>2, <1>3, <1>4

LEMMA CalculateStartTyped ==
    ASSUME TypeInv, NEW p \in Proc, NEW per \in Period, NEW current \in Rows \cup {0},
           CalculateStart(p, per, current)
    PROVE  TypeInv'
<1>1. UNCHANGED <<inputs, lines, fresh, raced>> /\ Counted("calculate")
  BY Zenon DEF CalculateStart
<1>2. /\ Alone(p) /\ req'[p].op = "calculate" /\ req'[p].pc = "load" /\ req'[p].period = per
      /\ req'[p].row = current /\ (current # 0 => req'[p].wage = wages[current])
      /\ req'[p].loaded = settings
  BY CalculateStartIs DEF TypeInv
<1>3. made' \in [Kind -> Nat]
  BY <1>1, CountedTyped DEF TypeInv, Data, Kind
<1>4. Data' /\ Grows
  <2>1. Data
    BY DEF TypeInv
  <2> QED BY <1>1, <1>3, <2>1, SameWagesGrow DEF Data, inputs
<1>5. ASSUME NEW q \in Proc \ {p} PROVE Held(q)'
  BY <1>2, <1>4, <1>5, HeldKept DEF Alone
<1>6. current # 0 => wages[current] \in WageRow
  BY DEF TypeInv, Data, Rows
<1>7. settings \in Settings
  BY DEF TypeInv, Data
<1>8. Held(p)'
  BY <1>2, <1>6, <1>7 DEF Held
<1> QED BY <1>2, <1>4, <1>5, <1>8 DEF TypeInv, Alone

-----------------------------------------------------------------------------
(* What a calculation reads.                                               *)

LEMMA FiniteDays == IsFiniteSet(Day)
<1>1. IsFiniteSet(1 .. (Forever - 1))
  <2>1. Forever - 1 \in Nat
    BY DEF Forever
  <2> QED BY <2>1, InitialSegment
<1> QED BY <1>1, PayAssumption, FS_Subset

Requests(per) == {r \in DOMAIN overtime : Within(per, overtime[r].day) /\ Payable(r)}
WorkedDays(per) == {d \in Day : Within(per, d)}
Absent(per) == {d \in WorkedDays(per) : days[d].absent}
LateDays(per) == SumOver([d \in WorkedDays(per) |-> days[d].late], WorkedDays(per))

LEMMA FiniteReads ==
    ASSUME Data, NEW per
    PROVE  IsFiniteSet(Requests(per)) /\ IsFiniteSet(WorkedDays(per)) /\ IsFiniteSet(Absent(per))
<1>1. IsFiniteSet(DOMAIN overtime)
  <2>1. Len(overtime) \in Nat /\ DOMAIN overtime = 1 .. Len(overtime)
    BY DEF Data
  <2> QED BY <2>1, InitialSegment
<1> QED BY <1>1, FiniteDays, FS_Subset DEF Requests, WorkedDays, Absent

LEMMA EffectsAre ==
    ASSUME Data, NEW per, NEW pay
    PROVE  LET e == Effects(per, pay)
           IN /\ e.overtime = [r \in Requests(per) |-> overtime[r].minutes]
              /\ e.late = IF pay.late THEN LateDays(per) ELSE 0
              /\ e.absent = IF pay.absence THEN Cardinality(Absent(per)) ELSE 0
<1> DEFINE late == MapThenSumSet(LAMBDA d : days[d].late, WorkedDays(per))
<1>1. late = LateDays(per)
  BY FiniteReads, LateSumIs DEF LateDays
<1>2. Effects(per, pay) = [overtime |-> [r \in Requests(per) |-> overtime[r].minutes],
                           late |-> IF pay.late THEN late ELSE 0,
                           absent |-> IF pay.absence THEN Cardinality(Absent(per)) ELSE 0]
  BY DEF Effects, Requests, WorkedDays, Absent
<1> HIDE DEF late
<1> QED BY <1>1, <1>2

LEMMA LateDaysType ==
    ASSUME Data, NEW per
    PROVE  LateDays(per) \in Nat
<1>1. \A d \in WorkedDays(per) : [c \in WorkedDays(per) |-> days[c].late][d] \in Nat
  BY DEF Data, WorkedDays
<1> QED BY <1>1, FiniteReads, SumNat DEF LateDays

LEMMA EffectsTyped ==
    ASSUME Data, NEW per, NEW pay
    PROVE  EffectsType(Effects(per, pay))
<1> DEFINE e == Effects(per, pay)
<1>1. /\ e.overtime = [r \in Requests(per) |-> overtime[r].minutes]
      /\ e.late = (IF pay.late THEN LateDays(per) ELSE 0)
      /\ e.absent = (IF pay.absence THEN Cardinality(Absent(per)) ELSE 0)
  BY EffectsAre
<1> HIDE DEF e
<1>2. \A r \in Requests(per) : overtime[r].minutes \in Nat
  <2>1. ASSUME NEW r \in Requests(per) PROVE overtime[r] \in OvertimeRow
    BY DEF Data, Requests
  <2> QED BY <2>1, PayAssumption DEF OvertimeRow
<1>3. Cardinality(Absent(per)) \in Nat
  BY FiniteReads, FS_CardinalityType
<1>4. IsFiniteSet(Requests(per)) /\ LateDays(per) \in Nat
  BY FiniteReads, LateDaysType
<1> QED BY <1>1, <1>2, <1>3, <1>4 DEF EffectsType, e

LEMMA CalculateLoadTyped ==
    ASSUME TypeInv, NEW p \in Proc, CalculateLoad(p)
    PROVE  TypeInv'
<1> DEFINE s == req[p].loaded
           new == Effects(req[p].period, s.pay)
<1>1. UNCHANGED <<inputs, lines, made, fresh, raced>> /\ req[p].op = "calculate" /\ req[p].pc = "load"
  BY Zenon DEF CalculateLoad, At
<1>2. /\ Alone(p) /\ req'[p].op = "calculate" /\ req'[p].pc = "write"
      /\ req'[p].row = req[p].row /\ req'[p].wage = req[p].wage
      /\ req'[p].period = req[p].period /\ req'[p].loaded = [settings |-> s, effects |-> new]
  BY CalculateLoadIs DEF TypeInv
<1>3. EffectsType(new)
  BY EffectsTyped DEF TypeInv
<1> HIDE DEF new
<1>4. Data' /\ Grows
  <2>1. Data
    BY DEF TypeInv
  <2> QED BY <1>1, <2>1, SameWagesGrow DEF Data, inputs
<1>5. ASSUME NEW q \in Proc \ {p} PROVE Held(q)'
  BY <1>2, <1>4, <1>5, HeldKept DEF Alone
<1>6. Held(p)'
  <2>1. Held(p)
    BY DEF TypeInv
  <2>2. req'[p].loaded.settings = s /\ req'[p].loaded.effects = new /\ s \in Settings
    BY <1>1, <1>2, <2>1 DEF Held
  <2> HIDE DEF s
  <2> QED BY <1>1, <1>2, <1>3, <2>1, <2>2 DEF Held
<1> QED BY <1>2, <1>4, <1>5, <1>6 DEF TypeInv, Alone

\* What a calculation writes.
Written(wage, s, e, advance) ==
    [items |-> Calculate(wage, s, e, advance.payout, advance.collected),
     minutes |-> SumOver(e.overtime, DOMAIN e.overtime)]

LEMMA WriteIs ==
    ASSUME TypeInv, NEW p \in Proc, NEW advance \in Advances, CalculateWrite(p, advance)
    PROVE  LET per == req[p].period
               new == IF req[p].row = 0 THEN NoLine
                      ELSE Written(req[p].wage, req[p].loaded.settings, req[p].loaded.effects, advance)
           IN /\ req[p].op = "calculate" /\ req[p].pc = "write" /\ per \in Period
              /\ lines' = [lines EXCEPT ![per] = new]
              /\ fresh' = IF req[p].quiet THEN fresh \cup {per} ELSE fresh \ {per}
              /\ req' = [req EXCEPT ![p] = Idle] /\ UNCHANGED <<inputs, made, raced>>
<1> DEFINE m == req[p].loaded.effects.overtime
           sum == MapThenSumSet(LAMBDA r : m[r], DOMAIN m)
           items == Calculate(req[p].wage, req[p].loaded.settings, req[p].loaded.effects,
                              advance.payout, advance.collected)
<1>1. sum = SumOver(m, DOMAIN m)
  BY SumOverIs
<1>2. /\ req[p].op = "calculate" /\ req[p].pc = "write"
      /\ lines' = [lines EXCEPT ![req[p].period] = IF req[p].row = 0 THEN NoLine
                                                   ELSE [items |-> items, minutes |-> sum]]
      /\ fresh' = (IF req[p].quiet THEN fresh \cup {req[p].period} ELSE fresh \ {req[p].period})
      /\ req' = [req EXCEPT ![p] = Idle] /\ UNCHANGED <<inputs, made, raced>>
  BY Zenon DEF CalculateWrite, At
<1>3. req[p].period \in Period
  BY <1>2 DEF TypeInv, Held
<1> HIDE DEF sum
<1> QED BY <1>1, <1>2, <1>3 DEF Written

LEMMA WrittenTyped ==
    ASSUME NEW w \in WageRow, NEW s \in Settings, NEW e, EffectsType(e), NEW advance \in Advances
    PROVE  Written(w, s, e, advance) \in Line
<1>1. advance.payout \in Nat /\ advance.collected \in Nat
  BY PayAssumption
<1> DEFINE items == Calculate(w, s, e, advance.payout, advance.collected)
           sum == SumOver(e.overtime, DOMAIN e.overtime)
<1>2. items \in [Code -> Nat]
  BY <1>1, CalculateIs
<1>3. sum \in Nat
  BY SumNat DEF EffectsType
<1>4. Written(w, s, e, advance) = [items |-> items, minutes |-> sum]
  BY DEF Written
<1> HIDE DEF items, sum
<1> QED BY <1>2, <1>3, <1>4 DEF Line, Code

LEMMA CalculateWriteTyped ==
    ASSUME TypeInv, NEW p \in Proc, NEW advance \in Advances, CalculateWrite(p, advance)
    PROVE  TypeInv'
<1> DEFINE per == req[p].period
           new == IF req[p].row = 0 THEN NoLine
                  ELSE Written(req[p].wage, req[p].loaded.settings, req[p].loaded.effects, advance)
<1>1. /\ req[p].op = "calculate" /\ req[p].pc = "write" /\ per \in Period
      /\ lines' = [lines EXCEPT ![per] = new]
      /\ fresh' = (IF req[p].quiet THEN fresh \cup {per} ELSE fresh \ {per})
      /\ req' = [req EXCEPT ![p] = Idle] /\ UNCHANGED <<inputs, made, raced>>
  BY WriteIs
<1>2. new \in Line \cup {NoLine}
  <2>1. Held(p)
    BY DEF TypeInv
  <2>2. req[p].row # 0 => Written(req[p].wage, req[p].loaded.settings, req[p].loaded.effects, advance) \in Line
    BY <1>1, <2>1, WrittenTyped DEF Held
  <2> QED BY <2>2
<1> HIDE DEF new
<1>3. Data' /\ Grows
  <2>1. Data
    BY DEF TypeInv
  <2>2. lines' \in [Period -> Line \cup {NoLine}] /\ fresh' \subseteq Period
    BY <1>1, <1>2, <2>1 DEF Data
  <2> QED BY <1>1, <2>1, <2>2, SameWagesGrow DEF Data, inputs
<1>4. Ended(p)
  BY <1>1, DropIs DEF TypeInv
<1> QED BY <1>3, <1>4, EndedTyped

LEMMA LoseTyped ==
    ASSUME TypeInv, NEW p \in Proc, Lose(p)
    PROVE  TypeInv'
<1>1. req' = [req EXCEPT ![p] = Idle] /\ UNCHANGED <<inputs, lines, made, fresh, raced>>
  BY DEF Lose
<1>2. Data' /\ Grows
  <2>1. Data
    BY DEF TypeInv
  <2> QED BY <1>1, <2>1, SameWagesGrow DEF Data, inputs
<1> QED BY <1>1, <1>2, DropIs, EndedTyped DEF TypeInv

LEMMA StutterTyped == ASSUME TypeInv, UNCHANGED vars PROVE TypeInv'
<1>1. UNCHANGED <<inputs, lines, req, made, fresh, raced>>
  BY DEF vars, inputs
<1>2. Data' /\ Formed(req')
  BY <1>1 DEF TypeInv, Data, inputs
<1>3. ASSUME NEW p \in Proc PROVE Held(p)'
  <2>1. Held(p)
    BY DEF TypeInv
  <2> QED BY <1>1, <2>1 DEF Held, Rows, inputs
<1> QED BY <1>2, <1>3 DEF TypeInv

\* The steps, one by one.
LEMMA NextIs ==
    ASSUME Next
    PROVE  \/ \E p \in Proc, w \in Wages, from \in Day, to \in Ends, current \in Rows \cup {0},
                 manage \in BOOLEAN : WageStart(p, NewWage(w, from, to), current, manage)
           \/ \E p \in Proc : WageCorrect(p) \/ WageClose(p) \/ WageCreate(p)
           \/ \E p \in Proc, per \in Period, current \in Rows \cup {0} : CalculateStart(p, per, current)
           \/ \E p \in Proc : CalculateLoad(p)
           \/ \E p \in Proc, advance \in Advances : CalculateWrite(p, advance)
           \/ \E p \in Proc : Lose(p)
           \/ \E d \in Day, m \in Minutes : SubmitOvertime(d, m)
           \/ \E r \in DOMAIN overtime, status \in {"APPROVED", "REJECTED"} : ReviewOvertime(r, status)
           \/ \E d \in Day, attendance \in Attendances : ChangeDay(d, attendance)
           \/ \E s \in TaxSettings : SaveRates(s)
           \/ \E pay \in PayStatements : SaveAttendancePay(pay)
<1>1. CASE \E p \in Proc : Request(p) \/ Step(p) \/ Lose(p)
  BY Zenon, <1>1 DEF Request, Step
<1>2. CASE \E d \in Day : \/ \E m \in Minutes : SubmitOvertime(d, m)
                         \/ \E attendance \in Attendances : ChangeDay(d, attendance)
  BY Zenon, <1>2
<1> QED BY Zenon, <1>1, <1>2 DEF Next

LEMMA NextTyped == TypeInv /\ [Next]_vars => TypeInv'
<1> SUFFICES ASSUME TypeInv, [Next]_vars PROVE TypeInv'
  OBVIOUS
<1>1. ASSUME Next PROVE TypeInv'
  BY Zenon, <1>1, NextIs, WageStartTyped, WageStepTyped, CalculateStartTyped, CalculateLoadTyped,
     CalculateWriteTyped, LoseTyped, OvertimeTyped, SettingsTyped
<1> QED BY <1>1, StutterTyped

-----------------------------------------------------------------------------
(* Wage requests one at a time keep the wages apart.                       *)

LEMMA InitHistory == Init => HistoryInv
<1> SUFFICES ASSUME Init PROVE HistoryInv
  OBVIOUS
<1>1. wages \in FirstWages /\ \A p \in Proc : req[p].op = "none"
  BY DEF Init, Idle
<1>2. Ordered
  <2>1. \A i \in DOMAIN wages :
           wages[i].from <= wages[i].to /\ (wages[i].current <=> wages[i].to = Forever)
    BY Zenon, <1>1, HistoryAssumption
  <2>2. \A i, j \in DOMAIN wages : i # j => ~ Overlap(wages[i], wages[j])
    BY Zenon, <1>1, HistoryAssumption
  <2>3. \A i \in Rows : wages[i].from <= wages[i].to /\ (wages[i].current <=> Open(i))
    BY Zenon, <2>1 DEF Rows, Open
  <2> QED BY Zenon, <2>2, <2>3 DEF Ordered, Rows
<1>3. \A p \in Proc : Found(p)
  BY <1>1 DEF Found
<1> QED BY <1>1, <1>2, <1>3 DEF HistoryInv

LEMMA OrderedUnchanged == ASSUME Ordered, UNCHANGED wages PROVE Ordered'
BY DEF Ordered, Rows, Open

\* A step that changes no wage and begins no wage request.
LEMMA OtherHistory ==
    ASSUME HistoryInv, UNCHANGED <<wages, raced>>,
           \A q \in Proc : Carries(req[q], req'[q]) \/ req'[q].op # "wage"
    PROVE  HistoryInv'
<1>1. CASE raced
  BY <1>1 DEF HistoryInv
<1>2. CASE ~ raced
  <2>1. Ordered'
    BY <1>2, OrderedUnchanged DEF HistoryInv
  <2>2. ASSUME NEW q \in Proc PROVE Found(q)'
    <3>1. Found(q)
      BY <1>2 DEF HistoryInv
    <3> QED BY <3>1 DEF Found, Carries, Rows, Open, Apart
  <2>3. ASSUME NEW p \in Proc, NEW q \in Proc, req'[p].op = "wage", req'[q].op = "wage" PROVE p = q
    <3>1. req[p].op = "wage" /\ req[q].op = "wage"
      BY <2>3 DEF Carries
    <3> QED BY <1>2, <3>1 DEF HistoryInv
  <2> QED BY <2>1, <2>2, <2>3 DEF HistoryInv
<1> QED BY <1>1, <1>2

LEMMA RowNumbers ==
    ASSUME TypeInv
    PROVE  /\ Rows = 1 .. Len(wages) /\ Len(wages) \in Nat
           /\ \A i \in Rows : wages[i] \in WageRow /\ wages[i].from \in Int /\ wages[i].to \in Int
                              /\ wages[i].from < Forever
           /\ \A w \in WageRow : w.from \in Int /\ w.to \in Int /\ w.from < Forever
<1>1. wages \in Seq(WageRow)
  BY DEF TypeInv, Data
<1>2. \A w \in WageRow : w.from \in Int /\ w.to \in Int /\ w.from < Forever
  <2>1. \A d \in Day : d \in Int /\ d < Forever
    BY PayAssumption DEF Forever
  <2> QED BY <2>1 DEF WageRow, Forever
<1> QED BY <1>1, <1>2 DEF Rows

\* The row a wage request is given is an open one.
LEMMA CurrentIsOpen ==
    ASSUME Ordered, NEW i \in CurrentRows
    PROVE  i \in Rows /\ Open(i)
BY DEF CurrentRows, Latest, Ordered

LEMMA WageStartHistory ==
    ASSUME TypeInv, HistoryInv, NEW p \in Proc, NEW w \in Wages, NEW from \in Day, NEW to \in Ends,
           NEW current \in Rows \cup {0}, NEW manage, WageStart(p, NewWage(w, from, to), current, manage)
    PROVE  HistoryInv'
<1> DEFINE new == NewWage(w, from, to)
<1>1. /\ wages' = wages /\ raced' = (raced \/ \E q \in Proc : req[q].op = "wage")
      /\ (current # 0 => current \in CurrentRows)
  BY Zenon DEF WageStart, inputs
<1>2. Alone(p) /\ Begins(p, new, current) /\ \A q \in Proc \ {p} : req'[q] = req[q]
  BY WageStartIs DEF TypeInv
<1> HIDE DEF new
<1>3. CASE raced'
  BY <1>3 DEF HistoryInv
<1>4. CASE ~ raced'
  <2>1. ~ raced /\ \A q \in Proc : req[q].op # "wage"
    BY <1>1, <1>4
  <2>2. Ordered /\ Ordered'
    BY <1>1, <2>1, OrderedUnchanged DEF HistoryInv
  <2>3. \A q \in Proc \ {p} : req'[q].op # "wage"
    BY <1>2, <2>1
  <2>4. Rows' = Rows /\ Rows \ {0} = Rows
    BY <1>1, RowNumbers DEF Rows
  <2>5. current # 0 => current \in Rows /\ Open(current)
    BY <1>1, <2>2, CurrentIsOpen
  <2>6. Found(p)'
    BY <1>1, <1>2, <2>4, <2>5 DEF Found, Begins, Open, Apart
  <2> QED BY <2>2, <2>3, <2>6 DEF HistoryInv, Found
<1> QED BY <1>3, <1>4

LEMMA WageCorrectHistory ==
    ASSUME TypeInv, HistoryInv, NEW p \in Proc, WageCorrect(p)
    PROVE  HistoryInv' /\ (~ raced' => Ordered /\ Open(req[p].row))
<1> DEFINE i == req[p].row
<1>1. CorrectedRows(p) /\ i \in Rows /\ req[p].op = "wage" /\ req[p].pc = "correct"
  BY WageCorrectIs
<1>2. raced' = raced /\ req' = Return(p)
  BY DEF WageCorrect
<1>3. Ended(p)
  BY <1>2, ReturnIs DEF TypeInv
<1>4. CASE raced
  BY <1>2, <1>4 DEF HistoryInv
<1>5. CASE ~ raced
  <2>1. Ordered /\ Found(p) /\ \A q \in Proc \ {p} : req[q].op # "wage"
    BY <1>1, <1>5 DEF HistoryInv
  <2>2. Open(i) /\ wages[i].to = req[p].wage.to /\ (req[p].wage.current <=> req[p].wage.to = Forever)
    BY <1>1, <2>1 DEF Found, TypeInv, Held
  <2>3. Rows' = Rows /\ \A j \in Rows : wages'[j].from = wages[j].from /\ wages'[j].to = wages[j].to
    BY <1>1 DEF CorrectedRows, TypeInv, Data, Rows
  <2>4. wages'[i].current <=> wages'[i].to = Forever
    BY <1>1, <2>2 DEF CorrectedRows
  <2>5. \A j \in Rows : wages'[j].current <=> wages'[j].to = Forever
    BY <1>1, <2>1, <2>4 DEF CorrectedRows, Ordered, Open
  <2>6. Ordered'
    BY <2>1, <2>3, <2>5 DEF Ordered, Open, Overlap
  <2>7. \A q \in Proc : req'[q].op # "wage"
    BY <1>3, <2>1 DEF Ended, Alone, Carries
  <2> QED BY <2>1, <2>2, <2>6, <2>7 DEF HistoryInv, Found
<1> QED BY <1>2, <1>4, <1>5

LEMMA WageCloseHistory ==
    ASSUME TypeInv, HistoryInv, NEW p \in Proc, WageClose(p)
    PROVE  HistoryInv' /\ (~ raced' => Ordered /\ Open(req[p].row))
<1> DEFINE i == req[p].row
           new == req[p].wage
<1>1. ClosedRows(p) /\ i \in Rows /\ req[p].op = "wage" /\ req[p].pc = "close"
  BY WageCloseRows
<1>2. raced' = raced
  BY DEF WageClose
<1>3. /\ Alone(p) /\ req'[p].op = "wage" /\ req'[p].pc = "create" /\ req'[p].wage = new
  BY WageCloseIs DEF TypeInv
<1>4. CASE raced
  BY <1>2, <1>4 DEF HistoryInv
<1>5. CASE ~ raced
  <2>1. Ordered /\ Found(p) /\ \A q \in Proc \ {p} : req[q].op # "wage"
    BY <1>1, <1>5 DEF HistoryInv
  <2>2. Open(i) /\ Apart(new, Rows \ {i}) /\ new \in WageRow
    BY <1>1, <2>1 DEF Found, TypeInv, Held
  <2>3. /\ Rows' = Rows /\ \A j \in Rows \ {i} : wages'[j] = wages[j]
        /\ wages'[i].from = wages[i].from /\ wages'[i].to = new.from - 1
        /\ wages'[i].from <= wages'[i].to /\ wages'[i].to \in Day /\ wages'[i].current = FALSE
    BY <1>1 DEF ClosedRows, TypeInv, Data, Rows
  <2>4. /\ \A j \in Rows : wages[j].from \in Int /\ wages[j].to \in Int /\ wages[j].from < Forever
        /\ new.from \in Int /\ new.to \in Int /\ new.from < Forever /\ wages[i].to = Forever
        /\ wages'[i].to # Forever
    BY <2>2, <2>3, RowNumbers, PayAssumption DEF Open, Forever
  <2>5. ASSUME NEW j \in Rows
        PROVE  wages'[j].from <= wages'[j].to /\ (wages'[j].current <=> wages'[j].to = Forever)
    <3>1. CASE j = i
      BY <2>3, <2>4, <3>1
    <3>2. CASE j # i
      BY <2>1, <2>3, <3>2 DEF Ordered, Open
    <3> QED BY <3>1, <3>2
  <2>6. ASSUME NEW j \in Rows, NEW k \in Rows, j # k PROVE ~ Overlap(wages'[j], wages'[k])
    <3>1. ~ Overlap(wages[j], wages[k])
      BY <2>1, <2>6 DEF Ordered
    <3>2. \A l \in Rows : wages'[l].from = wages[l].from /\ wages'[l].to \in Int /\ wages'[l].to <= wages[l].to
      BY <2>3, <2>4
    <3> QED BY <2>4, <3>1, <3>2 DEF Overlap
  <2>7. Ordered'
    BY <2>3, <2>5, <2>6 DEF Ordered, Open
  <2>8. Apart(new, Rows)'
    <3>1. ASSUME NEW j \in Rows PROVE ~ Overlap(wages'[j], new)
      <4>1. CASE j = i
        BY <2>3, <2>4, <4>1 DEF Overlap
      <4>2. CASE j # i
        BY <2>2, <2>3, <4>2 DEF Apart
      <4> QED BY <4>1, <4>2
    <3>2. new' = req'[p].wage
      OBVIOUS
    <3> QED BY <1>3, <2>3, <3>1 DEF Apart
  <2>9. \A q \in Proc \ {p} : req'[q].op # "wage"
    BY <1>3, <2>1 DEF Alone, Carries
  <2> QED BY <1>3, <2>1, <2>2, <2>7, <2>8, <2>9 DEF HistoryInv, Found
<1> QED BY <1>2, <1>4, <1>5

LEMMA WageCreateHistory ==
    ASSUME TypeInv, HistoryInv, NEW p \in Proc, WageCreate(p)
    PROVE  HistoryInv'
<1> DEFINE new == req[p].wage
           n == Len(wages')
<1>1. AddedRows(p) /\ req[p].op = "wage" /\ req[p].pc = "create"
  BY WageCreateIs
<1>2. raced' = raced /\ req' = Return(p)
  BY DEF WageCreate
<1>3. Ended(p)
  BY <1>2, ReturnIs DEF TypeInv
<1>4. CASE raced
  BY <1>2, <1>4 DEF HistoryInv
<1>5. CASE ~ raced
  <2>1. Ordered /\ Found(p) /\ \A q \in Proc \ {p} : req[q].op # "wage"
    BY <1>1, <1>5 DEF HistoryInv
  <2>2. Apart(new, Rows) /\ new.from <= new.to /\ (new.current <=> new.to = Forever)
    BY <1>1, <2>1 DEF Found, TypeInv, Held
  <2>3. Rows' = Rows \cup {n} /\ n \notin Rows
    BY <1>1, RowNumbers DEF AddedRows, Rows
  <2>4. wages'[n] = new /\ \A j \in Rows : wages'[j] = wages[j]
    BY <1>1 DEF AddedRows
  <2> HIDE DEF n, new
  <2>5. \A j \in Rows' : wages'[j].from <= wages'[j].to /\ (wages'[j].current <=> wages'[j].to = Forever)
    BY <2>1, <2>2, <2>3, <2>4 DEF Ordered, Open
  <2>6. ASSUME NEW j \in Rows', NEW k \in Rows', j # k PROVE ~ Overlap(wages'[j], wages'[k])
    <3>1. ASSUME NEW a, NEW b, ~ Overlap(a, b) PROVE ~ Overlap(b, a)
      BY <3>1 DEF Overlap
    <3>2. CASE j \in Rows /\ k \in Rows
      BY <2>1, <2>4, <2>6, <3>2 DEF Ordered
    <3>3. CASE j = n /\ k \in Rows
      BY <2>2, <2>4, <3>1, <3>3 DEF Apart
    <3>4. CASE j \in Rows /\ k = n
      BY <2>2, <2>4, <3>4 DEF Apart
    <3> QED BY <2>3, <2>6, <3>2, <3>3, <3>4
  <2>7. Ordered'
    BY <2>5, <2>6 DEF Ordered, Open
  <2>8. \A q \in Proc : req'[q].op # "wage"
    BY <1>3, <2>1 DEF Ended, Alone, Carries
  <2> QED BY <2>7, <2>8 DEF HistoryInv, Found
<1> QED BY <1>4, <1>5

WageIInv == TypeInv /\ HistoryInv

LEMMA NextHistory == WageIInv /\ [Next]_vars => HistoryInv'
<1> SUFFICES ASSUME TypeInv, HistoryInv, [Next]_vars PROVE HistoryInv'
  BY DEF WageIInv
<1>1. ASSUME NEW p \in Proc, NEW per, NEW current, CalculateStart(p, per, current) PROVE HistoryInv'
  <2>1. Alone(p) /\ req'[p].op = "calculate"
    BY <1>1, CalculateStartIs DEF TypeInv
  <2>2. UNCHANGED <<wages, raced>>
    BY Zenon, <1>1 DEF CalculateStart, inputs
  <2> QED BY <2>1, <2>2, OtherHistory DEF Alone
<1>2. ASSUME NEW p \in Proc, CalculateLoad(p) PROVE HistoryInv'
  <2>1. Alone(p) /\ req'[p].op = "calculate"
    BY <1>2, CalculateLoadIs DEF TypeInv
  <2>2. UNCHANGED <<wages, raced>>
    BY Zenon, <1>2 DEF CalculateLoad, inputs
  <2> QED BY <2>1, <2>2, OtherHistory DEF Alone
<1>3. ASSUME NEW p \in Proc,
             (\E advance \in Advances : CalculateWrite(p, advance)) \/ Lose(p)
      PROVE  HistoryInv'
  <2>1. req' = [req EXCEPT ![p] = Idle] /\ UNCHANGED <<wages, raced>>
    BY Zenon, <1>3 DEF CalculateWrite, Lose, inputs
  <2>2. Ended(p)
    BY <2>1, DropIs DEF TypeInv
  <2> QED BY <2>1, <2>2, OtherHistory DEF Ended, Alone
<1>4. ASSUME NEW kind, Statement(kind), UNCHANGED wages PROVE HistoryInv'
  <2>1. req' = Told(req) /\ raced' = raced
    BY Zenon, <1>4 DEF Statement
  <2> QED BY <1>4, <2>1, StatementIs, OtherHistory DEF TypeInv
<1>5. ASSUME \/ \E d \in Day, m \in Minutes : SubmitOvertime(d, m)
             \/ \E r \in DOMAIN overtime, status \in {"APPROVED", "REJECTED"} : ReviewOvertime(r, status)
             \/ \E d \in Day, attendance \in Attendances : ChangeDay(d, attendance)
             \/ \E s \in TaxSettings : SaveRates(s)
             \/ \E pay \in PayStatements : SaveAttendancePay(pay)
      PROVE  HistoryInv'
  <2>1. (Statement("overtime") \/ Statement("other")) /\ wages' = wages
    BY Zenon, <1>5 DEF SubmitOvertime, ReviewOvertime, ChangeDay, SaveRates, SaveAttendancePay
  <2> QED BY <1>4, <2>1
<1>6. ASSUME UNCHANGED vars PROVE HistoryInv'
  <2>1. wages' = wages /\ raced' = raced /\ req' = req
    BY <1>6 DEF vars
  <2> QED BY <2>1, OtherHistory, CarriesItself
<1>7. ASSUME Next PROVE HistoryInv'
  BY Zenon, <1>1, <1>2, <1>3, <1>5, <1>7, NextIs, WageStartHistory, WageCorrectHistory,
     WageCloseHistory, WageCreateHistory
<1> QED BY <1>6, <1>7

LEMMA Together == Spec => []WageIInv
<1>1. Init => WageIInv
  BY InitTyped, InitHistory DEF WageIInv
<1>2. WageIInv /\ [Next]_vars => WageIInv'
  BY NextTyped, NextHistory DEF WageIInv
<1> QED BY <1>1, <1>2, PTL DEF Spec

LEMMA HistoryApart == HistoryInv => WagesNeverOverlap
BY DEF HistoryInv, WagesNeverOverlap, Ordered

\* Types are kept, and no two wages of an employee are in force on the same
\* date, for any histories, dates and requests, as long as no two wage requests
\* overlap: the open wage ends the day before the next begins (addCompensation).
THEOREM WagesApart == Spec => []WageInv
<1>1. WageIInv => WageInv
  BY Typed, HistoryApart DEF WageIInv, WageInv
<1> QED BY <1>1, Together, PTL

\* A wage that has ended is never changed again (addCompensation), whatever is
\* asked for and whichever requests are lost half way, as long as no two wage
\* requests overlap.
THEOREM PastWagesStay == Spec => HistoryKept
<1> DEFINE Kept == \A i \in Rows : ~ Open(i) /\ ~ raced' => wages'[i] = wages[i]
<1>1. ASSUME WageIInv, [Next]_vars PROVE [Kept]_vars
  <2> SUFFICES ASSUME NEW i \in Rows, ~ Open(i), ~ raced' PROVE wages'[i] = wages[i]
    OBVIOUS
  <2>0. TypeInv /\ HistoryInv
    BY <1>1 DEF WageIInv
  <2>1. CASE UNCHANGED wages
    BY <2>1
  <2>2. ASSUME NEW p \in Proc, WageCorrect(p) PROVE wages'[i] = wages[i]
    <3>1. Open(req[p].row) /\ CorrectedRows(p)
      BY <2>0, <2>2, WageCorrectHistory, WageCorrectIs
    <3> QED BY <3>1 DEF CorrectedRows
  <2>3. ASSUME NEW p \in Proc, WageClose(p) PROVE wages'[i] = wages[i]
    <3>1. Open(req[p].row) /\ ClosedRows(p)
      BY <2>0, <2>3, WageCloseHistory, WageCloseRows
    <3> QED BY <3>1 DEF ClosedRows
  <2>4. ASSUME NEW p \in Proc, WageCreate(p) PROVE wages'[i] = wages[i]
    BY <2>0, <2>4, WageCreateIs DEF AddedRows
  <2>5. ASSUME Next
        PROVE  UNCHANGED wages \/ \E p \in Proc : WageCorrect(p) \/ WageClose(p) \/ WageCreate(p)
    <3>1. ASSUME NEW p \in Proc, NEW new, NEW current, NEW manage, WageStart(p, new, current, manage)
          PROVE  UNCHANGED wages
      BY Zenon, <3>1 DEF WageStart, inputs
    <3>2. ASSUME NEW p \in Proc, NEW per, NEW current, CalculateStart(p, per, current)
          PROVE  UNCHANGED wages
      BY Zenon, <3>2 DEF CalculateStart, inputs
    <3>3. ASSUME NEW p \in Proc, CalculateLoad(p) \/ Lose(p)
          PROVE  UNCHANGED wages
      BY Zenon, <3>3 DEF CalculateLoad, Lose, inputs
    <3>4. ASSUME NEW p \in Proc, NEW advance \in Advances, CalculateWrite(p, advance)
          PROVE  UNCHANGED wages
      BY Zenon, <3>4 DEF CalculateWrite, inputs
    <3>5. ASSUME \/ \E d \in Day, m \in Minutes : SubmitOvertime(d, m)
                 \/ \E r \in DOMAIN overtime, status \in {"APPROVED", "REJECTED"} : ReviewOvertime(r, status)
                 \/ \E d \in Day, attendance \in Attendances : ChangeDay(d, attendance)
                 \/ \E s \in TaxSettings : SaveRates(s)
                 \/ \E pay \in PayStatements : SaveAttendancePay(pay)
          PROVE  UNCHANGED wages
      BY Zenon, <3>5 DEF SubmitOvertime, ReviewOvertime, ChangeDay, SaveRates, SaveAttendancePay
    <3> QED BY Zenon, <2>5, <3>1, <3>2, <3>3, <3>4, <3>5, NextIs
  <2> QED BY <1>1, <2>1, <2>2, <2>3, <2>4, <2>5 DEF vars
<1>2. WageIInv /\ [Next]_vars => [Kept]_vars
  BY <1>1
<1> QED BY <1>2, Together, PTL DEF Spec, HistoryKept

-----------------------------------------------------------------------------
(* A calculation no change came in between of writes the current pay.      *)

\* Effects, of the tables it reads.
EffectsOf(rows, dates, per, pay) ==
    LET requests == {r \in DOMAIN rows : Within(per, rows[r].day) /\ rows[r].status = "APPROVED"}
        worked == {d \in Day : Within(per, d)}
    IN [overtime |-> [r \in requests |-> rows[r].minutes],
        late |-> IF pay.late THEN MapThenSumSet(LAMBDA d : dates[d].late, worked) ELSE 0,
        absent |-> IF pay.absence THEN Cardinality({d \in worked : dates[d].absent}) ELSE 0]

NoneCurrent == \A i \in Rows : ~ wages[i].current

\* What an undisturbed calculation holds.
Undisturbed(p) ==
    LET c == req[p]
    IN c.op = "calculate" /\ c.quiet =>
          /\ IF c.row = 0 THEN NoneCurrent
             ELSE c.row \in Rows /\ wages[c.row].current /\ c.wage = wages[c.row]
          /\ c.pc = "load" => c.loaded = settings
          /\ c.pc = "write" =>
                c.loaded = [settings |-> settings,
                            effects |-> EffectsOf(overtime, days, c.period, settings.pay)]

Settled(per) ==
    \/ lines[per] = NoLine /\ NoneCurrent
    \/ \E i \in Rows, advance \in Advances :
          wages[i].current
          /\ lines[per] = Written(wages[i], settings, EffectsOf(overtime, days, per, settings.pay), advance)

BoundsInOrder == settings.saved => settings.sso.min <= settings.sso.max

CurrentInv ==
    /\ BoundsInOrder
    /\ \A p \in Proc : Undisturbed(p)
    /\ \A per \in fresh : Settled(per)

LEMMA EffectsAreOf ==
    ASSUME NEW per, NEW pay
    PROVE  Effects(per, pay) = EffectsOf(overtime, days, per, pay)
BY DEF Effects, EffectsOf, Payable

LEMMA InitCurrent == Init => CurrentInv
BY DEF Init, CurrentInv, BoundsInOrder, Undisturbed, Idle

\* A step that changes what calculations read.
LEMMA ChangedCurrent ==
    ASSUME fresh' = {}, \A p \in Proc : ~ req'[p].quiet, BoundsInOrder'
    PROVE  CurrentInv'
BY DEF CurrentInv, Undisturbed

LEMMA BoundsSame == ASSUME BoundsInOrder, UNCHANGED settings PROVE BoundsInOrder'
BY DEF BoundsInOrder

LEMMA UndisturbedSame ==
    ASSUME UNCHANGED inputs, NEW q \in Proc, Undisturbed(q), req'[q] = req[q]
    PROVE  Undisturbed(q)'
<1>1. wages' = wages /\ overtime' = overtime /\ days' = days /\ settings' = settings
  BY DEF inputs
<1> QED BY <1>1 DEF Undisturbed, NoneCurrent, Rows

LEMMA SettledSame ==
    ASSUME UNCHANGED inputs, NEW per \in Period, Settled(per), lines'[per] = lines[per]
    PROVE  Settled(per)'
<1>1. wages' = wages /\ overtime' = overtime /\ days' = days /\ settings' = settings
  BY DEF inputs
<1> QED BY <1>1 DEF Settled, NoneCurrent, Rows

\* A step that changes nothing they read, and no line.
LEMMA OtherCurrent ==
    ASSUME Data, CurrentInv, UNCHANGED <<inputs, lines, fresh>>, NEW p \in Proc,
           \A q \in Proc \ {p} : req'[q] = req[q], Undisturbed(p)'
    PROVE  CurrentInv'
<1>1. UNCHANGED inputs /\ lines' = lines /\ fresh' = fresh /\ settings' = settings /\ fresh \subseteq Period
  BY DEF inputs, Data
<1>2. BoundsInOrder'
  BY <1>1, BoundsSame DEF CurrentInv
<1>3. ASSUME NEW q \in Proc PROVE Undisturbed(q)'
  BY <1>1, <1>3, UndisturbedSame DEF CurrentInv
<1>4. ASSUME NEW per \in fresh' PROVE Settled(per)'
  BY <1>1, <1>4, SettledSame DEF CurrentInv
<1> QED BY <1>2, <1>3, <1>4 DEF CurrentInv

LEMMA WageStartCurrent ==
    ASSUME TypeInv, CurrentInv, NEW p \in Proc, NEW new, NEW current, NEW manage,
           WageStart(p, new, current, manage)
    PROVE  CurrentInv'
<1>1. UNCHANGED <<inputs, lines, fresh>>
  BY Zenon DEF WageStart
<1>2. req'[p].op = "wage" /\ \A q \in Proc \ {p} : req'[q] = req[q]
  BY WageStartIs DEF TypeInv, Begins
<1>3. Undisturbed(p)'
  BY <1>2 DEF Undisturbed
<1> QED BY <1>1, <1>2, <1>3, OtherCurrent DEF TypeInv

LEMMA CalculateStartCurrent ==
    ASSUME TypeInv, CurrentInv, NEW p \in Proc, NEW per, NEW current \in Rows \cup {0},
           CalculateStart(p, per, current)
    PROVE  CurrentInv'
<1>1. UNCHANGED <<inputs, lines, fresh>>
      /\ (\/ current \in Rows /\ wages[current].current
          \/ current = 0 /\ \A i \in Rows : ~ wages[i].current)
  BY Zenon DEF CalculateStart
<1>2. /\ req'[p].op = "calculate" /\ req'[p].pc = "load"
      /\ req'[p].row = current /\ (current # 0 => req'[p].wage = wages[current])
      /\ req'[p].loaded = settings /\ \A q \in Proc \ {p} : req'[q] = req[q]
  BY CalculateStartIs DEF TypeInv
<1>3. 0 \notin Rows
  BY RowNumbers
<1>4. Undisturbed(p)'
  <2>1. wages' = wages /\ settings' = settings
    BY <1>1 DEF inputs
  <2> QED BY <1>1, <1>2, <1>3, <2>1 DEF Undisturbed, NoneCurrent, Rows
<1> QED BY <1>1, <1>2, <1>4, OtherCurrent DEF TypeInv

LEMMA CalculateLoadCurrent ==
    ASSUME TypeInv, CurrentInv, NEW p \in Proc, CalculateLoad(p)
    PROVE  CurrentInv'
<1> DEFINE s == req[p].loaded
<1>1. UNCHANGED <<inputs, lines, fresh>> /\ req[p].op = "calculate" /\ req[p].pc = "load"
  BY Zenon DEF CalculateLoad, At
<1>2. /\ req'[p].op = "calculate" /\ req'[p].pc = "write"
      /\ req'[p].row = req[p].row /\ req'[p].wage = req[p].wage /\ req'[p].period = req[p].period
      /\ req'[p].quiet = req[p].quiet
      /\ req'[p].loaded = [settings |-> s, effects |-> EffectsOf(overtime, days, req[p].period, s.pay)]
      /\ \A q \in Proc \ {p} : req'[q] = req[q]
  BY CalculateLoadIs, EffectsAreOf DEF TypeInv
<1>3. Undisturbed(p)'
  <2>1. wages' = wages /\ overtime' = overtime /\ days' = days /\ settings' = settings
    BY <1>1 DEF inputs
  <2>2. Undisturbed(p)
    BY DEF CurrentInv
  <2> QED BY <1>1, <1>2, <2>1, <2>2 DEF Undisturbed, NoneCurrent, Rows
<1> QED BY <1>1, <1>2, <1>3, OtherCurrent DEF TypeInv

LEMMA CalculateWriteCurrent ==
    ASSUME TypeInv, CurrentInv, NEW p \in Proc, NEW advance \in Advances, CalculateWrite(p, advance)
    PROVE  CurrentInv'
<1>0. PICK per \in Period : per = req[p].period
  BY WriteIs
<1> DEFINE it == req[p].loaded
           new == IF req[p].row = 0 THEN NoLine ELSE Written(req[p].wage, it.settings, it.effects, advance)
<1>1. /\ req[p].op = "calculate" /\ req[p].pc = "write"
      /\ lines' = [lines EXCEPT ![per] = new]
      /\ fresh' = (IF req[p].quiet THEN fresh \cup {per} ELSE fresh \ {per})
      /\ req' = [req EXCEPT ![p] = Idle] /\ UNCHANGED inputs /\ settings' = settings
  BY <1>0, WriteIs DEF inputs
<1>2. Ended(p) /\ \A q \in Proc \ {p} : req'[q] = req[q]
  BY <1>1, DropIs DEF TypeInv
<1>3. BoundsInOrder'
  BY <1>1, BoundsSame DEF CurrentInv
<1>4. ASSUME NEW q \in Proc PROVE Undisturbed(q)'
  <2>1. CASE q = p
    BY <1>2, <2>1 DEF Undisturbed, Ended
  <2>2. CASE q # p
    BY <1>1, <1>2, <2>2, UndisturbedSame DEF CurrentInv
  <2> QED BY <2>1, <2>2
<1>5. lines \in [Period -> Line \cup {NoLine}] /\ fresh \subseteq Period
  BY DEF TypeInv, Data
<1>6. req[p].quiet => Settled(per)'
  <2> SUFFICES ASSUME req[p].quiet PROVE Settled(per)'
    OBVIOUS
  <2>1. lines'[per] = new
    BY <1>1, <1>5
  <2>2. Undisturbed(p) /\ wages' = wages /\ overtime' = overtime /\ days' = days /\ settings' = settings
    BY <1>1 DEF CurrentInv, inputs
  <2>3. it.settings = settings /\ it.effects = EffectsOf(overtime, days, per, settings.pay)
    BY <1>0, <1>1, <2>2 DEF Undisturbed
  <2>4. CASE req[p].row = 0
    <3>1. NoneCurrent /\ lines'[per] = NoLine
      BY <1>1, <2>1, <2>2, <2>4 DEF Undisturbed
    <3> QED BY <2>2, <3>1 DEF Settled, NoneCurrent, Rows
  <2>5. CASE req[p].row # 0
    <3> DEFINE i == req[p].row
    <3>1. i \in Rows /\ wages[i].current /\ req[p].wage = wages[i]
      BY <1>1, <2>2, <2>5 DEF Undisturbed
    <3>2. lines'[per] = Written(wages[i], settings, EffectsOf(overtime, days, per, settings.pay), advance)
      BY <2>1, <2>3, <2>5, <3>1
    <3>3. PICK j \in Rows : wages[j].current
                     /\ lines'[per] = Written(wages[j], settings,
                                             EffectsOf(overtime, days, per, settings.pay), advance)
      BY <3>1, <3>2
    <3>4. j \in Rows' /\ wages'[j].current
          /\ lines'[per] = Written(wages'[j], settings', EffectsOf(overtime', days', per, settings'.pay), advance)
      BY <2>2, <3>3 DEF Rows
    <3> QED BY <3>4 DEF Settled
  <2> QED BY <2>4, <2>5
<1>7. ASSUME NEW c \in fresh' PROVE Settled(c)'
  <2>1. CASE c = per
    BY <1>1, <1>6, <2>1
  <2>2. CASE c # per
    <3>1. c \in fresh /\ c \in Period /\ lines'[c] = lines[c]
      BY <1>1, <1>5, <2>2
    <3> QED BY <1>1, <3>1, SettledSame DEF CurrentInv
  <2> QED BY <2>1, <2>2
<1> QED BY <1>3, <1>4, <1>7 DEF CurrentInv

LEMMA StatementCurrent ==
    ASSUME TypeInv, NEW kind, Statement(kind), BoundsInOrder'
    PROVE  CurrentInv'
<1>1. fresh' = {} /\ req' = Told(req)
  BY Zenon DEF Statement, Changed
<1> QED BY <1>1, StatementIs, ChangedCurrent DEF TypeInv

LEMMA RatesInOrder ==
    ASSUME TypeInv, CurrentInv, (\E s \in TaxSettings : SaveRates(s)) \/ (\E pay \in PayStatements : SaveAttendancePay(pay))
    PROVE  BoundsInOrder'
<1>1. settings \in Settings /\ BoundsInOrder
  BY DEF TypeInv, Data, CurrentInv
<1>2. CASE \E s \in TaxSettings : SaveRates(s)
  BY <1>2 DEF SaveRates, BoundsInOrder
<1>3. CASE \E pay \in PayStatements : SaveAttendancePay(pay)
  <2>1. PICK pay \in PayStatements :
          settings' = IF settings.saved THEN [settings EXCEPT !.pay = pay]
                      ELSE [saved |-> TRUE, tax |-> DefaultTax, sso |-> DefaultSso, pay |-> pay]
    BY <1>3 DEF SaveAttendancePay
  <2>2. DefaultSso.min <= DefaultSso.max
    BY SMT DEF DefaultSso, Baht
  <2>3. CASE settings.saved
    BY <1>1, <2>1, <2>3 DEF BoundsInOrder, Settings
  <2>4. CASE ~ settings.saved
    BY <2>1, <2>2, <2>4 DEF BoundsInOrder
  <2> QED BY <2>3, <2>4
<1> QED BY <1>2, <1>3

LEMMA WageStepCurrent ==
    ASSUME TypeInv, CurrentInv, NEW p \in Proc, WageCorrect(p) \/ WageClose(p) \/ WageCreate(p)
    PROVE  CurrentInv'
<1>1. fresh' = {} /\ settings' = settings
  BY Zenon DEF WageCorrect, WageClose, WageCreate, Changed
<1>2. \A q \in Proc : ~ req'[q].quiet
  <2>1. CASE WageCorrect(p) \/ WageCreate(p)
    <3>1. req' = Return(p)
      BY Zenon, <2>1 DEF WageCorrect, WageCreate
    <3> QED BY <3>1, ReturnIs DEF TypeInv
  <2>2. CASE WageClose(p)
    BY <2>2, WageCloseIs DEF TypeInv
  <2> QED BY <2>1, <2>2
<1>3. BoundsInOrder'
  BY <1>1, BoundsSame DEF CurrentInv
<1> QED BY <1>1, <1>2, <1>3, ChangedCurrent

LEMMA LoseCurrent ==
    ASSUME TypeInv, CurrentInv, NEW p \in Proc, Lose(p)
    PROVE  CurrentInv'
<1>1. req' = [req EXCEPT ![p] = Idle] /\ UNCHANGED <<inputs, lines, fresh>>
  BY Zenon DEF Lose
<1>2. Ended(p) /\ \A q \in Proc \ {p} : req'[q] = req[q]
  BY <1>1, DropIs DEF TypeInv
<1>3. Undisturbed(p)'
  BY <1>2 DEF Undisturbed, Ended
<1> QED BY <1>1, <1>2, <1>3, OtherCurrent DEF TypeInv

LEMMA StutterCurrent ==
    ASSUME TypeInv, CurrentInv, UNCHANGED vars
    PROVE  CurrentInv'
<1>1. UNCHANGED inputs /\ lines' = lines /\ fresh' = fresh /\ settings' = settings /\ req' = req
      /\ fresh \subseteq Period
  BY DEF vars, inputs, TypeInv, Data
<1>2. BoundsInOrder'
  BY <1>1, BoundsSame DEF CurrentInv
<1>3. \A q \in Proc : Undisturbed(q)'
  BY <1>1, UndisturbedSame DEF CurrentInv
<1>4. \A per \in fresh' : Settled(per)'
  BY <1>1, SettledSame DEF CurrentInv
<1> QED BY <1>2, <1>3, <1>4 DEF CurrentInv

LEMMA NextCurrent == TypeInv /\ CurrentInv /\ [Next]_vars => CurrentInv'
<1> SUFFICES ASSUME TypeInv, CurrentInv, [Next]_vars PROVE CurrentInv'
  OBVIOUS
<1>1. ASSUME \/ \E d \in Day, m \in Minutes : SubmitOvertime(d, m)
             \/ \E r \in DOMAIN overtime, status \in {"APPROVED", "REJECTED"} : ReviewOvertime(r, status)
             \/ \E d \in Day, attendance \in Attendances : ChangeDay(d, attendance)
      PROVE  CurrentInv'
  <2>1. (Statement("overtime") \/ Statement("other")) /\ settings' = settings
    BY Zenon, <1>1 DEF SubmitOvertime, ReviewOvertime, ChangeDay
  <2> QED BY <2>1, BoundsSame, StatementCurrent DEF CurrentInv
<1>2. ASSUME (\E s \in TaxSettings : SaveRates(s)) \/ (\E pay \in PayStatements : SaveAttendancePay(pay))
      PROVE  CurrentInv'
  <2>1. Statement("other")
    BY Zenon, <1>2 DEF SaveRates, SaveAttendancePay
  <2> QED BY <1>2, <2>1, RatesInOrder, StatementCurrent
<1>3. ASSUME Next PROVE CurrentInv'
  BY Zenon, <1>1, <1>2, <1>3, NextIs, WageStartCurrent, WageStepCurrent, CalculateStartCurrent,
     CalculateLoadCurrent, CalculateWriteCurrent, LoseCurrent
<1> QED BY <1>3, StutterCurrent

-----------------------------------------------------------------------------
(* What is written is the pay.                                             *)

\* IsPay, of the sums it compares: n requests of m minutes, late minutes, days absent.
PayIs(it, minutes, w, m, n, late, absent) ==
    LET wage == DayWage(w)
        taxable == it["BASE_PAY"] + it["OVERTIME"]
        perMinute == settings.pay.perMinute
        perDay == settings.pay.perDay
    IN /\ it["BASE_PAY"] = (IF w.type = "MONTHLY" THEN w.amount ELSE 0)
       /\ minutes = m
       /\ Near(it["OVERTIME"], wage.num * m, 320 * wage.den, n)
       /\ IF ~ settings.pay.late THEN it["LATE"] = 0
          ELSE IF perMinute > 0 THEN it["LATE"] = late * perMinute
          ELSE Near(it["LATE"], wage.num * late, 480 * wage.den, 1)
       /\ IF ~ settings.pay.absence THEN it["ABSENCE"] = 0
          ELSE IF perDay > 0 THEN it["ABSENCE"] = absent * perDay
          ELSE Near(it["ABSENCE"], wage.num * absent, wage.den, 1)
       /\ IF ~ settings.saved THEN it["TAX"] = 0 /\ it["SOCIAL_SECURITY"] = 0
          ELSE /\ IsTax(it["TAX"], taxable, settings.tax)
               /\ IF ~ settings.sso.on THEN it["SOCIAL_SECURITY"] = 0
                  ELSE \E base \in {0, taxable, settings.sso.min, settings.sso.max} :
                          /\ IsBase(base, taxable, settings.sso)
                          /\ Near(it["SOCIAL_SECURITY"],
                                  Least(base * settings.sso.rate, 100 * settings.sso.cap), 100, 1)

LEMMA IsPayOfSums ==
    ASSUME Data, NEW per \in Period, NEW w,
           PayIs(lines[per].items, lines[per].minutes, w,
                 SumOver([r \in Requests(per) |-> overtime[r].minutes], Requests(per)),
                 Cardinality(Requests(per)), LateDays(per), Cardinality(Absent(per)))
    PROVE  IsPay(per, w)
<1> DEFINE A == ApprovedWithin(FirstOf[per], LastOf[per])
           m == MinutesOf(A)
           late == MapThenSumSet(LAMBDA d : days[d].late, WorkedDays(per))
<1>1. A = Requests(per)
  <2>1. FirstOf[per] \in Int /\ LastOf[per] \in Int /\ \A r \in DOMAIN overtime : overtime[r].day \in Int
    <3>1. \A d \in Day : d \in Int
      BY PayAssumption DEF Forever
    <3>2. \A r \in DOMAIN overtime : overtime[r] \in OvertimeRow
      BY DEF Data
    <3> QED BY <3>1, <3>2, PayAssumption DEF OvertimeRow
  <2> QED BY <2>1 DEF ApprovedWithin, Requests, Within, Payable
<1>2. m = SumOver([r \in Requests(per) |-> overtime[r].minutes], Requests(per))
  <2>1. MapThenSumSet(LAMBDA r : overtime[r].minutes, Requests(per))
        = SumOver([r \in Requests(per) |-> overtime[r].minutes], Requests(per))
    BY FiniteReads, MinutesSumIs
  <2> QED BY <1>1, <2>1 DEF MinutesOf
<1>3. late = LateDays(per)
  BY FiniteReads, LateSumIs DEF LateDays
<1>4. Cardinality({d \in WorkedDays(per) : days[d].absent}) = Cardinality(Absent(per))
  BY DEF Absent
<1>5. PayIs(lines[per].items, lines[per].minutes, w, m, Cardinality(A), late,
            Cardinality({d \in WorkedDays(per) : days[d].absent}))
  <2> HIDE DEF m, A, late
  <2> QED BY Zenon, <1>1, <1>2, <1>3, <1>4
<1> QED BY Zenon, <1>5 DEF PayIs, IsPay, WorkedDays, Within

\* The overtime of a period is off by half a unit at most for each request.
LEMMA OvertimeTotalNear ==
    ASSUME NEW w \in WageRow, NEW D, IsFiniteSet(D), NEW m, DOMAIN m = D, \A r \in D : m[r] \in Nat
    PROVE  Near(OvertimeTotal(w, m), DayWage(w).num * SumOver(m, D), 320 * DayWage(w).den, Cardinality(D))
<1> DEFINE k == DayWage(w).num
           d == 320 * DayWage(w).den
           A == [r \in D |-> OvertimePay(w, m[r])]
           B == [r \in D |-> k * m[r]]
<1>1. k \in Nat /\ d \in Nat
  BY WageFraction
<1>2. \A r \in D : /\ A[r] \in Nat /\ Near(A[r], k * m[r], d, 1)
  BY OvertimeNear
<1>3. \A r \in D : B[r] = k * m[r]
  OBVIOUS
<1>4. OvertimeTotal(w, m) = SumOver(A, D)
  BY DEF OvertimeTotal
<1> HIDE DEF A, B, k, d
<1>5. \A r \in D : B[r] \in Nat
  BY <1>1, <1>3
<1>6. SumOver(B, D) = k * SumOver(m, D)
  BY <1>1, <1>3, SumScale
<1>7. Near(SumOver(A, D), SumOver(B, D), d, Cardinality(D))
  BY <1>1, <1>2, <1>3, <1>5, SumNear
<1> QED BY <1>4, <1>6, <1>7 DEF k, d

LEMMA WrittenIsPay ==
    ASSUME Data, BoundsInOrder, NEW per, NEW w \in WageRow, NEW advance \in Advances
    PROVE  LET line == Written(w, settings, EffectsOf(overtime, days, per, settings.pay), advance)
           IN PayIs(line.items, line.minutes, w,
                    SumOver([r \in Requests(per) |-> overtime[r].minutes], Requests(per)),
                    Cardinality(Requests(per)), LateDays(per), Cardinality(Absent(per)))
<1> DEFINE e == EffectsOf(overtime, days, per, settings.pay)
           line == Written(w, settings, e, advance)
           it == Calculate(w, settings, e, advance.payout, advance.collected)
           D == Requests(per)
           m == [r \in D |-> overtime[r].minutes]
           x == it["BASE_PAY"] + it["OVERTIME"]
           late == LateDays(per)
           absent == Cardinality(Absent(per))
<1>1. /\ e.overtime = m
      /\ e.late = (IF settings.pay.late THEN late ELSE 0)
      /\ e.absent = (IF settings.pay.absence THEN absent ELSE 0)
  <2>1. e = Effects(per, settings.pay)
    BY EffectsAreOf
  <2> HIDE DEF e
  <2> QED BY <2>1, EffectsAre
<1>2. EffectsType(e)
  <2>1. e = Effects(per, settings.pay)
    BY EffectsAreOf
  <2> HIDE DEF e
  <2> QED BY <2>1, EffectsTyped
<1>3. settings \in Settings /\ settings.pay \in PayRates /\ settings.saved \in BOOLEAN
      /\ (settings.saved => settings.tax \in TaxRates /\ settings.sso \in SsoRates
                            /\ settings.sso.min <= settings.sso.max)
  BY DEF Data, Settings, BoundsInOrder
<1>4. advance.payout \in Nat /\ advance.collected \in Nat
  BY PayAssumption
<1> HIDE DEF e
<1>5. /\ it \in [Code -> Nat]
      /\ it["BASE_PAY"] = BasePay(w) /\ it["OVERTIME"] = OvertimeTotal(w, e.overtime)
      /\ it["LATE"] = LatePay(w, settings.pay, e.late) /\ it["ABSENCE"] = AbsencePay(w, settings.pay, e.absent)
      /\ it["TAX"] = (IF settings.saved THEN Tax(x, settings.tax) ELSE 0)
      /\ it["SOCIAL_SECURITY"] = (IF settings.saved THEN SocialSecurity(x, settings.sso) ELSE 0)
  <2>1. it \in [Code -> Nat]
    BY <1>2, <1>3, <1>4, CalculateIs
  <2>2. it["BASE_PAY"] = BasePay(w)
    BY <1>2, <1>3, <1>4, CalculateIs
  <2>3. it["OVERTIME"] = OvertimeTotal(w, e.overtime)
    BY <1>2, <1>3, <1>4, CalculateIs
  <2>4. it["LATE"] = LatePay(w, settings.pay, e.late)
    BY <1>2, <1>3, <1>4, CalculateIs
  <2>5. it["ABSENCE"] = AbsencePay(w, settings.pay, e.absent)
    BY <1>2, <1>3, <1>4, CalculateIs
  <2>6. it["TAX"] = (IF settings.saved THEN Tax(x, settings.tax) ELSE 0)
    BY <1>2, <1>3, <1>4, CalculateIs
  <2>7. it["SOCIAL_SECURITY"] = (IF settings.saved THEN SocialSecurity(x, settings.sso) ELSE 0)
    BY <1>2, <1>3, <1>4, CalculateIs
  <2> QED BY <2>1, <2>2, <2>3, <2>4, <2>5, <2>6, <2>7
<1>6. line.items = it /\ line.minutes = SumOver(m, D)
  <2>1. DOMAIN m = D
    OBVIOUS
  <2> HIDE DEF m, D
  <2>2. line = [items |-> it, minutes |-> SumOver(m, D)]
    BY <1>1, <2>1 DEF Written
  <2> HIDE DEF it, line
  <2> QED BY <2>2
<1>7. x \in Nat
  BY <1>5 DEF Code, Earnings
<1> HIDE DEF it, line, x
<1>8. Near(it["OVERTIME"], DayWage(w).num * SumOver(m, D), 320 * DayWage(w).den, Cardinality(D))
  <2>1. DOMAIN m = D
    OBVIOUS
  <2> HIDE DEF m
  <2>2. IsFiniteSet(D) /\ \A r \in D : m[r] \in Nat
    BY <1>1, <1>2, <2>1 DEF EffectsType
  <2> HIDE DEF D
  <2> QED BY <1>1, <1>5, <2>1, <2>2, OvertimeTotalNear
<1>9. late \in Nat /\ absent \in Nat
  BY LateDaysType, FiniteReads, FS_CardinalityType
<1> HIDE DEF late, absent, m, D
<1>10. IF ~ settings.pay.late THEN it["LATE"] = 0
       ELSE IF settings.pay.perMinute > 0 THEN it["LATE"] = late * settings.pay.perMinute
       ELSE Near(it["LATE"], DayWage(w).num * late, 480 * DayWage(w).den, 1)
  <2>1. CASE settings.pay.late
    BY <1>1, <1>3, <1>5, <1>9, <2>1, LateNear
  <2>2. CASE ~ settings.pay.late
    <3>1. e.late = 0 /\ 0 \in Nat
      BY <1>1, <2>2
    <3> QED BY <1>3, <1>5, <2>2, <3>1, LateNear
  <2> QED BY <2>1, <2>2
<1>11. IF ~ settings.pay.absence THEN it["ABSENCE"] = 0
       ELSE IF settings.pay.perDay > 0 THEN it["ABSENCE"] = absent * settings.pay.perDay
       ELSE Near(it["ABSENCE"], DayWage(w).num * absent, DayWage(w).den, 1)
  <2>1. CASE settings.pay.absence
    BY <1>1, <1>3, <1>5, <1>9, <2>1, AbsenceNear
  <2>2. CASE ~ settings.pay.absence
    <3>1. e.absent = 0 /\ 0 \in Nat
      BY <1>1, <2>2
    <3> QED BY <1>3, <1>5, <2>2, <3>1, AbsenceNear
  <2> QED BY <2>1, <2>2
<1>12. IF ~ settings.saved THEN it["TAX"] = 0 /\ it["SOCIAL_SECURITY"] = 0
       ELSE /\ IsTax(it["TAX"], x, settings.tax)
            /\ IF ~ settings.sso.on THEN it["SOCIAL_SECURITY"] = 0
               ELSE \E base \in {0, x, settings.sso.min, settings.sso.max} :
                       /\ IsBase(base, x, settings.sso)
                       /\ Near(it["SOCIAL_SECURITY"],
                               Least(base * settings.sso.rate, 100 * settings.sso.cap), 100, 1)
  <2>1. CASE ~ settings.saved
    BY <1>5, <2>1
  <2>2. CASE settings.saved
    <3>1. IsTax(it["TAX"], x, settings.tax)
      BY <1>3, <1>5, <1>7, <2>2, TaxNear
    <3>2. it["SOCIAL_SECURITY"] = SocialSecurity(x, settings.sso)
      BY <1>5, <2>2
    <3>3. ~ settings.sso.on => it["SOCIAL_SECURITY"] = 0
      BY <3>2 DEF SocialSecurity
    <3>4. settings.sso.on =>
            Near(it["SOCIAL_SECURITY"],
                 Least(InsurableWage(x, settings.sso) * settings.sso.rate, 100 * settings.sso.cap), 100, 1)
      BY <1>3, <1>7, <2>2, <3>2, SocialSecurityNear
    <3>5. InsurableWage(x, settings.sso) \in {0, x, settings.sso.min, settings.sso.max}
          /\ IsBase(InsurableWage(x, settings.sso), x, settings.sso)
      BY <1>3, <1>7, <2>2, InsurableIsBase
    <3> QED BY Zenon, <2>2, <3>1, <3>3, <3>4, <3>5
  <2> QED BY <2>1, <2>2
<1>13. PayIs(it, line.minutes, w, SumOver(m, D), Cardinality(D), late, absent)
  BY Zenon, <1>5, <1>6, <1>8, <1>10, <1>11, <1>12 DEF PayIs, BasePay, x
<1> QED BY <1>6, <1>13 DEF line, e, m, D, late, absent

LEMMA SettledIsCurrent ==
    ASSUME TypeInv, BoundsInOrder, NEW per \in Period, Settled(per)
    PROVE  IF lines[per] = NoLine THEN NoneCurrent
           ELSE \E i \in Rows : wages[i].current /\ IsPay(per, wages[i])
<1>1. CASE lines[per] = NoLine /\ NoneCurrent
  BY <1>1
<1>2. CASE \E i \in Rows, advance \in Advances :
              wages[i].current
              /\ lines[per] = Written(wages[i], settings, EffectsOf(overtime, days, per, settings.pay), advance)
  <2>1. PICK i \in Rows, advance \in Advances :
              wages[i].current
              /\ lines[per] = Written(wages[i], settings, EffectsOf(overtime, days, per, settings.pay), advance)
    BY <1>2
  <2>2. Data /\ wages[i] \in WageRow /\ settings \in Settings
    BY RowNumbers DEF TypeInv, Data
  <2>3. IsPay(per, wages[i])
    <3>1. PayIs(lines[per].items, lines[per].minutes, wages[i],
                SumOver([r \in Requests(per) |-> overtime[r].minutes], Requests(per)),
                Cardinality(Requests(per)), LateDays(per), Cardinality(Absent(per)))
      BY <2>1, <2>2, WrittenIsPay
    <3> QED BY <2>2, <3>1, IsPayOfSums
  <2>4. lines[per] # NoLine
    <3> DEFINE line == Written(wages[i], settings, EffectsOf(overtime, days, per, settings.pay), advance)
    <3>1. DOMAIN line = {"items", "minutes"}
      BY DEF Written
    <3>2. DOMAIN NoLine = {"items"}
      BY DEF NoLine
    <3>3. lines[per] = line
      BY <2>1
    <3> HIDE DEF line
    <3> QED BY <3>1, <3>2, <3>3
  <2> QED BY <2>1, <2>3, <2>4
<1> QED BY <1>1, <1>2 DEF Settled

\* A line that no change came in between of is the pay of the current wage,
\* whatever the wages, rates, dates and requests are: the base, each kind of
\* overtime, lateness and absence to half a unit for each rounding, the tax by
\* its marginal definition and social security of the bounded wage
\* (payrollAction, calculatePayroll, thai-tax.ts, attendance-deductions.ts).
THEOREM LinesAreCurrent == Spec => []LineIsCurrent
<1> DEFINE Inv == TypeInv /\ CurrentInv
<1>1. Init => Inv
  BY InitTyped, InitCurrent
<1>2. Inv /\ [Next]_vars => Inv'
  BY NextTyped, NextCurrent
<1>3. Inv => LineIsCurrent
  <2> SUFFICES ASSUME TypeInv, CurrentInv, NEW per \in fresh
               PROVE  IF lines[per] = NoLine THEN \A i \in Rows : ~ wages[i].current
                      ELSE \E i \in Rows : wages[i].current /\ IsPay(per, wages[i])
    BY Zenon DEF LineIsCurrent
  <2>1. per \in Period /\ BoundsInOrder /\ Settled(per)
    BY DEF TypeInv, Data, CurrentInv
  <2> QED BY Zenon, <2>1, SettledIsCurrent DEF NoneCurrent
<1> QED BY <1>1, <1>2, <1>3, PTL DEF Spec

-----------------------------------------------------------------------------
(* Who earns more takes more home.                                         *)

LEMMA SumAdd ==
    ASSUME NEW S, IsFiniteSet(S), NEW A, NEW x, x \notin S, \A y \in S \cup {x} : A[y] \in Nat
    PROVE  SumOver(A, S \cup {x}) = A[x] + SumOver(A, S) /\ IsFiniteSet(S \cup {x})
<1>1. IsFiniteSet(S \cup {x})
  BY FS_AddElement
<1>2. (S \cup {x}) \ {x} = S /\ x \in S \cup {x}
  OBVIOUS
<1> QED BY <1>1, <1>2, SumRemove

LEMMA NetIs ==
    ASSUME NEW items \in [Code -> Nat]
    PROVE  Net(items) = items["BASE_PAY"] + items["OVERTIME"] + items["ADVANCE_PAYOUT"]
                        - (items["LATE"] + items["ABSENCE"] + items["ADVANCE"] + items["TAX"]
                           + items["SOCIAL_SECURITY"])
<1> DEFINE S1 == {"BASE_PAY"}
           S2 == S1 \cup {"OVERTIME"}
           S3 == S2 \cup {"ADVANCE_PAYOUT"}
           T1 == {"LATE"}
           T2 == T1 \cup {"ABSENCE"}
           T3 == T2 \cup {"ADVANCE"}
           T4 == T3 \cup {"TAX"}
           T5 == T4 \cup {"SOCIAL_SECURITY"}
<1>1. \A c \in Code : items[c] \in Nat
  OBVIOUS
<1>2. S3 = Earnings /\ T5 = Deductions /\ Earnings \subseteq Code /\ Deductions \subseteq Code
  BY DEF Earnings, Deductions, Code
<1>3. \A c \in {} : items[c] \in Nat
  OBVIOUS
<1>4. IsFiniteSet({}) /\ SumOver(items, {}) = 0
  BY FS_EmptySet, SumEmpty
<1>5. SumOver(items, S1) = items["BASE_PAY"] /\ IsFiniteSet(S1)
  <2>1. S1 = {} \cup {"BASE_PAY"} /\ items["BASE_PAY"] \in Nat
    BY <1>1, <1>2
  <2> HIDE DEF S1
  <2>2. \A y \in {} \cup {"BASE_PAY"} : items[y] \in Nat
    BY <2>1
  <2>3. SumOver(items, {} \cup {"BASE_PAY"}) = items["BASE_PAY"] + SumOver(items, {}) /\ IsFiniteSet({} \cup {"BASE_PAY"})
    BY <1>4, <2>2, SumAdd
  <2> QED BY <1>4, <2>1, <2>3
<1>6. SumOver(items, S2) = items["OVERTIME"] + SumOver(items, S1) /\ IsFiniteSet(S2)
  BY <1>1, <1>2, <1>5, SumAdd
<1>7. SumOver(items, S3) = items["ADVANCE_PAYOUT"] + SumOver(items, S2)
  BY <1>1, <1>2, <1>6, SumAdd
<1>8. SumOver(items, T1) = items["LATE"] /\ IsFiniteSet(T1)
  <2>1. T1 = {} \cup {"LATE"} /\ items["LATE"] \in Nat
    BY <1>1, <1>2
  <2> HIDE DEF T1
  <2>2. \A y \in {} \cup {"LATE"} : items[y] \in Nat
    BY <2>1
  <2>3. SumOver(items, {} \cup {"LATE"}) = items["LATE"] + SumOver(items, {}) /\ IsFiniteSet({} \cup {"LATE"})
    BY <1>4, <2>2, SumAdd
  <2> QED BY <1>4, <2>1, <2>3
<1>9. SumOver(items, T2) = items["ABSENCE"] + SumOver(items, T1) /\ IsFiniteSet(T2)
  BY <1>1, <1>2, <1>8, SumAdd
<1>10. SumOver(items, T3) = items["ADVANCE"] + SumOver(items, T2) /\ IsFiniteSet(T3)
  BY <1>1, <1>2, <1>9, SumAdd
<1>11. SumOver(items, T4) = items["TAX"] + SumOver(items, T3) /\ IsFiniteSet(T4)
  BY <1>1, <1>2, <1>10, SumAdd
<1>12. SumOver(items, T5) = items["SOCIAL_SECURITY"] + SumOver(items, T4)
  BY <1>1, <1>2, <1>11, SumAdd
<1>13. Net(items) = SumOver(items, S3) - SumOver(items, T5)
  <2>1. Gross(items) = SumOver(items, Earnings) /\ Deducted(items) = SumOver(items, Deductions)
    BY SumOverIs DEF Gross, Deducted
  <2> HIDE DEF S3, T5
  <2> QED BY <1>2, <2>1 DEF Net
<1>14. \A c \in {"BASE_PAY", "OVERTIME", "ADVANCE_PAYOUT", "LATE", "ABSENCE", "ADVANCE", "TAX", "SOCIAL_SECURITY"} :
          items[c] \in Nat
  BY <1>1, <1>2
<1> HIDE DEF S1, S2, S3, T1, T2, T3, T4, T5
<1> QED BY <1>5, <1>6, <1>7, <1>8, <1>9, <1>10, <1>11, <1>12, <1>13, <1>14

LEMMA OverGrows ==
    ASSUME NEW x \in Nat, NEW y \in Nat, NEW k \in Nat, y <= x + k, NEW l \in Nat
    PROVE  Over(x, l) \in Nat /\ Over(y, l) \in Nat /\ Over(y, l) <= Over(x, l) + k
BY DEF Over, Greatest

\* The highest rate is 35 percent.
LEMMA MarginalTaxGrows ==
    ASSUME NEW x \in Nat, NEW y \in Nat, NEW k \in Nat, y <= x + k
    PROVE  MarginalTax(y) <= MarginalTax(x) + 35 * k
<1>1. \A l \in Nat : Over(x, l) \in Nat /\ Over(y, l) \in Nat /\ Over(y, l) <= Over(x, l) + k
  BY OverGrows
<1>2. MarginalTax(x) = 5 * (  Over(x, 15000000) + Over(x, 30000000) + Over(x, 50000000)
                            + Over(x, 75000000) + Over(x, 100000000) + Over(x, 200000000)
                            + Over(x, 500000000))
  BY SMT, MarginalTaxIs
<1>3. MarginalTax(y) = 5 * (  Over(y, 15000000) + Over(y, 30000000) + Over(y, 50000000)
                            + Over(y, 75000000) + Over(y, 100000000) + Over(y, 200000000)
                            + Over(y, 500000000))
  BY SMT, MarginalTaxIs
<1> QED BY SMT, <1>1, <1>2, <1>3

LEMMA HalfOfYear == ASSUME NEW x \in Nat PROVE Round(12 * x, 2) = 6 * x
<1>1. 12 * x \in Nat /\ 2 \in Nat /\ 2 > 0
  OBVIOUS
<1>2. Round(12 * x, 2) \in Nat /\ 2 * (Round(12 * x, 2) * 2 - 12 * x) <= 2
      /\ 2 * (12 * x - Round(12 * x, 2) * 2) <= 2
  BY ONLY <1>1, RoundNear
<1> DEFINE h == Round(12 * x, 2)
<1>3. h \in Nat /\ 4 * h <= 24 * x + 2 /\ 24 * x <= 4 * h + 2
  BY <1>2
<1> HIDE DEF h
<1>4. h = 6 * x
  BY <1>3
<1> QED BY <1>4 DEF h

LEMMA TaxableAnnualGrows ==
    ASSUME NEW x \in Nat, NEW r \in Nat, NEW tax \in TaxRates
    PROVE  TaxableAnnual(x + r, tax) <= TaxableAnnual(x, tax) + 12 * r
<1>1. tax.allowance \in Nat /\ x + r \in Nat
  BY DEF TaxRates
<1>2. Round(12 * x, 2) = 6 * x /\ Round(12 * (x + r), 2) = 6 * (x + r)
  BY <1>1, HalfOfYear
<1> QED BY SMT, <1>1, <1>2 DEF TaxableAnnual, Greatest, Least, Baht

\* The share of a raise that goes to tax, in percent.
TaxShare(tax) == IF ~ tax.on THEN 0 ELSE IF tax.method = "PROGRESSIVE" THEN 35 ELSE tax.rate
SsoShare(sso) == IF sso.on THEN sso.rate ELSE 0

LEMMA TaxGrows ==
    ASSUME NEW x \in Nat, NEW r \in Nat, NEW tax \in TaxRates
    PROVE  100 * Tax(x + r, tax) <= 100 * Tax(x, tax) + TaxShare(tax) * r + 200
<1> DEFINE a == Tax(x, tax)
           b == Tax(x + r, tax)
<1>1. x + r \in Nat
  OBVIOUS
<1>2. a \in Nat /\ IsTax(a, x, tax) /\ b \in Nat /\ IsTax(b, x + r, tax)
  BY <1>1, TaxNear
<1>3. tax.on \in BOOLEAN /\ tax.method \in {"FLAT", "PROGRESSIVE"} /\ tax.rate \in Nat
  BY DEF TaxRates
<1> HIDE DEF a, b
<1>4. CASE ~ tax.on
  BY <1>2, <1>4 DEF IsTax, TaxShare, a, b
<1>5. CASE tax.on /\ tax.method = "FLAT"
  <2>1. Near(a, x * tax.rate, 100, 1) /\ Near(b, (x + r) * tax.rate, 100, 1)
    BY <1>2, <1>5 DEF IsTax
  <2>2. (x + r) * tax.rate = x * tax.rate + tax.rate * r /\ x * tax.rate \in Nat /\ tax.rate * r \in Nat
    BY <1>3
  <2>3. TaxShare(tax) = tax.rate
    BY <1>5 DEF TaxShare
  <2> QED BY <1>2, <2>1, <2>2, <2>3 DEF Near, a, b
<1>6. CASE tax.on /\ tax.method = "PROGRESSIVE"
  <2> DEFINE y == TaxableAnnual(x, tax)
             z == TaxableAnnual(x + r, tax)
  <2>1. y \in Nat /\ z \in Nat /\ z <= y + 12 * r /\ 12 * r \in Nat
    BY <1>1, TaxableAnnualType, TaxableAnnualGrows
  <2>2. Near(a, MarginalTax(y), 1200, 2) /\ Near(b, MarginalTax(z), 1200, 2)
    BY <1>2, <1>6 DEF IsTax
  <2> HIDE DEF y, z
  <2>3. MarginalTax(y) \in Nat /\ MarginalTax(z) \in Nat
        /\ MarginalTax(z) <= MarginalTax(y) + 35 * (12 * r)
    BY <2>1, MarginalTaxType, MarginalTaxGrows
  <2>4. TaxShare(tax) = 35
    BY <1>6 DEF TaxShare
  <2> QED BY <1>2, <2>2, <2>3, <2>4 DEF Near, a, b
<1> QED BY <1>3, <1>4, <1>5, <1>6

\* From the least insurable wage on, so does social security.
LEMMA SocialSecurityGrows ==
    ASSUME NEW x \in Nat, NEW r \in Nat, NEW sso \in SsoRates, sso.min <= x
    PROVE  100 * SocialSecurity(x + r, sso) <= 100 * SocialSecurity(x, sso) + SsoShare(sso) * r + 100
<1>1. sso.min \in Nat /\ sso.max \in Nat /\ sso.rate \in Nat /\ sso.cap \in Nat /\ sso.on \in BOOLEAN
      /\ x + r \in Nat
  BY DEF SsoRates
<1> DEFINE y == InsurableWage(x, sso)
           z == InsurableWage(x + r, sso)
           m == Least(y * sso.rate, 100 * sso.cap)
           n == Least(z * sso.rate, 100 * sso.cap)
           a == SocialSecurity(x, sso)
           b == SocialSecurity(x + r, sso)
<1>2. y \in Nat /\ z \in Nat /\ z <= y + r
  BY <1>1 DEF InsurableWage, Least, Greatest
<1>3. a \in Nat /\ b \in Nat /\ (sso.on => Near(a, m, 100, 1) /\ Near(b, n, 100, 1))
  BY <1>1, SocialSecurityNear
<1>4. ~ sso.on => a = 0 /\ b = 0
  BY DEF SocialSecurity
<1> HIDE DEF y, z, a, b
<1>5. m \in Nat /\ n \in Nat /\ n <= m + sso.rate * r /\ sso.rate * r \in Nat
  <2>1. z * sso.rate <= (y + r) * sso.rate /\ (y + r) * sso.rate = y * sso.rate + sso.rate * r
        /\ y * sso.rate \in Nat /\ z * sso.rate \in Nat /\ sso.rate * r \in Nat /\ 100 * sso.cap \in Nat
    BY <1>1, <1>2
  <2> QED BY <2>1 DEF Least
<1> HIDE DEF m, n
<1>6. CASE sso.on
  BY <1>3, <1>5, <1>6 DEF Near, SsoShare, a, b
<1>7. CASE ~ sso.on
  BY <1>4, <1>7 DEF SsoShare, a, b
<1> QED BY <1>1, <1>6, <1>7

\* The rates leave something of a raise.  The code accepts any rate.
RatesLeaveSome == settings.saved => TaxShare(settings.tax) + SsoShare(settings.sso) <= 96

LEMMA RaiseNetsMore ==
    ASSUME NEW s \in Settings, NEW it \in [Code -> Nat], NEW r \in Nat, r >= 100,
           s.saved => /\ TaxShare(s.tax) + SsoShare(s.sso) <= 96
                      /\ s.sso.min <= it["BASE_PAY"] + it["OVERTIME"],
           it["TAX"] = IF s.saved THEN Tax(it["BASE_PAY"] + it["OVERTIME"], s.tax) ELSE 0,
           it["SOCIAL_SECURITY"] = IF s.saved THEN SocialSecurity(it["BASE_PAY"] + it["OVERTIME"], s.sso) ELSE 0
    PROVE  Net(Withheld([it EXCEPT !["BASE_PAY"] = @ + r], s)) > Net(it)
<1> DEFINE more == [it EXCEPT !["BASE_PAY"] = @ + r]
           new == Withheld(more, s)
           x == it["BASE_PAY"] + it["OVERTIME"]
<1>1. \A c \in {"BASE_PAY", "OVERTIME", "ADVANCE_PAYOUT", "LATE", "ABSENCE", "ADVANCE", "TAX", "SOCIAL_SECURITY"} :
         c \in Code /\ it[c] \in Nat
  BY DEF Code, Earnings, Deductions
<1>2. more \in [Code -> Nat] /\ more["BASE_PAY"] = it["BASE_PAY"] + r
      /\ \A c \in Code \ {"BASE_PAY"} : more[c] = it[c]
  BY <1>1
<1>3. more["BASE_PAY"] + more["OVERTIME"] = x + r /\ x \in Nat
  BY <1>1, <1>2
<1> HIDE DEF more
<1>4. /\ new \in [Code -> Nat] /\ \A c \in Code \ {"TAX", "SOCIAL_SECURITY"} : new[c] = more[c]
      /\ new["TAX"] = (IF s.saved THEN Tax(x + r, s.tax) ELSE 0)
      /\ new["SOCIAL_SECURITY"] = (IF s.saved THEN SocialSecurity(x + r, s.sso) ELSE 0)
  BY <1>2, <1>3, WithheldIs
<1> HIDE DEF new
<1>5. /\ new["BASE_PAY"] = it["BASE_PAY"] + r /\ new["OVERTIME"] = it["OVERTIME"]
      /\ new["ADVANCE_PAYOUT"] = it["ADVANCE_PAYOUT"] /\ new["LATE"] = it["LATE"]
      /\ new["ABSENCE"] = it["ABSENCE"] /\ new["ADVANCE"] = it["ADVANCE"]
  BY <1>1, <1>2, <1>4
<1>6. new["TAX"] \in Nat /\ new["SOCIAL_SECURITY"] \in Nat
  BY <1>1, <1>4
<1>7. 100 * (new["TAX"] + new["SOCIAL_SECURITY"]) <= 100 * (it["TAX"] + it["SOCIAL_SECURITY"]) + 96 * r + 300
  <2>1. CASE ~ s.saved
    BY <1>1, <1>4, <2>1
  <2>2. CASE s.saved
    <3>1. s.tax \in TaxRates /\ s.sso \in SsoRates
      BY <2>2 DEF Settings
    <3>2. TaxShare(s.tax) \in Nat /\ SsoShare(s.sso) \in Nat
      BY <3>1 DEF TaxShare, SsoShare, TaxRates, SsoRates
    <3>3. 100 * new["TAX"] <= 100 * it["TAX"] + TaxShare(s.tax) * r + 200
      BY <1>3, <1>4, <2>2, <3>1, TaxGrows
    <3>4. 100 * new["SOCIAL_SECURITY"] <= 100 * it["SOCIAL_SECURITY"] + SsoShare(s.sso) * r + 100
      BY <1>3, <1>4, <2>2, <3>1, SocialSecurityGrows
    <3>5. (TaxShare(s.tax) + SsoShare(s.sso)) * r <= 96 * r
          /\ (TaxShare(s.tax) + SsoShare(s.sso)) * r = TaxShare(s.tax) * r + SsoShare(s.sso) * r
      BY <2>2, <3>2
    <3>6. TaxShare(s.tax) * r \in Nat /\ SsoShare(s.sso) * r \in Nat
      BY <3>2
    <3> QED BY <1>1, <1>6, <3>3, <3>4, <3>5, <3>6
  <2> QED BY <2>1, <2>2 DEF Settings
<1>8. Net(it) = it["BASE_PAY"] + it["OVERTIME"] + it["ADVANCE_PAYOUT"]
                - (it["LATE"] + it["ABSENCE"] + it["ADVANCE"] + it["TAX"] + it["SOCIAL_SECURITY"])
  BY NetIs
<1>9. Net(new) = new["BASE_PAY"] + new["OVERTIME"] + new["ADVANCE_PAYOUT"]
                 - (new["LATE"] + new["ABSENCE"] + new["ADVANCE"] + new["TAX"] + new["SOCIAL_SECURITY"])
  BY <1>4, NetIs
<1>10. Net(new) > Net(it)
  BY <1>1, <1>5, <1>6, <1>7, <1>8, <1>9
<1> QED BY <1>10 DEF new, more

LEMMA LineNetsMore ==
    ASSUME TypeInv, BoundsInOrder, RatesLeaveSome, NEW per \in Period, Settled(per), lines[per] # NoLine,
           NEW raise \in Raises,
           settings.saved => Taxable(lines[per].items) >= settings.sso.min
    PROVE  Net(Withheld([lines[per].items EXCEPT !["BASE_PAY"] = @ + raise], settings)) > Net(lines[per].items)
<1>1. PICK i \in Rows, advance \in Advances :
              lines[per] = Written(wages[i], settings, EffectsOf(overtime, days, per, settings.pay), advance)
  BY DEF Settled
<1> DEFINE e == EffectsOf(overtime, days, per, settings.pay)
           it == Calculate(wages[i], settings, e, advance.payout, advance.collected)
           x == it["BASE_PAY"] + it["OVERTIME"]
<1>2. Data /\ wages[i] \in WageRow /\ settings \in Settings
  BY RowNumbers DEF TypeInv, Data
<1>3. EffectsType(e)
  <2>1. e = Effects(per, settings.pay)
    BY EffectsAreOf
  <2> HIDE DEF e
  <2> QED BY <1>2, <2>1, EffectsTyped
<1>4. advance.payout \in Nat /\ advance.collected \in Nat
  BY PayAssumption
<1>5. lines[per].items = it
  BY <1>1 DEF Written
<1> HIDE DEF e
<1>6. it \in [Code -> Nat]
  BY <1>2, <1>3, <1>4, CalculateIs
<1>7. it["TAX"] = (IF settings.saved THEN Tax(x, settings.tax) ELSE 0)
  BY <1>2, <1>3, <1>4, CalculateIs
<1>8. it["SOCIAL_SECURITY"] = (IF settings.saved THEN SocialSecurity(x, settings.sso) ELSE 0)
  BY <1>2, <1>3, <1>4, CalculateIs
<1> HIDE DEF it
<1>9. raise \in Nat /\ raise >= 100
  BY SMT DEF Raises, Baht
<1>10. settings.saved => settings.sso.min <= x
  <2>1. Taxable(it) = x /\ x \in Nat
    BY <1>6, TaxableIs
  <2>2. settings.saved => settings.sso.min \in Nat
    BY <1>2 DEF Settings, SsoRates
  <2> QED BY <1>5, <2>1, <2>2
<1>11. Net(Withheld([it EXCEPT !["BASE_PAY"] = @ + raise], settings)) > Net(it)
  BY <1>2, <1>6, <1>7, <1>8, <1>9, <1>10, RaiseNetsMore DEF RatesLeaveSome
<1> QED BY <1>5, <1>11

\* Whoever earns more takes more home, for all wages, overtime, allowances and
\* bounds, from the least insurable wage on, as long as tax and social security
\* together take at most 96 percent of a raise, 35 being the most that the
\* progressive rates take: a rate applies to what lies in its band, and each
\* amount is rounded once or twice (applyProgressiveTax,
\* calculateSocialSecurityEmployee).  Without the hypothesis it is false of the
\* code, which saves any rate that is not negative.
THEOREM MoreIsMore == Spec => [](RatesLeaveSome => MorePayNetsMore)
<1> DEFINE Inv == TypeInv /\ CurrentInv
<1>1. Init => Inv
  BY InitTyped, InitCurrent
<1>2. Inv /\ [Next]_vars => Inv'
  BY NextTyped, NextCurrent
<1>3. Inv => (RatesLeaveSome => MorePayNetsMore)
  <2> SUFFICES ASSUME TypeInv, CurrentInv, RatesLeaveSome, NEW per \in fresh, NEW raise \in Raises,
                      lines[per] # NoLine,
                      settings.saved => Taxable(lines[per].items) >= settings.sso.min
               PROVE  Net(Withheld([lines[per].items EXCEPT !["BASE_PAY"] = @ + raise], settings))
                      > Net(lines[per].items)
    BY Zenon DEF MorePayNetsMore
  <2>1. per \in Period /\ BoundsInOrder /\ Settled(per)
    BY DEF TypeInv, Data, CurrentInv
  <2> QED BY <2>1, LineNetsMore
<1> QED BY <1>1, <1>2, <1>3, PTL DEF Spec

=============================================================================
