------------------------------- MODULE DataLemmas -------------------------------
(***************************************************************************)
(* What the proofs need to know of sums, sequences and the average cost.   *)
(*                                                                         *)
(* SumFunctionOnSet of the community modules, which balances, stock and    *)
(* allocations are stated with, is a recursive function over the subsets   *)
(* of a finite set.  Induction is by a smallest counterexample (WFMin),    *)
(* which is first order, since the provers cannot instantiate a theorem    *)
(* with a predicate for parameter.                                         *)
(***************************************************************************)
EXTENDS InventoryCost, Sequences, FiniteSets, Functions, FiniteSetTheorems,
        SequenceTheorems, TLAPS

Pick(s) == CHOOSE x \in s : TRUE

Rest(s) == s \ {Pick(s)}

\* g is the table of the sums of f over the subsets of S.
Sums(g, f, S) ==
  g = [s \in SUBSET S |-> IF s = {} THEN 0 ELSE f[Pick(s)] + g[Rest(s)]]

\* A set of subsets of a finite set has one that contains no other of them.
LEMMA SmallestSet ==
  ASSUME NEW S, IsFiniteSet(S), NEW Bad, Bad \subseteq SUBSET S, Bad # {}
  PROVE  \E T \in Bad : \A U \in Bad : U \subseteq T => U = T
<1>1. IsWellFoundedOn(StrictSubsetOrdering(S), SUBSET S)
  BY FS_StrictSubsetOrderingWellFounded, FS_FiniteSubsetsOfFinite, Zenon
<1>2. PICK T \in Bad : \A U \in Bad : ~(<<U, T>> \in StrictSubsetOrdering(S))
  BY <1>1, WFMin, Zenon
<1>3. QED
  BY <1>2 DEF StrictSubsetOrdering

\* Induction over the subsets of a finite set: Good is the set where it holds.
LEMMA SubsetInduction ==
  ASSUME NEW S, IsFiniteSet(S), NEW Good,
         \A T \in SUBSET S : (\A U \in SUBSET T : U # T => U \in Good) => T \in Good
  PROVE  S \in Good
<1> DEFINE Bad == (SUBSET S) \ Good
<1> SUFFICES ASSUME Bad # {} PROVE FALSE
  OBVIOUS
<1>1. PICK T \in Bad : \A U \in Bad : U \subseteq T => U = T
  <2> Bad \subseteq SUBSET S
    OBVIOUS
  <2> HIDE DEF Bad
  <2> QED
    BY SmallestSet
<1>2. QED
  BY <1>1

LEMMA RestSmaller ==
  ASSUME NEW s, s # {}
  PROVE  Pick(s) \in s /\ Rest(s) \subseteq s /\ Rest(s) # s
BY DEF Pick, Rest

LEMMA SumsAt ==
  ASSUME NEW f, NEW S, NEW g, Sums(g, f, S), NEW s, s \subseteq S
  PROVE  g[s] = IF s = {} THEN 0 ELSE f[Pick(s)] + g[Rest(s)]
BY Zenon DEF Sums

LEMMA SumsAgree ==
  ASSUME NEW f, NEW S, IsFiniteSet(S), NEW g, NEW h, Sums(g, f, S),
         NEW T, Sums(h, f, T), NEW U, U \subseteq S, U \subseteq T
  PROVE  g[U] = h[U]
<1> DEFINE Good == {s \in SUBSET U : g[s] = h[s]}
<1>1. ASSUME NEW s \in SUBSET U, \A u \in SUBSET s : u # s => u \in Good
      PROVE  s \in Good
  <2>1. /\ g[s] = IF s = {} THEN 0 ELSE f[Pick(s)] + g[Rest(s)]
        /\ h[s] = IF s = {} THEN 0 ELSE f[Pick(s)] + h[Rest(s)]
    BY SumsAt, s \subseteq S, s \subseteq T
  <2>2. s # {} => g[Rest(s)] = h[Rest(s)]
    BY <1>1, RestSmaller
  <2>3. QED
    BY <2>1, <2>2
<1>2. U \in Good
  <2> HIDE DEF Good
  <2> QED
    BY <1>1, SubsetInduction, FS_Subset
<1>3. QED
  BY <1>2

\* The recursion of the definition has a solution on every finite set.
LEMMA SumsExist ==
  ASSUME NEW f, NEW S, IsFiniteSet(S)
  PROVE  \E g : Sums(g, f, S)
<1> DEFINE Good == {T \in SUBSET S : \E g : Sums(g, f, T)}
           G(u) == CHOOSE g : Sums(g, f, u)
           val(u) == G(u)[u]
           top(T) == [s \in SUBSET T |-> IF s = {} THEN 0 ELSE f[Pick(s)] + val(Rest(s))]
<1> HIDE DEF G
<1>1. ASSUME NEW T \in SUBSET S, \A U \in SUBSET T : U # T => U \in Good
      PROVE  T \in Good
  <2>1. \A u \in SUBSET T : u # T => Sums(G(u), f, u)
    BY <1>1, Zenon DEF G
  <2>2. ASSUME NEW u \in SUBSET T, u # T
        PROVE  top(T)[u] = val(u)
    <3>1. val(u) = IF u = {} THEN 0 ELSE f[Pick(u)] + G(u)[Rest(u)]
      BY <2>1, <2>2, SumsAt
    <3>2. u # {} => G(u)[Rest(u)] = val(Rest(u))
      <4> SUFFICES ASSUME u # {} PROVE G(u)[Rest(u)] = G(Rest(u))[Rest(u)]
        OBVIOUS
      <4>1. Rest(u) \subseteq u /\ Rest(u) # T /\ Rest(u) \subseteq T
        BY <2>2, RestSmaller
      <4>2. IsFiniteSet(u)
        BY FS_Subset
      <4>3. Sums(G(u), f, u) /\ Sums(G(Rest(u)), f, Rest(u))
        BY <2>1, <2>2, <4>1
      <4>4. QED
        BY <4>1, <4>2, <4>3, SumsAgree
    <3>3. QED
      BY <3>1, <3>2
  <2>3. \A s \in SUBSET T :
          top(T)[s] = IF s = {} THEN 0 ELSE f[Pick(s)] + top(T)[Rest(s)]
    <3> SUFFICES ASSUME NEW s \in SUBSET T, s # {}
                 PROVE  top(T)[s] = f[Pick(s)] + top(T)[Rest(s)]
      OBVIOUS
    <3>1. Rest(s) \in SUBSET T /\ Rest(s) # T
      BY RestSmaller
    <3>2. top(T)[Rest(s)] = val(Rest(s))
      BY <2>2, <3>1
    <3>3. QED
      BY <3>2
  <2>4. Sums(top(T), f, T)
    <3>1. top(T) = [s \in SUBSET T |-> top(T)[s]]
      OBVIOUS
    <3> HIDE DEF top
    <3>2. QED
      BY <2>3, <3>1, Zenon DEF Sums
  <2>5. QED
    BY <2>4
<1>2. S \in Good
  <2> HIDE DEF Good
  <2> QED
    BY <1>1, SubsetInduction
<1>3. QED
  BY <1>2

LEMMA SumTable ==
  ASSUME NEW f, NEW S, IsFiniteSet(S)
  PROVE  \E g : Sums(g, f, S) /\ SumFunctionOnSet(f, S) = g[S]
<1>1. SumFunctionOnSet(f, S) = (CHOOSE g : Sums(g, f, S))[S]
  BY Zenon DEF SumFunctionOnSet, FoldFunctionOnSet, MapThenFoldSet, Sums, Pick, Rest
<1>2. QED
  BY <1>1, SumsExist, Zenon

LEMMA SumPick ==
  ASSUME NEW f, NEW S, IsFiniteSet(S), S # {}
  PROVE  SumFunctionOnSet(f, S) = f[Pick(S)] + SumFunctionOnSet(f, Rest(S))
<1>1. Rest(S) \subseteq S /\ IsFiniteSet(Rest(S))
  BY RestSmaller, FS_Subset
<1>2. PICK g : Sums(g, f, S) /\ SumFunctionOnSet(f, S) = g[S]
  BY SumTable, Zenon
<1>3. PICK h : Sums(h, f, Rest(S)) /\ SumFunctionOnSet(f, Rest(S)) = h[Rest(S)]
  BY <1>1, SumTable, Zenon
<1>4. g[Rest(S)] = h[Rest(S)]
  BY <1>1, <1>2, <1>3, SumsAgree
<1>5. g[S] = f[Pick(S)] + g[Rest(S)]
  BY <1>2, SumsAt
<1>6. QED
  BY <1>2, <1>3, <1>4, <1>5

-----------------------------------------------------------------------------
(* The facts to cite *)

LEMMA SumEmpty ==
  ASSUME NEW f
  PROVE  SumFunctionOnSet(f, {}) = 0
<1>1. PICK g : Sums(g, f, {}) /\ SumFunctionOnSet(f, {}) = g[{}]
  BY SumTable, FS_EmptySet, Zenon
<1>2. QED
  BY <1>1, SumsAt

\* A sum of integers is an integer.
LEMMA SumInt ==
  ASSUME NEW f, NEW S, IsFiniteSet(S), \A x \in S : f[x] \in Int
  PROVE  SumFunctionOnSet(f, S) \in Int
<1> DEFINE Good == {T \in SUBSET S : SumFunctionOnSet(f, T) \in Int}
<1>1. ASSUME NEW T \in SUBSET S, \A U \in SUBSET T : U # T => U \in Good
      PROVE  T \in Good
  <2>1. CASE T = {}
    BY <2>1, SumEmpty
  <2>2. CASE T # {}
    <3>1. Pick(T) \in T /\ Rest(T) \subseteq T /\ Rest(T) # T
      BY <2>2, RestSmaller
    <3>2. SumFunctionOnSet(f, T) = f[Pick(T)] + SumFunctionOnSet(f, Rest(T))
      BY <2>2, SumPick, FS_Subset
    <3>3. SumFunctionOnSet(f, Rest(T)) \in Int
      BY <1>1, <3>1
    <3>4. QED
      BY <3>1, <3>2, <3>3
  <2>3. QED
    BY <2>1, <2>2
<1>2. S \in Good
  <2> HIDE DEF Good
  <2> QED
    BY <1>1, SubsetInduction
<1>3. QED
  BY <1>2

\* Any element may be taken out first: the order of summation does not matter.
LEMMA SumRemove ==
  ASSUME NEW f, NEW S, IsFiniteSet(S), \A x \in S : f[x] \in Int, NEW x \in S
  PROVE  SumFunctionOnSet(f, S) = f[x] + SumFunctionOnSet(f, S \ {x})
<1> DEFINE Total(T) == SumFunctionOnSet(f, T)
           Good == {T \in SUBSET S : \A y \in T : Total(T) = f[y] + Total(T \ {y})}
<1>1. ASSUME NEW T \in SUBSET S, \A U \in SUBSET T : U # T => U \in Good
      PROVE  T \in Good
  <2> SUFFICES ASSUME NEW y \in T PROVE Total(T) = f[y] + Total(T \ {y})
    OBVIOUS
  <2> DEFINE p == Pick(T)
  <2>1. p \in T /\ Rest(T) = T \ {p}
    BY RestSmaller DEF Rest
  <2>2. Total(T) = f[p] + Total(T \ {p})
    BY <2>1, SumPick, FS_Subset
  <2>3. \A U \in SUBSET T : Total(U) \in Int
    BY SumInt, FS_Subset
  <2>4. CASE y # p
    <3> DEFINE R == (T \ {p}) \ {y}
    <3> HIDE DEF p, Total
    <3>1. T \ {p} \in Good /\ T \ {y} \in Good
      BY <1>1, <2>1
    <3>2. Total(T \ {p}) = f[y] + Total(R)
      BY <2>4, <3>1
    <3>3. Total(T \ {y}) = f[p] + Total(R)
      BY <2>1, <2>4, <3>1, (T \ {y}) \ {p} = R
    <3>4. f[p] \in Int /\ f[y] \in Int /\ Total(R) \in Int
      BY <2>1, <2>3
    <3>5. QED
      BY <2>2, <3>2, <3>3, <3>4
  <2>5. QED
    BY <2>2, <2>4
<1>2. S \in Good
  <2> HIDE DEF Good
  <2> QED
    BY <1>1, SubsetInduction
<1>3. QED
  BY <1>2

LEMMA SumAdd ==
  ASSUME NEW f, NEW S, IsFiniteSet(S), NEW x, x \notin S,
         \A y \in S \cup {x} : f[y] \in Int
  PROVE  SumFunctionOnSet(f, S \cup {x}) = SumFunctionOnSet(f, S) + f[x]
<1> DEFINE T == S \cup {x}
<1>1. IsFiniteSet(T) /\ T \ {x} = S /\ x \in T
  BY FS_AddElement
<1> HIDE DEF T
<1>2. SumFunctionOnSet(f, T) = f[x] + SumFunctionOnSet(f, S)
  BY <1>1, SumRemove DEF T
<1>3. SumFunctionOnSet(f, S) \in Int
  BY SumInt
<1>4. QED
  BY <1>2, <1>3 DEF T

\* The sum depends only on the values on the set.
LEMMA SumEqual ==
  ASSUME NEW f, NEW g, NEW S, IsFiniteSet(S), \A x \in S : f[x] = g[x]
  PROVE  SumFunctionOnSet(f, S) = SumFunctionOnSet(g, S)
<1> DEFINE Good == {T \in SUBSET S : SumFunctionOnSet(f, T) = SumFunctionOnSet(g, T)}
<1>1. ASSUME NEW T \in SUBSET S, \A U \in SUBSET T : U # T => U \in Good
      PROVE  T \in Good
  <2>1. CASE T = {}
    BY <2>1, SumEmpty
  <2>2. CASE T # {}
    <3>1. Pick(T) \in T /\ Rest(T) \subseteq T /\ Rest(T) # T
      BY <2>2, RestSmaller
    <3>2. /\ SumFunctionOnSet(f, T) = f[Pick(T)] + SumFunctionOnSet(f, Rest(T))
          /\ SumFunctionOnSet(g, T) = g[Pick(T)] + SumFunctionOnSet(g, Rest(T))
      BY <2>2, SumPick, FS_Subset
    <3>3. SumFunctionOnSet(f, Rest(T)) = SumFunctionOnSet(g, Rest(T))
      BY <1>1, <3>1
    <3>4. QED
      BY <3>1, <3>2, <3>3
  <2>3. QED
    BY <2>1, <2>2
<1>2. S \in Good
  <2> HIDE DEF Good
  <2> QED
    BY <1>1, SubsetInduction
<1>3. QED
  BY <1>2

\* Leaving out values that are not negative does not raise the sum.
LEMMA SumMonotone ==
  ASSUME NEW f, NEW S, IsFiniteSet(S), \A x \in S : f[x] \in Nat,
         NEW T, T \subseteq S
  PROVE  SumFunctionOnSet(f, T) <= SumFunctionOnSet(f, S)
<1> DEFINE Total(U) == SumFunctionOnSet(f, U)
           Good == {U \in SUBSET S : T \subseteq U => Total(T) <= Total(U)}
<1>1. ASSUME NEW V \in SUBSET S, \A U \in SUBSET V : U # V => U \in Good
      PROVE  V \in Good
  <2> SUFFICES ASSUME T \subseteq V, T # V PROVE Total(T) <= Total(V)
    BY SumInt, FS_Subset
  <2>1. PICK x \in V : x \notin T
    OBVIOUS
  <2>2. Total(V) = f[x] + Total(V \ {x})
    BY SumRemove, FS_Subset
  <2>3. Total(T) <= Total(V \ {x})
    BY <1>1, <2>1
  <2>4. Total(T) \in Int /\ Total(V \ {x}) \in Int /\ f[x] \in Nat
    BY SumInt, FS_Subset
  <2>5. QED
    BY <2>2, <2>3, <2>4
<1>2. S \in Good
  <2> HIDE DEF Good
  <2> QED
    BY <1>1, SubsetInduction
<1>3. QED
  BY <1>2

\* Values that are zero may be left out.
LEMMA SumIgnore ==
  ASSUME NEW f, NEW S, IsFiniteSet(S), \A x \in S : f[x] \in Int,
         NEW T, T \subseteq S, \A x \in S \ T : f[x] = 0
  PROVE  SumFunctionOnSet(f, S) = SumFunctionOnSet(f, T)
<1> DEFINE Total(U) == SumFunctionOnSet(f, U)
           Good == {U \in SUBSET S : T \subseteq U => Total(U) = Total(T)}
<1>1. ASSUME NEW V \in SUBSET S, \A U \in SUBSET V : U # V => U \in Good
      PROVE  V \in Good
  <2> SUFFICES ASSUME T \subseteq V, T # V PROVE Total(V) = Total(T)
    OBVIOUS
  <2>1. PICK x \in V : x \notin T
    OBVIOUS
  <2>2. Total(V) = f[x] + Total(V \ {x})
    BY SumRemove, FS_Subset
  <2>3. Total(V \ {x}) = Total(T)
    BY <1>1, <2>1
  <2>4. Total(T) \in Int /\ f[x] = 0
    BY <2>1, SumInt, FS_Subset
  <2>5. QED
    BY <2>2, <2>3, <2>4
<1>2. S \in Good
  <2> HIDE DEF Good
  <2> QED
    BY <1>1, SubsetInduction
<1>3. QED
  BY <1>2

\* The sum of the differences is the difference of the sums.
LEMMA SumDifference ==
  ASSUME NEW f, NEW g, NEW h, NEW S, IsFiniteSet(S),
         \A x \in S : f[x] \in Int /\ g[x] \in Int /\ h[x] = f[x] - g[x]
  PROVE  SumFunctionOnSet(h, S) = SumFunctionOnSet(f, S) - SumFunctionOnSet(g, S)
<1> DEFINE F(T) == SumFunctionOnSet(f, T)
           G(T) == SumFunctionOnSet(g, T)
           H(T) == SumFunctionOnSet(h, T)
           Good == {T \in SUBSET S : H(T) = F(T) - G(T)}
<1>1. ASSUME NEW T \in SUBSET S, \A U \in SUBSET T : U # T => U \in Good
      PROVE  T \in Good
  <2>1. CASE T = {}
    BY <2>1, SumEmpty
  <2>2. CASE T # {}
    <3>1. Pick(T) \in T /\ Rest(T) \subseteq T /\ Rest(T) # T
      BY <2>2, RestSmaller
    <3>2. H(T) = h[Pick(T)] + H(Rest(T))
      BY <2>2, SumPick, FS_Subset
    <3>3. F(T) = f[Pick(T)] + F(Rest(T))
      BY <2>2, SumPick, FS_Subset
    <3>4. G(T) = g[Pick(T)] + G(Rest(T))
      BY <2>2, SumPick, FS_Subset
    <3>5. H(Rest(T)) = F(Rest(T)) - G(Rest(T))
      BY <1>1, <3>1
    <3>6. F(Rest(T)) \in Int
      BY <3>1, SumInt, FS_Subset
    <3>7. G(Rest(T)) \in Int
      BY <3>1, SumInt, FS_Subset
    <3>8. /\ f[Pick(T)] \in Int /\ g[Pick(T)] \in Int
          /\ h[Pick(T)] = f[Pick(T)] - g[Pick(T)]
      BY <3>1
    <3>9. H(T) = F(T) - G(T)
      <4> HIDE DEF F, G, H
      <4> QED
        BY ONLY <3>2, <3>3, <3>4, <3>5, <3>6, <3>7, <3>8
    <3>10. QED
      BY <3>9
  <2>3. QED
    BY <2>1, <2>2
<1>2. S \in Good
  <2> HIDE DEF Good
  <2> QED
    BY <1>1, SubsetInduction
<1>3. QED
  BY <1>2

\* The sum over the images of a one-to-one map is the sum over its domain.
LEMMA SumReindex ==
  ASSUME NEW f, NEW g, NEW m, NEW S, IsFiniteSet(S),
         \A x, y \in S : m[x] = m[y] => x = y,
         \A x \in S : f[m[x]] \in Int /\ g[x] = f[m[x]]
  PROVE  SumFunctionOnSet(g, S) = SumFunctionOnSet(f, {m[x] : x \in S})
<1> DEFINE Image(T) == {m[x] : x \in T}
           F(T) == SumFunctionOnSet(f, T)
           G(T) == SumFunctionOnSet(g, T)
           Good == {T \in SUBSET S : G(T) = F(Image(T))}
<1>1. ASSUME NEW T \in SUBSET S, \A U \in SUBSET T : U # T => U \in Good
      PROVE  T \in Good
  <2>1. CASE T = {}
    <3>1. Image(T) = {}
      BY <2>1
    <3>2. QED
      BY <2>1, <3>1, SumEmpty
  <2>2. CASE T # {}
    <3> DEFINE x == Pick(T)
    <3>1. x \in T /\ Rest(T) \subseteq T /\ Rest(T) # T
      BY <2>2, RestSmaller
    <3>2. G(T) = g[x] + G(Rest(T))
      BY <2>2, SumPick, FS_Subset
    <3>3. G(Rest(T)) = F(Image(Rest(T)))
      BY <1>1, <3>1
    <3>4. Image(Rest(T)) = Image(T) \ {m[x]} /\ m[x] \in Image(T)
      BY <3>1 DEF Rest
    <3>5. IsFiniteSet(Image(T))
      <4>1. [x1 \in T |-> m[x1]] \in Surjection(T, Image(T))
        BY DEF Surjection
      <4>2. IsFiniteSet(T)
        BY FS_Subset
      <4> QED
        BY <4>1, <4>2, FS_Surjection, Zenon
    <3>6. \A y \in Image(T) : f[y] \in Int
      OBVIOUS
    <3>7. F(Image(T)) = f[m[x]] + F(Image(T) \ {m[x]})
      <4> HIDE DEF Image, x
      <4> QED
        BY <3>4, <3>5, <3>6, SumRemove
    <3>8. F(Image(T) \ {m[x]}) = F(Image(Rest(T)))
      BY <3>4, Zenon
    <3>9. g[x] = f[m[x]]
      BY <3>1
    <3>10. G(T) = F(Image(T))
      <4> HIDE DEF F, G, Image, x
      <4> QED
        BY ONLY <3>2, <3>3, <3>7, <3>8, <3>9
    <3>11. QED
      BY <3>10
  <2>3. QED
    BY <2>1, <2>2
<1>2. S \in Good
  <2> HIDE DEF Good
  <2> QED
    BY <1>1, SubsetInduction
<1>3. QED
  BY <1>2

\* A sum of zeros.
LEMMA SumZero ==
  ASSUME NEW f, NEW S, IsFiniteSet(S), \A x \in S : f[x] = 0
  PROVE  SumFunctionOnSet(f, S) = 0
<1>1. SumFunctionOnSet(f, S) = SumFunctionOnSet(f, {})
  BY SumIgnore
<1> QED
  BY <1>1, SumEmpty

LEMMA SumSingle ==
  ASSUME NEW f, NEW x, f[x] \in Int
  PROVE  SumFunctionOnSet(f, {x}) = f[x]
<1>1. SumFunctionOnSet(f, {x}) = f[x] + SumFunctionOnSet(f, {x} \ {x})
  BY SumRemove, FS_Singleton
<1>2. {x} \ {x} = {}
  OBVIOUS
<1> QED
  BY <1>1, <1>2, SumEmpty

\* The sum of the sums of f and g.
LEMMA SumPlus ==
  ASSUME NEW f, NEW g, NEW h, NEW S, IsFiniteSet(S),
         \A x \in S : f[x] \in Int /\ g[x] \in Int /\ h[x] = f[x] + g[x]
  PROVE  SumFunctionOnSet(h, S) = SumFunctionOnSet(f, S) + SumFunctionOnSet(g, S)
<1>1. \A x \in S : h[x] \in Int /\ f[x] = h[x] - g[x]
  OBVIOUS
<1>2. SumFunctionOnSet(f, S) = SumFunctionOnSet(h, S) - SumFunctionOnSet(g, S)
  BY <1>1, SumDifference
<1>3. SumFunctionOnSet(h, S) \in Int /\ SumFunctionOnSet(g, S) \in Int
  BY <1>1, SumInt
<1> QED
  BY <1>2, <1>3

LEMMA SumNegative ==
  ASSUME NEW f, NEW h, NEW S, IsFiniteSet(S),
         \A x \in S : f[x] \in Int /\ h[x] = -f[x]
  PROVE  SumFunctionOnSet(h, S) = -SumFunctionOnSet(f, S)
<1> DEFINE zero == [x \in S |-> 0]
<1>1. \A x \in S : zero[x] \in Int /\ h[x] = zero[x] - f[x]
  OBVIOUS
<1>2. SumFunctionOnSet(zero, S) = 0
  BY SumZero
<1>3. SumFunctionOnSet(f, S) \in Int
  BY SumInt
<1> HIDE DEF zero
<1>4. SumFunctionOnSet(h, S) = SumFunctionOnSet(zero, S) - SumFunctionOnSet(f, S)
  BY <1>1, SumDifference
<1> QED
  BY <1>2, <1>3, <1>4

\* A common factor comes out of the sum.
LEMMA SumScale ==
  ASSUME NEW f, NEW h, NEW k \in Int, NEW S, IsFiniteSet(S),
         \A x \in S : f[x] \in Int /\ h[x] = f[x] * k
  PROVE  SumFunctionOnSet(h, S) = SumFunctionOnSet(f, S) * k
<1> DEFINE F(T) == SumFunctionOnSet(f, T)
           H(T) == SumFunctionOnSet(h, T)
           Good == {T \in SUBSET S : H(T) = F(T) * k}
<1>1. ASSUME NEW T \in SUBSET S, \A U \in SUBSET T : U # T => U \in Good
      PROVE  T \in Good
  <2>1. CASE T = {}
    BY <2>1, SumEmpty
  <2>2. CASE T # {}
    <3>1. Pick(T) \in T /\ Rest(T) \subseteq T /\ Rest(T) # T
      BY <2>2, RestSmaller
    <3>2. H(T) = h[Pick(T)] + H(Rest(T))
      BY <2>2, SumPick, FS_Subset
    <3>3. F(T) = f[Pick(T)] + F(Rest(T))
      BY <2>2, SumPick, FS_Subset
    <3>4. H(Rest(T)) = F(Rest(T)) * k
      BY <1>1, <3>1
    <3>5. F(Rest(T)) \in Int
      BY <3>1, SumInt, FS_Subset
    <3>6. f[Pick(T)] \in Int /\ h[Pick(T)] = f[Pick(T)] * k
      BY <3>1
    <3>7. H(T) = F(T) * k
      <4> HIDE DEF F, H
      <4> QED
        BY ONLY k \in Int, <3>2, <3>3, <3>4, <3>5, <3>6
    <3> QED
      BY <3>7
  <2> QED
    BY <2>1, <2>2
<1>2. S \in Good
  <2> HIDE DEF Good
  <2> QED
    BY <1>1, SubsetInduction
<1> QED
  BY <1>2

\* The four places of one row.
LEMMA SumOfFour ==
  ASSUME NEW f, NEW x, \A i \in {1, 2, 3, 4} : f[<<x, i>>] \in Int
  PROVE  /\ IsFiniteSet({<<x, 1>>, <<x, 2>>, <<x, 3>>, <<x, 4>>})
         /\ SumFunctionOnSet(f, {<<x, 1>>, <<x, 2>>, <<x, 3>>, <<x, 4>>})
              = f[<<x, 1>>] + f[<<x, 2>>] + f[<<x, 3>>] + f[<<x, 4>>]
<1> DEFINE a == <<x, 1>>
           b == <<x, 2>>
           c == <<x, 3>>
           d == <<x, 4>>
<1>1. /\ a # b /\ a # c /\ a # d /\ b # c /\ b # d /\ c # d
      /\ f[a] \in Int /\ f[b] \in Int /\ f[c] \in Int /\ f[d] \in Int
  OBVIOUS
<1> HIDE DEF a, b, c, d
<1>2. IsFiniteSet({a})
  BY FS_Singleton
<1>3. IsFiniteSet({a} \cup {b})
  BY <1>2, FS_AddElement
<1>4. IsFiniteSet(({a} \cup {b}) \cup {c})
  BY <1>3, FS_AddElement
<1>5. IsFiniteSet((({a} \cup {b}) \cup {c}) \cup {d})
  BY <1>4, FS_AddElement
<1>6. SumFunctionOnSet(f, {a}) = f[a]
  BY <1>1, SumSingle
<1>7. SumFunctionOnSet(f, {a} \cup {b}) = SumFunctionOnSet(f, {a}) + f[b]
  BY <1>1, <1>2, SumAdd
<1>8. SumFunctionOnSet(f, ({a} \cup {b}) \cup {c}) = SumFunctionOnSet(f, {a} \cup {b}) + f[c]
  BY <1>1, <1>3, SumAdd
<1>9. SumFunctionOnSet(f, (({a} \cup {b}) \cup {c}) \cup {d})
        = SumFunctionOnSet(f, ({a} \cup {b}) \cup {c}) + f[d]
  BY <1>1, <1>4, SumAdd
<1>10. (({a} \cup {b}) \cup {c}) \cup {d} = {a, b, c, d}
  OBVIOUS
<1>11. /\ IsFiniteSet({a, b, c, d})
       /\ SumFunctionOnSet(f, {a, b, c, d}) = f[a] + f[b] + f[c] + f[d]
  BY <1>5, <1>6, <1>7, <1>8, <1>9, <1>10
<1> QED
  BY <1>11 DEF a, b, c, d

\* A set in two parts.
LEMMA SumUnion ==
  ASSUME NEW f, NEW S, NEW T, IsFiniteSet(S), IsFiniteSet(T), S \cap T = {},
         \A x \in S \cup T : f[x] \in Int
  PROVE  SumFunctionOnSet(f, S \cup T) = SumFunctionOnSet(f, S) + SumFunctionOnSet(f, T)
<1> DEFINE F(U) == SumFunctionOnSet(f, U)
           Good == {U \in SUBSET T : F(S \cup U) = F(S) + F(U)}
<1>1. ASSUME NEW V \in SUBSET T, \A U \in SUBSET V : U # V => U \in Good
      PROVE  V \in Good
  <2>1. CASE V = {}
    <3>1. S \cup V = S /\ F(S) \in Int
      BY <2>1, SumInt
    <3> QED
      BY <2>1, <3>1, SumEmpty
  <2>2. CASE V # {}
    <3>1. PICK x \in V : TRUE
      BY <2>2
    <3>2. IsFiniteSet(V) /\ IsFiniteSet(S \cup V) /\ x \in S \cup V /\ x \notin S
      BY FS_Subset, FS_Union
    <3>3. F(V) = f[x] + F(V \ {x})
      BY <3>2, SumRemove
    <3>4. (S \cup V) \ {x} = S \cup (V \ {x})
      BY <3>2
    <3>5. F(S \cup V) = f[x] + F((S \cup V) \ {x})
      <4>1. \A y \in S \cup V : f[y] \in Int
        OBVIOUS
      <4> QED
        BY <3>2, <4>1, SumRemove
    <3>6. F(S \cup (V \ {x})) = F(S) + F(V \ {x})
      BY <1>1, <3>1
    <3>7. F(S) \in Int /\ F(V \ {x}) \in Int /\ f[x] \in Int
      <4>1. IsFiniteSet(V \ {x})
        BY <3>2, FS_Subset
      <4> QED
        BY <4>1, SumInt
    <3>8. F(S \cup V) = F(S) + F(V)
      <4>1. F(S \cup V) = f[x] + (F(S) + F(V \ {x}))
        BY <3>4, <3>5, <3>6
      <4> HIDE DEF F
      <4> QED
        BY <3>3, <3>7, <4>1
    <3> QED
      BY <3>8
  <2> QED
    BY <2>1, <2>2
<1>2. T \in Good
  <2> HIDE DEF Good
  <2> QED
    BY <1>1, SubsetInduction
<1> QED
  BY <1>2

\* A table v of numbers with the rows S and the columns T, and its sums.
IntTable(v, S, T) == \A x \in S, y \in T : v[x][y] \in Int

RowSums(h, v, S, T) == \A x \in S : h[x] = SumFunctionOnSet(v[x], T)

ColumnSums(h, v, S, T) ==
  \A y \in T : h[y] = SumFunctionOnSet([x \in S |-> v[x][y]], S)

\* A table summed by its rows and by its columns.
LEMMA SumSwap ==
  ASSUME NEW S, NEW T, IsFiniteSet(S), IsFiniteSet(T), NEW v, IntTable(v, S, T),
         NEW byRow, RowSums(byRow, v, S, T), NEW byColumn, ColumnSums(byColumn, v, S, T)
  PROVE  SumFunctionOnSet(byRow, S) = SumFunctionOnSet(byColumn, T)
<1>0. /\ \A x \in S, y \in T : v[x][y] \in Int
      /\ \A x \in S : byRow[x] = SumFunctionOnSet(v[x], T)
      /\ \A y \in T : byColumn[y] = SumFunctionOnSet([x \in S |-> v[x][y]], S)
  BY Zenon DEF IntTable, RowSums, ColumnSums
<1> DEFINE column(U, y) == SumFunctionOnSet([x \in U |-> v[x][y]], U)
           columns(U) == [y \in T |-> column(U, y)]
           Good == {U \in SUBSET S :
                      SumFunctionOnSet(byRow, U) = SumFunctionOnSet(columns(U), T)}
<1>1. ASSUME NEW V \in SUBSET S, \A U \in SUBSET V : U # V => U \in Good
      PROVE  V \in Good
  <2>1. CASE V = {}
    <3>1. \A y \in T : columns(V)[y] = 0
      BY <2>1, SumEmpty
    <3>2. SumFunctionOnSet(columns(V), T) = 0
      <4> HIDE DEF columns
      <4> QED
        BY <3>1, SumZero
    <3> QED
      BY <2>1, <3>2, SumEmpty
  <2>2. CASE V # {}
    <3>1. PICK x \in V : TRUE
      BY <2>2
    <3>2. IsFiniteSet(V) /\ IsFiniteSet(V \ {x}) /\ V \ {x} \in SUBSET V /\ V \ {x} # V
      BY FS_Subset
    <3>3. \A z \in S : byRow[z] \in Int
      BY <1>0, SumInt
    <3>4. SumFunctionOnSet(byRow, V) = byRow[x] + SumFunctionOnSet(byRow, V \ {x})
      BY <3>2, <3>3, SumRemove
    <3>5. \A y \in T : /\ column(V \ {x}, y) \in Int
                       /\ column(V, y) = v[x][y] + column(V \ {x}, y)
      <4> SUFFICES ASSUME NEW y \in T
                   PROVE  /\ column(V \ {x}, y) \in Int
                          /\ column(V, y) = v[x][y] + column(V \ {x}, y)
        OBVIOUS
      <4> DEFINE all == [z \in V |-> v[z][y]]
                 left == [z \in V \ {x} |-> v[z][y]]
      <4>1. /\ \A z \in V : all[z] \in Int
            /\ \A z \in V \ {x} : left[z] \in Int /\ all[z] = left[z]
            /\ all[x] = v[x][y]
        BY <1>0
      <4> HIDE DEF all, left
      <4>2. SumFunctionOnSet(all, V) = all[x] + SumFunctionOnSet(all, V \ {x})
        BY <3>2, <4>1, SumRemove
      <4>3. SumFunctionOnSet(all, V \ {x}) = SumFunctionOnSet(left, V \ {x})
        BY <3>2, <4>1, SumEqual
      <4>4. SumFunctionOnSet(left, V \ {x}) \in Int
        BY <3>2, <4>1, SumInt
      <4> QED
        BY <4>1, <4>2, <4>3, <4>4 DEF all, left
    <3>6. \A y \in T : /\ v[x][y] \in Int /\ columns(V \ {x})[y] \in Int
                       /\ columns(V)[y] = v[x][y] + columns(V \ {x})[y]
      <4> HIDE DEF column
      <4> QED
        BY <1>0, <3>5
    <3>7. SumFunctionOnSet(columns(V), T)
            = SumFunctionOnSet(v[x], T) + SumFunctionOnSet(columns(V \ {x}), T)
      <4> DEFINE h == columns(V)
                 g == columns(V \ {x})
                 f == v[x]
      <4>1. \A y \in T : f[y] \in Int /\ g[y] \in Int /\ h[y] = f[y] + g[y]
        BY <3>6
      <4> HIDE DEF f, g, h
      <4>2. SumFunctionOnSet(h, T) = SumFunctionOnSet(f, T) + SumFunctionOnSet(g, T)
        BY <4>1, SumPlus
      <4> QED
        BY <4>2 DEF f, g, h
    <3>8. SumFunctionOnSet(byRow, V \ {x}) = SumFunctionOnSet(columns(V \ {x}), T)
      BY <1>1, <3>2
    <3> QED
      BY <1>0, <3>4, <3>7, <3>8
  <2> QED
    BY <2>1, <2>2
<1>2. S \in Good
  <2> HIDE DEF Good
  <2> QED
    BY <1>1, SubsetInduction
<1>3. SumFunctionOnSet(columns(S), T) = SumFunctionOnSet(byColumn, T)
  <2>1. \A y \in T : columns(S)[y] = byColumn[y]
    BY <1>0
  <2> HIDE DEF columns
  <2> QED
    BY <2>1, SumEqual
<1> QED
  BY <1>2, <1>3

\* The sums of f over the groups of S: m says which group an element belongs to.
GroupSums(g, f, S, m, I) ==
  \A i \in I : g[i] = SumFunctionOnSet(f, {x \in S : m[x] = i})

LEMMA SumInGroups ==
  ASSUME NEW f, NEW S, IsFiniteSet(S), \A x \in S : f[x] \in Int,
         NEW m, NEW I, IsFiniteSet(I), \A x \in S : m[x] \in I,
         NEW g, GroupSums(g, f, S, m, I)
  PROVE  SumFunctionOnSet(f, S) = SumFunctionOnSet(g, I)
<1> DEFINE v == [x \in S |-> [i \in I |-> IF m[x] = i THEN f[x] ELSE 0]]
<1>1. \A x \in S, i \in I : v[x][i] \in Int
  OBVIOUS
<1>2. \A x \in S : f[x] = SumFunctionOnSet(v[x], I)
  <2> SUFFICES ASSUME NEW x \in S PROVE f[x] = SumFunctionOnSet(v[x], I)
    OBVIOUS
  <2>1. /\ \A i \in I : v[x][i] \in Int
        /\ \A i \in I \ {m[x]} : v[x][i] = 0
        /\ v[x][m[x]] = f[x] /\ f[x] \in Int /\ {m[x]} \subseteq I
    OBVIOUS
  <2> HIDE DEF v
  <2>2. SumFunctionOnSet(v[x], I) = SumFunctionOnSet(v[x], {m[x]})
    BY <2>1, SumIgnore
  <2> QED
    BY <2>1, <2>2, SumSingle
<1>3. \A i \in I : g[i] = SumFunctionOnSet([x \in S |-> v[x][i]], S)
  <2> SUFFICES ASSUME NEW i \in I PROVE g[i] = SumFunctionOnSet([x \in S |-> v[x][i]], S)
    OBVIOUS
  <2> DEFINE T == {x \in S : m[x] = i}
             h == [x \in S |-> v[x][i]]
  <2>1. /\ \A x \in S : h[x] \in Int
        /\ \A x \in S \ T : h[x] = 0
        /\ \A x \in T : h[x] = f[x]
        /\ T \subseteq S
    OBVIOUS
  <2>2. IsFiniteSet(T)
    BY FS_Subset
  <2>3. g[i] = SumFunctionOnSet(f, T)
    BY Zenon DEF GroupSums
  <2> HIDE DEF h, T
  <2>4. SumFunctionOnSet(h, S) = SumFunctionOnSet(h, T)
    BY <2>1, SumIgnore
  <2>5. SumFunctionOnSet(h, T) = SumFunctionOnSet(f, T)
    BY <2>1, <2>2, SumEqual
  <2> QED
    BY <2>3, <2>4, <2>5 DEF h
<1>4. IntTable(v, S, I) /\ RowSums(f, v, S, I) /\ ColumnSums(g, v, S, I)
  <2> HIDE DEF v
  <2> QED
    BY <1>1, <1>2, <1>3, Zenon DEF IntTable, RowSums, ColumnSums
<1> HIDE DEF v
<1> QED
  BY <1>4, SumSwap

LEMMA SumGrown ==
  ASSUME NEW S, IsFiniteSet(S), NEW d, d \notin S, NEW f, NEW g,
         \A x \in S : f[x] \in Int /\ g[x] = f[x], g[d] \in Int
  PROVE  SumFunctionOnSet(g, S \cup {d}) = SumFunctionOnSet(f, S) + g[d]
<1>1. SumFunctionOnSet(g, S) = SumFunctionOnSet(f, S)
  BY SumEqual
<1>2. \A x \in S \cup {d} : g[x] \in Int
  OBVIOUS
<1>3. SumFunctionOnSet(g, S \cup {d}) = SumFunctionOnSet(g, S) + g[d]
  BY <1>2, SumAdd
<1> QED
  BY <1>1, <1>3

LEMMA SumBelow ==
  ASSUME NEW f, NEW g, NEW S, IsFiniteSet(S),
         \A x \in S : f[x] \in Int /\ g[x] \in Int /\ f[x] <= g[x]
  PROVE  SumFunctionOnSet(f, S) <= SumFunctionOnSet(g, S)
<1> DEFINE h == [x \in S |-> g[x] - f[x]]
<1>1. \A x \in S : h[x] \in Nat /\ h[x] = g[x] - f[x]
  OBVIOUS
<1> HIDE DEF h
<1>2. SumFunctionOnSet(h, S) = SumFunctionOnSet(g, S) - SumFunctionOnSet(f, S)
  BY <1>1, SumDifference
<1>3. SumFunctionOnSet(h, {}) <= SumFunctionOnSet(h, S)
  BY <1>1, SumMonotone
<1>4. SumFunctionOnSet(h, {}) = 0
  BY SumEmpty
<1>5. SumFunctionOnSet(f, S) \in Int /\ SumFunctionOnSet(g, S) \in Int
  BY SumInt
<1> QED
  BY <1>2, <1>3, <1>4, <1>5

LEMMA ImageFinite ==
  ASSUME NEW S, IsFiniteSet(S), NEW m
  PROVE  IsFiniteSet({m[x] : x \in S})
<1> DEFINE T == {m[x] : x \in S}
           f == [x \in S |-> m[x]]
<1>1. f \in Surjection(S, T)
  BY DEF Surjection
<1> HIDE DEF f, T
<1>2. IsFiniteSet(T)
  BY <1>1, FS_Surjection
<1> QED
  BY <1>2 DEF T

LEMMA BelowFinite ==
  ASSUME NEW n \in Nat \ {0}, NEW S, S \subseteq 1..(n - 1)
  PROVE  IsFiniteSet(S)
<1>1. n - 1 \in Int
  OBVIOUS
<1>2. IsFiniteSet(1..(n - 1))
  BY <1>1, FS_Interval
<1> QED
  BY <1>2, FS_Subset

\* A finite set ordered by R has a last element.
LEMMA LastExists ==
  ASSUME NEW S, IsFiniteSet(S), S # {}, NEW R,
         \A x, y \in S : x = y \/ <<x, y>> \in R \/ <<y, x>> \in R,
         \A x, y, z \in S : <<x, y>> \in R /\ <<y, z>> \in R => <<x, z>> \in R
  PROVE  \E x \in S : \A y \in S : y = x \/ <<y, x>> \in R
<1> DEFINE Last(T, x) == \A y \in T : y = x \/ <<y, x>> \in R
           Good == {T \in SUBSET S : T # {} => \E x \in T : Last(T, x)}
<1>1. ASSUME NEW T \in SUBSET S, \A U \in SUBSET T : U # T => U \in Good
      PROVE  T \in Good
  <2> SUFFICES ASSUME T # {} PROVE \E x \in T : Last(T, x)
    OBVIOUS
  <2>1. PICK z \in T : TRUE
    OBVIOUS
  <2>2. CASE T = {z}
    BY <2>2
  <2>3. CASE T # {z}
    <3>1. T \ {z} # {} /\ T \ {z} \in SUBSET T /\ T \ {z} # T
      BY <2>1, <2>3
    <3>2. PICK x \in T \ {z} : Last(T \ {z}, x)
      BY <1>1, <3>1
    <3>3. CASE <<z, x>> \in R
      BY <3>2, <3>3
    <3>4. CASE <<x, z>> \in R
      <4>1. Last(T, z)
        BY <3>2, <3>4
      <4> QED
        BY <2>1, <4>1
    <3> QED
      BY <3>2, <3>3, <3>4
  <2> QED
    BY <2>2, <2>3
<1>2. S \in Good
  <2> HIDE DEF Good
  <2> QED
    BY <1>1, SubsetInduction
<1> QED
  BY <1>2

\* One of finitely many has the least number.
LEMMA LeastExists ==
  ASSUME NEW S, IsFiniteSet(S), S # {}, NEW n, \A x \in S : n[x] \in Int
  PROVE  \E least \in S : \A x \in S : n[least] <= n[x]
<1> DEFINE Good == {T \in SUBSET S : T # {} => \E least \in T : \A x \in T : n[least] <= n[x]}
<1>1. ASSUME NEW T \in SUBSET S, \A U \in SUBSET T : U # T => U \in Good
      PROVE  T \in Good
  <2> SUFFICES ASSUME T # {} PROVE \E least \in T : \A x \in T : n[least] <= n[x]
    OBVIOUS
  <2>1. Pick(T) \in T /\ Rest(T) \subseteq T /\ Rest(T) # T
    BY RestSmaller
  <2>2. \A x \in T : x = Pick(T) \/ x \in Rest(T)
    BY DEF Rest
  <2>3. CASE Rest(T) = {}
    BY <2>1, <2>2, <2>3
  <2>4. CASE Rest(T) # {}
    <3>1. PICK y \in Rest(T) : \A x \in Rest(T) : n[y] <= n[x]
      BY <1>1, <2>1, <2>4
    <3>2. n[y] \in Int /\ n[Pick(T)] \in Int /\ \A x \in T : n[x] \in Int
      BY <2>1
    <3>3. CASE n[y] <= n[Pick(T)]
      BY <2>1, <2>2, <3>1, <3>3
    <3>4. CASE n[Pick(T)] <= n[y]
      BY <2>1, <2>2, <3>1, <3>2, <3>4
    <3>5. QED
      BY <3>2, <3>3, <3>4
  <2>5. QED
    BY <2>3, <2>4
<1>2. S \in Good
  <2> HIDE DEF Good
  <2> QED
    BY <1>1, SubsetInduction
<1>3. QED
  BY <1>2

-----------------------------------------------------------------------------
(* Sequences *)

LEMMA FunctionAsSequence ==
  ASSUME NEW S, NEW len \in Nat, NEW f \in [1..len -> S]
  PROVE  f \in Seq(S) /\ Len(f) = len
OBVIOUS

\* A sequence with one more element is the old one with it appended.
LEMMA OneLonger ==
  ASSUME NEW len \in Nat, NEW old, NEW new, NEW x,
         old = [n \in 1..len |-> old[n]],
         new = [n \in 1..(len + 1) |-> new[n]],
         \A n \in 1..len : new[n] = old[n],
         new[len + 1] = x
  PROVE  new = Append(old, x)
<1> DEFINE S == {new[n] : n \in 1..(len + 1)}
<1>1. \A n \in 1..len : old[n] \in S
  <2> SUFFICES ASSUME NEW n \in 1..len PROVE old[n] \in S
    OBVIOUS
  <2>1. n \in 1..(len + 1)
    OBVIOUS
  <2> QED
    BY <2>1
<1>2. \A n \in 1..(len + 1) : new[n] \in S
  OBVIOUS
<1>3. x \in S
  <2>1. len + 1 \in 1..(len + 1)
    OBVIOUS
  <2> QED
    BY <2>1
<1> HIDE DEF S
<1>4. old \in Seq(S) /\ Len(old) = len
  <2>1. old \in [1..len -> S]
    BY <1>1
  <2> QED
    BY <2>1, FunctionAsSequence
<1>5. new \in Seq(S) /\ Len(new) = len + 1
  <2>1. new \in [1..(len + 1) -> S] /\ len + 1 \in Nat
    BY <1>2
  <2> QED
    BY <2>1, FunctionAsSequence
<1>6. /\ Append(old, x) \in Seq(S) /\ Len(Append(old, x)) = len + 1
      /\ \A i \in 1..len : Append(old, x)[i] = old[i]
      /\ Append(old, x)[len + 1] = x
  BY <1>3, <1>4, AppendProperties
<1>7. \A i \in 1..(len + 1) : new[i] = Append(old, x)[i]
  <2> SUFFICES ASSUME NEW i \in 1..(len + 1) PROVE new[i] = Append(old, x)[i]
    OBVIOUS
  <2>1. CASE i \in 1..len
    BY <1>6, <2>1
  <2>2. CASE i = len + 1
    BY <1>6, <2>2
  <2> QED
    BY <2>1, <2>2
<1> QED
  BY <1>5, <1>6, <1>7, SeqEqual

\* Induction over an interval, for a set of numbers.
LEMMA IntervalInduction ==
  ASSUME NEW len \in Nat, NEW Good, 0 \in Good,
         \A n \in 1..len : n - 1 \in Good => n \in Good
  PROVE  \A n \in 0..len : n \in Good
<1> SUFFICES ASSUME {n \in 0..len : n \notin Good} # {} PROVE FALSE
  OBVIOUS
<1> DEFINE Bad == {n \in 0..len : n \notin Good}
           number == [n \in Bad |-> n]
<1>1. IsFiniteSet(Bad) /\ Bad # {}
  <2>1. IsFiniteSet(0..len)
    BY FS_Interval
  <2>2. Bad \subseteq 0..len /\ Bad # {}
    OBVIOUS
  <2> HIDE DEF Bad
  <2> QED
    BY <2>1, <2>2, FS_Subset
<1>2. \A n \in Bad : number[n] \in Int
  OBVIOUS
<1>3. PICK m \in Bad : \A n \in Bad : number[m] <= number[n]
  <2> HIDE DEF Bad, number
  <2> QED
    BY <1>1, <1>2, LeastExists
<1>4. m \in 1..len /\ m - 1 \in 0..len /\ m - 1 \notin Bad
  BY <1>3
<1> QED
  BY <1>3, <1>4

-----------------------------------------------------------------------------
(* The arithmetic of the average cost: its types, and what one rounding can lose *)

Positive == Nat \ {0}

LEMMA Division ==
  ASSUME NEW a \in Int, NEW b \in Positive
  PROVE  /\ a \div b \in Int
         /\ b * (a \div b) <= a
         /\ a < b * (a \div b) + b
<1>1. a \div b \in Int
  BY DEF Positive
<1>2. a = b * (a \div b) + (a % b) /\ a % b \in 0..(b - 1)
  BY DEF Positive
<1>3. b * (a \div b) \in Int
  BY <1>1 DEF Positive
<1> QED
  BY <1>1, <1>2, <1>3 DEF Positive

\* Rounding to the nearest integer, ties to even, is off by at most one half.
LEMMA RoundHalfEvenNearest ==
  ASSUME NEW a \in Int, NEW b \in Positive
  PROVE  /\ RoundHalfEven(a, b) \in Int
         /\ 2 * (b * RoundHalfEven(a, b) - a) <= b
         /\ 2 * (a - b * RoundHalfEven(a, b)) <= b
<1> DEFINE floor == a \div b
           twice == 2 * (a - b * floor)
           up    == twice > b \/ (twice = b /\ floor % 2 = 1)
<1>1. floor \in Int /\ b * floor <= a /\ a < b * floor + b
  BY Division
<1>2. RoundHalfEven(a, b) = IF up THEN floor + 1 ELSE floor
  BY DEF RoundHalfEven
<1> HIDE DEF floor
<1>3. b * (floor + 1) = b * floor + b
  BY <1>1 DEF Positive
<1>4. CASE up
  <2>1. twice >= b
    BY <1>4, <1>1 DEF Positive
  <2> QED
    BY <1>1, <1>2, <1>3, <1>4, <2>1 DEF Positive
<1>5. CASE ~up
  <2>1. twice <= b
    <3> HIDE DEF twice
    <3>1. twice \in Int
      BY <1>1 DEF twice, Positive
    <3> QED
      BY <1>5, <3>1, <1>1 DEF Positive
  <2> QED
    BY <1>1, <1>2, <1>5, <2>1 DEF Positive
<1> QED
  BY <1>4, <1>5

LEMMA DivisionComesOut ==
  ASSUME NEW a \in Int, NEW b \in Positive, a % b = 0
  PROVE  b * RoundHalfEven(a, b) = a
<1> DEFINE floor == a \div b
<1>1. floor \in Int
  BY DEF Positive
<1>2. a = b * floor
  BY DEF Positive
<1>3. ~(2 * (a - b * floor) > b \/ (2 * (a - b * floor) = b /\ floor % 2 = 1))
  <2> HIDE DEF floor
  <2>1. a - b * floor = 0
    BY <1>2
  <2> QED
    BY <2>1 DEF Positive
<1>4. RoundHalfEven(a, b) = floor
  BY <1>3 DEF RoundHalfEven
<1> QED
  BY <1>2, <1>4

LEMMA AverageAfterBuyType ==
  ASSUME NEW pos \in Position, NEW quantity \in Positive, NEW price \in Positive
  PROVE  AverageAfterBuy(pos, quantity, price) \in Int
<1> DEFINE newQty == pos.quantity + quantity
           value  == pos.quantity * pos.avg + quantity * price
<1>1. pos.quantity \in Int /\ pos.avg \in Int
  BY DEF Position
<1>2. newQty \in Int /\ value \in Int
  BY <1>1 DEF Positive
<1>3. newQty > 0 => RoundHalfEven(value, newQty) \in Int
  <2> HIDE DEF newQty, value
  <2> QED
    BY <1>2, RoundHalfEvenNearest DEF Positive
<1> QED
  BY <1>1, <1>2, <1>3 DEF AverageAfterBuy, Positive

LEMMA ApplyInventoryType ==
  ASSUME NEW side \in Sides, NEW pos \in Position,
         NEW quantity \in Positive, NEW price \in Positive
  PROVE  /\ ApplyInventory(side, pos, quantity, price).position \in Position
         /\ ApplyInventory(side, pos, quantity, price).cost \in Int
         /\ ApplyInventory(side, pos, quantity, price).realized \in Int
<1>1. AverageAfterBuy(pos, quantity, price) \in Int
  BY AverageAfterBuyType
<1>2. pos.quantity \in Int /\ pos.avg \in Int
  BY DEF Position
<1> QED
  BY <1>1, <1>2 DEF ApplyInventory, Position, Positive, Sides, BUY, SELL

LEMMA ReverseInventoryType ==
  ASSUME NEW pos \in Position, NEW deal,
         deal.side \in Sides, deal.quantity \in Positive, deal.price \in Positive,
         deal.cost \in Int
  PROVE  ReverseInventory(pos, deal) \in Position
<1> DEFINE newQty == pos.quantity - deal.quantity
           value  == pos.quantity * pos.avg - deal.quantity * deal.price
<1>1. pos.quantity \in Int /\ pos.avg \in Int
  BY DEF Position
<1>2. newQty \in Int /\ value \in Int
  BY <1>1 DEF Positive
<1>3. newQty > 0 => RoundHalfEven(value, newQty) \in Int
  <2> HIDE DEF newQty, value
  <2> QED
    BY <1>2, RoundHalfEvenNearest DEF Positive
<1>4. AverageAfterUnbuy(pos, deal) \in Int
  BY <1>2, <1>3 DEF AverageAfterUnbuy
<1> QED
  BY <1>1, <1>2, <1>4 DEF ReverseInventory, Position, Positive
=============================================================================
