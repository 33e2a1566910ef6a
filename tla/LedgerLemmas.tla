---------------------------- MODULE LedgerLemmas ----------------------------
(***************************************************************************)
(* Facts that the proofs about all pallets share.  Sums of a function over *)
(* a finite set, SumFunctionOnSet of the module Functions: what adding,    *)
(* removing or changing one summand does to them.  Proportions: the types  *)
(* of Perbill's operators, and by how much the shares of an amount exceed  *)
(* it when each is rounded.  Ledgers: what the operations of Currency do   *)
(* to every account and to the tokens in all of them.  Induction is by a   *)
(* smallest counterexample, with the property given as a set.              *)
(***************************************************************************)
EXTENDS Functions, FiniteSetTheorems, WellFoundedInduction, Currency,
        Perbill, TLAPS

(* Every non-empty set of natural numbers has a least element.  It stands  *)
(* in for induction over the length of a vector.                           *)
LEMMA LeastNatural ==
  ASSUME NEW T, T \subseteq Nat, T # {}
  PROVE  \E n \in T : \A m \in T : n <= m
<1>1. \E x \in T : \A y \in T : ~(<<y, x>> \in OpToRel(<, Nat))
  BY NatLessThanWellFounded, WFMin
<1>2. PICK x \in T : \A y \in T : ~(<<y, x>> \in OpToRel(<, Nat))
  BY <1>1
<1>3. \A y \in T : ~(y < x)
  BY <1>2 DEF OpToRel
<1> QED
  BY <1>3

(* Induction over the numbers up to N.                                     *)
LEMMA UpToInduction ==
  ASSUME NEW N \in Nat, NEW Good,
         0 \in Good,
         \A n \in 0..(N - 1) : n \in Good => n + 1 \in Good
  PROVE  \A n \in 0..N : n \in Good
<1> DEFINE Bad == {n \in 0..N : n \notin Good}
<1>1. SUFFICES ASSUME Bad # {} PROVE FALSE
  OBVIOUS
<1>2. PICK n \in Bad : \A m \in Bad : n <= m
  <2>1. Bad \subseteq Nat
    OBVIOUS
  <2> HIDE DEF Bad
  <2> QED
    BY <1>1, <2>1, LeastNatural
<1>3. n # 0 /\ n - 1 \in 0..(N - 1)
  BY <1>2
<1>4. n - 1 \notin Bad
  BY <1>2, <1>3
<1>5. n - 1 \in Good
  BY <1>3, <1>4
<1>6. (n - 1) + 1 \in Good
  BY <1>3, <1>5
<1> QED
  BY <1>2, <1>3, <1>6

(* Induction over the subsets of a finite set: what holds of a set if it   *)
(* holds of the set without any one of its elements holds of all.          *)
LEMMA SubsetInduction ==
  ASSUME NEW S, IsFiniteSet(S), NEW Good,
         {} \in Good,
         \A T \in SUBSET S :
           T # {} /\ (\A x \in T : T \ {x} \in Good) => T \in Good
  PROVE  \A T \in SUBSET S : T \in Good
<1> DEFINE Bad == {T \in SUBSET S : T \notin Good}
           Sizes == {Cardinality(T) : T \in Bad}
<1>1. SUFFICES ASSUME Bad # {} PROVE FALSE
  OBVIOUS
<1>2. \A T \in SUBSET S : IsFiniteSet(T) /\ Cardinality(T) \in Nat
  BY FS_Subset, FS_CardinalityType
<1>3. Sizes \subseteq Nat /\ Sizes # {}
  BY <1>1, <1>2
<1>4. PICK n \in Sizes : \A m \in Sizes : n <= m
  <2> HIDE DEF Sizes
  <2> QED
    BY <1>3, LeastNatural
<1>5. PICK T \in Bad : Cardinality(T) = n
  BY <1>4
<1>6. T # {}
  BY <1>5
<1>7. \A x \in T : T \ {x} \in Good
  <2> TAKE x \in T
  <2>1. T \ {x} \in SUBSET S /\ Cardinality(T \ {x}) = n - 1
    BY <1>2, <1>5, FS_RemoveElement
  <2>2. n - 1 \notin Sizes
    <3> HIDE DEF Sizes
    <3> QED
      BY <1>3, <1>4
  <2> QED
    BY <2>1, <2>2
<1> QED
  BY <1>5, <1>6, <1>7

----------------------------------------------------------------------------
(* The element with which a sum starts, and the equation of the partial    *)
(* sums over the subsets of a set.                                         *)

First(s) == CHOOSE x \in s : TRUE

PartialSums(fun, D, g) ==
  g = [s \in D |-> IF s = {} THEN 0 ELSE fun[First(s)] + g[s \ {First(s)}]]

LEMMA FirstIn == \A s : s # {} => First(s) \in s
BY DEF First

(* The definition of the sum.                                              *)
LEMMA SumDef ==
  ASSUME NEW fun, NEW S
  PROVE  SumFunctionOnSet(fun, S) = (CHOOSE g : PartialSums(fun, SUBSET S, g))[S]
BY DEF SumFunctionOnSet, FoldFunctionOnSet, MapThenFoldSet, PartialSums, First

(* The partial sums over the subsets of up to n elements exist, for all n. *)
LEMMA PartialSumsExist ==
  ASSUME NEW fun, NEW S, IsFiniteSet(S)
  PROVE  \E g : PartialSums(fun, SUBSET S, g)
<1> DEFINE N == Cardinality(S)
           D(k) == {s \in SUBSET S : Cardinality(s) <= k}
           Good == {i \in 0..N : \E g : PartialSums(fun, D(i), g)}
<1>1. \A s \in SUBSET S : IsFiniteSet(s) /\ Cardinality(s) \in 0..N
  BY FS_Subset, FS_CardinalityType
<1>2. N \in Nat
  BY FS_CardinalityType
<1>3. \A n \in 0..N : \A s \in D(n) : s # {} => s \ {First(s)} \in D(n)
  <2> TAKE n \in 0..N
  <2> TAKE s \in D(n)
  <2>1. ASSUME s # {} PROVE s \ {First(s)} \in D(n)
    <3>1. s \ {First(s)} \in SUBSET S /\ Cardinality(s \ {First(s)}) = Cardinality(s) - 1
      BY <2>1, <1>1, FirstIn, FS_RemoveElement
    <3> QED
      BY <3>1, <1>1, <1>2
  <2> QED
    BY <2>1
<1>4. 0 \in Good
  <2>1. D(0) = {{}}
    BY <1>1, FS_EmptySet
  <2> DEFINE g == [s \in D(0) |-> 0]
  <2>2. PartialSums(fun, D(0), g)
    BY <2>1 DEF PartialSums
  <2>3. \E f : PartialSums(fun, D(0), f)
    BY <2>2
  <2> HIDE DEF D, N
  <2> QED
    BY <2>3, <1>2
<1>5. ASSUME NEW n \in 0..(N - 1), n \in Good PROVE n + 1 \in Good
  <2>1. PICK g : PartialSums(fun, D(n), g)
    BY <1>5
  <2>2. n \in 0..N /\ n + 1 \in 0..N
    BY <1>2
  <2> DEFINE h == [s \in D(n + 1) |->
                     IF s = {} THEN 0 ELSE fun[First(s)] + g[s \ {First(s)}]]
  <2>3. \A s \in D(n) : h[s] = g[s]
    <3> TAKE s \in D(n)
    <3>1. s \in D(n + 1)
      BY <1>1, <1>2, <2>2
    <3>2. h[s] = IF s = {} THEN 0 ELSE fun[First(s)] + g[s \ {First(s)}]
      BY <3>1
    <3>3. g[s] = IF s = {} THEN 0 ELSE fun[First(s)] + g[s \ {First(s)}]
      <4> HIDE DEF D
      <4> QED
        BY <2>1 DEF PartialSums
    <3> QED
      BY <3>2, <3>3
  <2>4. \A s \in D(n + 1) : s # {} => s \ {First(s)} \in D(n)
    <3> TAKE s \in D(n + 1)
    <3>1. ASSUME s # {} PROVE s \ {First(s)} \in D(n)
      <4>1. s \ {First(s)} \in SUBSET S /\ Cardinality(s \ {First(s)}) = Cardinality(s) - 1
        BY <3>1, <1>1, FirstIn, FS_RemoveElement
      <4>2. Cardinality(s) \in Nat /\ Cardinality(s) <= n + 1
        BY <1>1
      <4> QED
        BY <4>1, <4>2, <2>2
    <3> QED
      BY <3>1
  <2>5. PartialSums(fun, D(n + 1), h)
    <3>1. \A s \in D(n + 1) :
            h[s] = IF s = {} THEN 0 ELSE fun[First(s)] + h[s \ {First(s)}]
      <4> TAKE s \in D(n + 1)
      <4>1. CASE s = {}
        BY <4>1
      <4>2. CASE s # {}
        <5>1. h[s] = fun[First(s)] + g[s \ {First(s)}]
          BY <4>2
        <5>2. h[s \ {First(s)}] = g[s \ {First(s)}]
          <6> HIDE DEF h, D
          <6> QED
            BY <4>2, <2>3, <2>4
        <5> QED
          BY <4>2, <5>1, <5>2
      <4> QED
        BY <4>1, <4>2
    <3> QED
      BY <3>1 DEF PartialSums
  <2> QED
    BY <2>2, <2>5
<1>6. N \in Good
  <2> HIDE DEF Good, N
  <2> QED
    BY <1>2, <1>4, <1>5, UpToInduction
<1>7. D(N) = SUBSET S
  BY <1>1
<1> QED
  BY <1>6, <1>7

(* What the equation of the partial sums says of one subset.               *)
SumsAt(fun, g, u) ==
  g[u] = IF u = {} THEN 0 ELSE fun[First(u)] + g[u \ {First(u)}]

(* Two functions with the partial sums over a set agree.                   *)
LEMMA PartialSumsUnique ==
  ASSUME NEW fun, NEW T, IsFiniteSet(T), NEW g, NEW h,
         \A u \in SUBSET T : SumsAt(fun, g, u),
         \A u \in SUBSET T : SumsAt(fun, h, u)
  PROVE  g[T] = h[T]
<1> DEFINE Good == {u \in SUBSET T : g[u] = h[u]}
<1>2. {} \in Good
  BY DEF SumsAt
<1>3. \A u \in SUBSET T : u # {} /\ (\A x \in u : u \ {x} \in Good) => u \in Good
  <2> TAKE u \in SUBSET T
  <2>1. ASSUME u # {}, \A x \in u : u \ {x} \in Good PROVE u \in Good
    <3>1. First(u) \in u
      BY <2>1, FirstIn
    <3>2. g[u \ {First(u)}] = h[u \ {First(u)}]
      BY <2>1, <3>1
    <3>3. g[u] = fun[First(u)] + g[u \ {First(u)}]
      BY <2>1 DEF SumsAt
    <3>4. h[u] = fun[First(u)] + h[u \ {First(u)}]
      BY <2>1 DEF SumsAt
    <3> QED
      BY <3>2, <3>3, <3>4
  <2> QED
    BY <2>1
<1>4. T \in Good
  <2> HIDE DEF Good
  <2> QED
    BY <1>2, <1>3, SubsetInduction, ZenonT(60)
<1> QED
  BY <1>4

(* The sum as a recursion over its first element.                          *)
LEMMA SumFirst ==
  ASSUME NEW fun, NEW S, IsFiniteSet(S)
  PROVE  SumFunctionOnSet(fun, S) =
           IF S = {} THEN 0
           ELSE fun[First(S)] + SumFunctionOnSet(fun, S \ {First(S)})
<1> DEFINE G(T) == CHOOSE g : PartialSums(fun, SUBSET T, g)
<1>1. \A T \in SUBSET S : PartialSums(fun, SUBSET T, G(T))
  <2> TAKE T \in SUBSET S
  <2>1. IsFiniteSet(T)
    BY FS_Subset
  <2>2. \E g : PartialSums(fun, SUBSET T, g)
    BY <2>1, PartialSumsExist
  <2> QED
    BY <2>2
<1>2. \A T : SumFunctionOnSet(fun, T) = G(T)[T]
  BY SumDef
<1> HIDE DEF G
<1>3. G(S)[S] = IF S = {} THEN 0 ELSE fun[First(S)] + G(S)[S \ {First(S)}]
  <2>1. PartialSums(fun, SUBSET S, G(S))
    BY <1>1
  <2> QED
    BY <2>1 DEF PartialSums
<1> DEFINE T == S \ {First(S)}
           g == G(S)
           h == G(T)
<1>4. /\ IsFiniteSet(T)
      /\ \A u \in SUBSET T : SumsAt(fun, g, u) /\ SumsAt(fun, h, u)
  <2>1. IsFiniteSet(T)
    BY FS_Subset
  <2>2. PartialSums(fun, SUBSET S, g) /\ PartialSums(fun, SUBSET T, h)
    BY <1>1
  <2> QED
    BY <2>1, <2>2 DEF PartialSums, SumsAt
<1>5. g[T] = h[T]
  <2> HIDE DEF T, g, h
  <2> QED
    BY <1>4, PartialSumsUnique
<1> QED
  BY <1>2, <1>3, <1>5

----------------------------------------------------------------------------
(* The empty sum.                                                          *)
LEMMA SumEmpty == \A fun : SumFunctionOnSet(fun, {}) = 0
BY SumFirst, FS_EmptySet

(* A sum of integers is an integer.                                        *)
LEMMA SumType ==
  ASSUME NEW fun, NEW S, IsFiniteSet(S), \A x \in S : fun[x] \in Int
  PROVE  SumFunctionOnSet(fun, S) \in Int
<1> DEFINE Good == {T \in SUBSET S : SumFunctionOnSet(fun, T) \in Int}
<1>1. {} \in Good
  BY SumEmpty
<1>2. ASSUME NEW T \in SUBSET S, T # {}, \A x \in T : T \ {x} \in Good
      PROVE  T \in Good
  <2>1. First(T) \in T
    BY <1>2, FirstIn
  <2>2. SumFunctionOnSet(fun, T) = fun[First(T)] + SumFunctionOnSet(fun, T \ {First(T)})
    BY <1>2, SumFirst, FS_Subset
  <2> QED
    BY <1>2, <2>1, <2>2
<1>3. S \in Good
  <2> HIDE DEF Good
  <2>1. \A T \in SUBSET S : T # {} /\ (\A x \in T : T \ {x} \in Good) => T \in Good
    BY <1>2
  <2>2. \A T \in SUBSET S : T \in Good
    BY <1>1, <2>1, SubsetInduction, Zenon
  <2> QED
    BY <2>2
<1> QED
  BY <1>3

(* Any summand can be taken out of a sum of integers.                      *)
LEMMA SumRemove ==
  ASSUME NEW fun, NEW S, IsFiniteSet(S), \A x \in S : fun[x] \in Int, NEW x \in S
  PROVE  SumFunctionOnSet(fun, S) = fun[x] + SumFunctionOnSet(fun, S \ {x})
<1> DEFINE Sum(T) == SumFunctionOnSet(fun, T)
           Good == {T \in SUBSET S : \A y \in T : Sum(T) = fun[y] + Sum(T \ {y})}
<1>0. \A T \in SUBSET S : IsFiniteSet(T) /\ Sum(T) \in Int
  BY FS_Subset, SumType
<1>1. {} \in Good
  OBVIOUS
<1>2. ASSUME NEW T \in SUBSET S, T # {}, \A z \in T : T \ {z} \in Good
      PROVE  T \in Good
  <2> DEFINE c == First(T)
  <2>1. c \in T
    BY <1>2, FirstIn
  <2>2. Sum(T) = fun[c] + Sum(T \ {c})
    BY <1>0, <1>2, SumFirst
  <2>3. ASSUME NEW y \in T, y # c PROVE Sum(T) = fun[y] + Sum(T \ {y})
    <3> DEFINE rest == (T \ {c}) \ {y}
    <3>1. y \in T \ {c} /\ c \in T \ {y} /\ rest = (T \ {y}) \ {c}
      BY <2>1, <2>3
    <3>2. Sum(T \ {c}) = fun[y] + Sum(rest)
      BY <1>2, <2>1, <3>1
    <3>3. Sum(T \ {y}) = fun[c] + Sum(rest)
      BY <1>2, <3>1
    <3>4. fun[y] \in Int /\ fun[c] \in Int /\ Sum(rest) \in Int
      BY <1>0, <2>1
    <3> HIDE DEF Sum, c, rest
    <3> QED
      BY <2>2, <3>2, <3>3, <3>4
  <2> QED
    BY <2>2, <2>3
<1>3. S \in Good
  <2> HIDE DEF Good
  <2>1. \A T \in SUBSET S : T # {} /\ (\A z \in T : T \ {z} \in Good) => T \in Good
    BY <1>2
  <2>2. \A T \in SUBSET S : T \in Good
    BY <1>1, <2>1, SubsetInduction, Zenon
  <2> QED
    BY <2>2
<1> QED
  BY <1>3

(* One more summand.                                                       *)
LEMMA SumAdd ==
  ASSUME NEW fun, NEW S, IsFiniteSet(S), NEW x, x \notin S,
         \A y \in S \cup {x} : fun[y] \in Int
  PROVE  SumFunctionOnSet(fun, S \cup {x}) = fun[x] + SumFunctionOnSet(fun, S)
<1>1. IsFiniteSet(S \cup {x}) /\ (S \cup {x}) \ {x} = S
  BY FS_AddElement
<1> QED
  BY <1>1, SumRemove

(* A sum depends only on the summands.                                     *)
LEMMA SumEqual ==
  ASSUME NEW f, NEW g, NEW S, IsFiniteSet(S),
         \A x \in S : f[x] = g[x]
  PROVE  SumFunctionOnSet(f, S) = SumFunctionOnSet(g, S)
<1> DEFINE Good == {T \in SUBSET S : SumFunctionOnSet(f, T) = SumFunctionOnSet(g, T)}
<1>1. {} \in Good
  BY SumEmpty
<1>2. ASSUME NEW T \in SUBSET S, T # {}, \A x \in T : T \ {x} \in Good
      PROVE  T \in Good
  <2>1. First(T) \in T /\ IsFiniteSet(T)
    BY <1>2, FirstIn, FS_Subset
  <2>2. SumFunctionOnSet(f, T) = f[First(T)] + SumFunctionOnSet(f, T \ {First(T)})
    BY <1>2, <2>1, SumFirst
  <2>3. SumFunctionOnSet(g, T) = g[First(T)] + SumFunctionOnSet(g, T \ {First(T)})
    BY <1>2, <2>1, SumFirst
  <2>4. SumFunctionOnSet(f, T \ {First(T)}) = SumFunctionOnSet(g, T \ {First(T)})
    BY <1>2, <2>1
  <2>5. f[First(T)] = g[First(T)]
    BY <2>1
  <2> QED
    BY <2>2, <2>3, <2>4, <2>5
<1>3. S \in Good
  <2> HIDE DEF Good
  <2>1. \A T \in SUBSET S : T # {} /\ (\A x \in T : T \ {x} \in Good) => T \in Good
    BY <1>2
  <2>2. \A T \in SUBSET S : T \in Good
    BY <1>1, <2>1, SubsetInduction, Zenon
  <2> QED
    BY <2>2
<1> QED
  BY <1>3

(* One summand changes.                                                    *)
LEMMA SumChange ==
  ASSUME NEW f, NEW g, NEW S, IsFiniteSet(S), NEW x \in S,
         \A y \in S : f[y] \in Int,
         g[x] \in Int,
         \A y \in S : y # x => g[y] = f[y]
  PROVE  SumFunctionOnSet(g, S) = SumFunctionOnSet(f, S) - f[x] + g[x]
<1>1. IsFiniteSet(S \ {x})
  BY FS_Subset
<1>2. \A y \in S : g[y] \in Int
  OBVIOUS
<1>3. SumFunctionOnSet(g, S) = g[x] + SumFunctionOnSet(g, S \ {x})
  BY <1>2, SumRemove
<1>4. SumFunctionOnSet(f, S) = f[x] + SumFunctionOnSet(f, S \ {x})
  BY SumRemove
<1>5. SumFunctionOnSet(g, S \ {x}) = SumFunctionOnSet(f, S \ {x})
  BY <1>1, SumEqual
<1>6. SumFunctionOnSet(f, S \ {x}) \in Int
  BY <1>1, SumType
<1> QED
  BY <1>3, <1>4, <1>5, <1>6

(* A sum of natural numbers is one and bounds its summands.                *)
LEMMA SumNat ==
  ASSUME NEW fun, NEW S, IsFiniteSet(S), \A x \in S : fun[x] \in Nat
  PROVE  /\ SumFunctionOnSet(fun, S) \in Nat
         /\ \A x \in S : fun[x] <= SumFunctionOnSet(fun, S)
<1> DEFINE Good == {T \in SUBSET S : SumFunctionOnSet(fun, T) \in Nat}
<1>1. {} \in Good
  BY SumEmpty
<1>2. ASSUME NEW T \in SUBSET S, T # {}, \A x \in T : T \ {x} \in Good
      PROVE  T \in Good
  <2>1. First(T) \in T
    BY <1>2, FirstIn
  <2>2. SumFunctionOnSet(fun, T) = fun[First(T)] + SumFunctionOnSet(fun, T \ {First(T)})
    BY <1>2, SumFirst, FS_Subset
  <2> QED
    BY <1>2, <2>1, <2>2
<1>3. \A T \in SUBSET S : T \in Good
  <2> HIDE DEF Good
  <2>1. \A T \in SUBSET S : T # {} /\ (\A x \in T : T \ {x} \in Good) => T \in Good
    BY <1>2
  <2> QED
    BY <1>1, <2>1, SubsetInduction, Zenon
<1>4. ASSUME NEW x \in S PROVE fun[x] <= SumFunctionOnSet(fun, S)
  <2>1. SumFunctionOnSet(fun, S) = fun[x] + SumFunctionOnSet(fun, S \ {x})
    BY SumRemove
  <2>2. SumFunctionOnSet(fun, S \ {x}) \in Nat
    BY <1>3
  <2> QED
    BY <2>1, <2>2
<1> QED
  BY <1>3, <1>4

(* A sum without summands other than zero.                                 *)
LEMMA SumZero ==
  ASSUME NEW fun, NEW S, IsFiniteSet(S), \A x \in S : fun[x] = 0
  PROVE  SumFunctionOnSet(fun, S) = 0
<1> DEFINE Good == {T \in SUBSET S : SumFunctionOnSet(fun, T) = 0}
<1>1. {} \in Good
  BY SumEmpty
<1>2. ASSUME NEW T \in SUBSET S, T # {}, \A x \in T : T \ {x} \in Good
      PROVE  T \in Good
  <2>1. First(T) \in T
    BY <1>2, FirstIn
  <2>2. SumFunctionOnSet(fun, T) = fun[First(T)] + SumFunctionOnSet(fun, T \ {First(T)})
    BY <1>2, SumFirst, FS_Subset
  <2> QED
    BY <1>2, <2>1, <2>2
<1>3. \A T \in SUBSET S : T \in Good
  <2> HIDE DEF Good
  <2>1. \A T \in SUBSET S : T # {} /\ (\A x \in T : T \ {x} \in Good) => T \in Good
    BY <1>2
  <2> QED
    BY <1>1, <2>1, SubsetInduction, Zenon
<1> QED
  BY <1>3

(* A sum of sums.                                                          *)
LEMMA SumPlus ==
  ASSUME NEW f, NEW g, NEW h, NEW S, IsFiniteSet(S),
         \A x \in S : f[x] \in Int /\ g[x] \in Int /\ h[x] = f[x] + g[x]
  PROVE  SumFunctionOnSet(h, S) = SumFunctionOnSet(f, S) + SumFunctionOnSet(g, S)
<1> DEFINE Good == {T \in SUBSET S : SumFunctionOnSet(h, T) =
                      SumFunctionOnSet(f, T) + SumFunctionOnSet(g, T)}
<1>1. {} \in Good
  BY SumEmpty
<1>2. ASSUME NEW T \in SUBSET S, T # {}, \A x \in T : T \ {x} \in Good
      PROVE  T \in Good
  <2> DEFINE c == First(T)
             R == T \ {c}
  <2>1. c \in T /\ IsFiniteSet(T) /\ IsFiniteSet(R)
    BY <1>2, FirstIn, FS_Subset
  <2>2. /\ SumFunctionOnSet(f, T) = f[c] + SumFunctionOnSet(f, R)
        /\ SumFunctionOnSet(g, T) = g[c] + SumFunctionOnSet(g, R)
        /\ SumFunctionOnSet(h, T) = h[c] + SumFunctionOnSet(h, R)
    BY <1>2, <2>1, SumFirst
  <2>3. SumFunctionOnSet(f, R) \in Int /\ SumFunctionOnSet(g, R) \in Int
    BY <2>1, SumType
  <2>4. SumFunctionOnSet(h, R) = SumFunctionOnSet(f, R) + SumFunctionOnSet(g, R)
    BY <1>2, <2>1
  <2>5. f[c] \in Int /\ g[c] \in Int /\ h[c] = f[c] + g[c]
    BY <2>1
  <2> HIDE DEF c, R
  <2> QED
    BY <2>2, <2>3, <2>4, <2>5
<1>3. S \in Good
  <2> HIDE DEF Good
  <2>1. \A T \in SUBSET S : T # {} /\ (\A x \in T : T \ {x} \in Good) => T \in Good
    BY <1>2
  <2>2. \A T \in SUBSET S : T \in Good
    BY <1>1, <2>1, SubsetInduction, Zenon
  <2> QED
    BY <2>2
<1> QED
  BY <1>3

(* Summands that are zero can be left out.                                 *)
LEMMA SumFilter ==
  ASSUME NEW fun, NEW S, IsFiniteSet(S), NEW T \in SUBSET S,
         \A x \in S : fun[x] \in Int, \A x \in S : x \notin T => fun[x] = 0
  PROVE  SumFunctionOnSet(fun, S) = SumFunctionOnSet(fun, T)
<1> DEFINE Good == {U \in SUBSET S :
                      SumFunctionOnSet(fun, U) = SumFunctionOnSet(fun, U \cap T)}
<1>1. {} \in Good
  OBVIOUS
<1>2. ASSUME NEW U \in SUBSET S, U # {}, \A x \in U : U \ {x} \in Good
      PROVE  U \in Good
  <2> DEFINE c == First(U)
             R == U \ {c}
  <2>1. /\ c \in U /\ IsFiniteSet(U) /\ IsFiniteSet(U \cap T) /\ fun[c] \in Int
        /\ IsFiniteSet(R \cap T)
    BY <1>2, FirstIn, FS_Subset
  <2>2. SumFunctionOnSet(fun, U) = fun[c] + SumFunctionOnSet(fun, R)
    BY <1>2, <2>1, SumFirst
  <2>3. SumFunctionOnSet(fun, R) = SumFunctionOnSet(fun, R \cap T)
    BY <1>2, <2>1
  <2>4. SumFunctionOnSet(fun, R \cap T) \in Int
    BY <2>1, SumType
  <2>5. CASE c \in T
    <3>1. c \in U \cap T /\ (U \cap T) \ {c} = R \cap T
      BY <2>1, <2>5
    <3>2. SumFunctionOnSet(fun, U \cap T) = fun[c] + SumFunctionOnSet(fun, R \cap T)
      <4> HIDE DEF c, R
      <4> QED
        BY <2>1, <3>1, SumRemove
    <3> QED
      BY <2>2, <2>3, <3>2
  <2>6. CASE c \notin T
    <3>1. fun[c] = 0 /\ U \cap T = R \cap T
      BY <2>1, <2>6
    <3>2. SumFunctionOnSet(fun, U \cap T) = SumFunctionOnSet(fun, R \cap T)
      BY <3>1, Zenon
    <3>3. SumFunctionOnSet(fun, U) = SumFunctionOnSet(fun, R \cap T)
      <4> HIDE DEF c, R
      <4> QED
        BY <2>2, <2>3, <2>4, <3>1
    <3> QED
      BY <3>2, <3>3
  <2> QED
    BY <2>5, <2>6
<1>3. S \in Good
  <2> HIDE DEF Good
  <2>1. \A U \in SUBSET S : U # {} /\ (\A x \in U : U \ {x} \in Good) => U \in Good
    BY <1>2
  <2>2. \A U \in SUBSET S : U \in Good
    BY <1>1, <2>1, SubsetInduction, Zenon
  <2> QED
    BY <2>2
<1>4. S \cap T = T
  OBVIOUS
<1> QED
  BY <1>3, <1>4

(* Larger summands have a larger sum.                                      *)
LEMMA SumMonotone ==
  ASSUME NEW f, NEW g, NEW S, IsFiniteSet(S),
         \A x \in S : f[x] \in Int /\ g[x] \in Int /\ f[x] <= g[x]
  PROVE  SumFunctionOnSet(f, S) <= SumFunctionOnSet(g, S)
<1> DEFINE d == [x \in S |-> g[x] - f[x]]
<1>1. \A x \in S : d[x] \in Nat /\ g[x] = f[x] + d[x]
  OBVIOUS
<1> HIDE DEF d
<1>2. SumFunctionOnSet(d, S) \in Nat
  BY <1>1, SumNat
<1>3. SumFunctionOnSet(g, S) = SumFunctionOnSet(f, S) + SumFunctionOnSet(d, S)
  BY <1>1, SumPlus
<1>4. SumFunctionOnSet(f, S) \in Int
  BY SumType
<1> QED
  BY <1>2, <1>3, <1>4

(* A sum of natural numbers over a part of a set is no larger.             *)
LEMMA SumSubset ==
  ASSUME NEW fun, NEW S, IsFiniteSet(S), NEW T \in SUBSET S,
         \A x \in S : fun[x] \in Nat
  PROVE  SumFunctionOnSet(fun, T) <= SumFunctionOnSet(fun, S)
<1> DEFINE g == [x \in S |-> IF x \in T THEN fun[x] ELSE 0]
<1>1. \A x \in S : g[x] \in Int /\ fun[x] \in Int /\ g[x] <= fun[x]
  OBVIOUS
<1>2. /\ \A x \in S : x \notin T => g[x] = 0
      /\ \A x \in T : fun[x] = g[x]
  OBVIOUS
<1> HIDE DEF g
<1>3. SumFunctionOnSet(g, S) <= SumFunctionOnSet(fun, S)
  BY <1>1, SumMonotone
<1>4. SumFunctionOnSet(g, S) = SumFunctionOnSet(g, T)
  BY <1>1, <1>2, SumFilter
<1>5. SumFunctionOnSet(fun, T) = SumFunctionOnSet(g, T)
  BY <1>2, FS_Subset, SumEqual
<1> QED
  BY <1>3, <1>4, <1>5

(* A sum over an interval ends with its last summand.                      *)
LEMMA SumUpTo ==
  ASSUME NEW fun, NEW n \in Nat, \A i \in 1..(n + 1) : fun[i] \in Int
  PROVE  SumFunctionOnSet(fun, 1..(n + 1)) = SumFunctionOnSet(fun, 1..n) + fun[n + 1]
<1>1. IsFiniteSet(1..n) /\ (1..n) \cup {n + 1} = 1..(n + 1) /\ n + 1 \notin 1..n
  BY FS_Interval
<1>2. SumFunctionOnSet(fun, (1..n) \cup {n + 1}) = fun[n + 1] + SumFunctionOnSet(fun, 1..n)
  BY <1>1, SumAdd
<1>3. SumFunctionOnSet(fun, 1..n) \in Int
  BY <1>1, SumType
<1>4. fun[n + 1] \in Int
  OBVIOUS
<1>5. SumFunctionOnSet(fun, 1..(n + 1)) = fun[n + 1] + SumFunctionOnSet(fun, 1..n)
  BY <1>1, <1>2
<1> QED
  BY <1>3, <1>4, <1>5

(* Equal summands.                                                         *)
LEMMA SumConstant ==
  ASSUME NEW fun, NEW S, IsFiniteSet(S), NEW c \in Int, \A x \in S : fun[x] = c
  PROVE  SumFunctionOnSet(fun, S) = c * Cardinality(S)
<1> DEFINE Good == {T \in SUBSET S : SumFunctionOnSet(fun, T) = c * Cardinality(T)}
<1>1. {} \in Good
  BY SumEmpty, FS_EmptySet
<1>2. ASSUME NEW T \in SUBSET S, T # {}, \A x \in T : T \ {x} \in Good
      PROVE  T \in Good
  <2> DEFINE x == First(T)
             n == Cardinality(T \ {x})
  <2>1. x \in T /\ IsFiniteSet(T)
    BY <1>2, FirstIn, FS_Subset
  <2>2. Cardinality(T) = n + 1 /\ n \in Nat
    <3>1. Cardinality(T \ {x}) = Cardinality(T) - 1 /\ IsFiniteSet(T \ {x})
      BY <2>1, FS_RemoveElement
    <3> QED
      BY <2>1, <3>1, FS_CardinalityType
  <2>3. SumFunctionOnSet(fun, T) = fun[x] + SumFunctionOnSet(fun, T \ {x})
    BY <1>2, <2>1, SumFirst
  <2>4. SumFunctionOnSet(fun, T) = c + c * n
    BY <1>2, <2>1, <2>3
  <2>5. c + c * n = c * (n + 1)
    <3> HIDE DEF n
    <3> QED
      BY <2>2
  <2> QED
    BY <2>2, <2>4, <2>5
<1>3. S \in Good
  <2> HIDE DEF Good
  <2>1. \A T \in SUBSET S : T # {} /\ (\A x \in T : T \ {x} \in Good) => T \in Good
    BY <1>2
  <2>2. \A T \in SUBSET S : T \in Good
    BY <1>1, <2>1, SubsetInduction, Zenon
  <2> QED
    BY <2>2
<1> QED
  BY <1>3

(* A common factor.                                                        *)
LEMMA SumScale ==
  ASSUME NEW f, NEW g, NEW S, IsFiniteSet(S), NEW c \in Int,
         \A x \in S : f[x] \in Int /\ g[x] = c * f[x]
  PROVE  SumFunctionOnSet(g, S) = c * SumFunctionOnSet(f, S)
<1> DEFINE Good == {T \in SUBSET S : SumFunctionOnSet(g, T) = c * SumFunctionOnSet(f, T)}
<1>1. {} \in Good
  BY SumEmpty
<1>2. ASSUME NEW T \in SUBSET S, T # {}, \A x \in T : T \ {x} \in Good
      PROVE  T \in Good
  <2> DEFINE x == First(T)
             r == SumFunctionOnSet(f, T \ {x})
  <2>1. x \in T /\ IsFiniteSet(T) /\ IsFiniteSet(T \ {x})
    BY <1>2, FirstIn, FS_Subset
  <2>2. r \in Int /\ f[x] \in Int
    BY <2>1, SumType
  <2>3. /\ SumFunctionOnSet(f, T) = f[x] + r
        /\ SumFunctionOnSet(g, T) = g[x] + SumFunctionOnSet(g, T \ {x})
    BY <1>2, <2>1, SumFirst
  <2>4. SumFunctionOnSet(g, T \ {x}) = c * r /\ g[x] = c * f[x]
    BY <1>2, <2>1
  <2>5. c * f[x] + c * r = c * (f[x] + r)
    <3> HIDE DEF r
    <3> QED
      BY <2>2
  <2> QED
    BY <2>3, <2>4, <2>5
<1>3. S \in Good
  <2> HIDE DEF Good
  <2>1. \A T \in SUBSET S : T # {} /\ (\A x \in T : T \ {x} \in Good) => T \in Good
    BY <1>2
  <2>2. \A T \in SUBSET S : T \in Good
    BY <1>1, <2>1, SubsetInduction, Zenon
  <2> QED
    BY <2>2
<1> QED
  BY <1>3

(* The rows and the columns of a table have the same sum.                  *)
LEMMA SumSwap ==
  ASSUME NEW A, IsFiniteSet(A), NEW B, IsFiniteSet(B),
         NEW m, \A a \in A, b \in B : m[a][b] \in Int,
         NEW n, \A a \in A, b \in B : n[b][a] = m[a][b],
         NEW row, \A a \in A : row[a] = SumFunctionOnSet(m[a], B),
         NEW col, \A b \in B : col[b] = SumFunctionOnSet(n[b], A)
  PROVE  SumFunctionOnSet(row, A) = SumFunctionOnSet(col, B)
<1> DEFINE Part(T) == [b \in B |-> SumFunctionOnSet(n[b], T)]
           Good == {T \in SUBSET A : SumFunctionOnSet(row, T) = SumFunctionOnSet(Part(T), B)}
<1>1. {} \in Good
  <2>1. \A b \in B : Part({})[b] = 0
    BY SumEmpty
  <2> HIDE DEF Part
  <2> QED
    BY <2>1, SumEmpty, SumZero
<1>2. ASSUME NEW T \in SUBSET A, T # {}, \A x \in T : T \ {x} \in Good
      PROVE  T \in Good
  <2> DEFINE x == First(T)
             R == T \ {x}
             p == Part(R)
             q == Part(T)
  <2>1. x \in T /\ x \in A /\ IsFiniteSet(T) /\ IsFiniteSet(R)
    BY <1>2, FirstIn, FS_Subset
  <2>2. SumFunctionOnSet(row, T) = row[x] + SumFunctionOnSet(row, R)
    BY <1>2, <2>1, SumFirst
  <2>3. SumFunctionOnSet(row, R) = SumFunctionOnSet(p, B)
    BY <1>2, <2>1
  <2>4. ASSUME NEW b \in B PROVE p[b] \in Int /\ m[x][b] \in Int /\ q[b] = p[b] + m[x][b]
    <3> DEFINE f == n[b]
    <3>1. p[b] = SumFunctionOnSet(f, R) /\ q[b] = SumFunctionOnSet(f, T)
      OBVIOUS
    <3>2. f[x] = m[x][b] /\ \A a \in A : f[a] \in Int
      BY <2>1
    <3> HIDE DEF f
    <3>3. SumFunctionOnSet(f, T) = f[x] + SumFunctionOnSet(f, R)
      BY <1>2, <2>1, SumFirst
    <3>4. SumFunctionOnSet(f, R) \in Int
      BY <2>1, <3>2, SumType
    <3>5. f[x] \in Int
      BY <2>1, <3>2
    <3> HIDE DEF p, q
    <3> QED
      BY <3>1, <3>2, <3>3, <3>4, <3>5
  <2> HIDE DEF p, q, R, x
  <2>5. SumFunctionOnSet(q, B) = SumFunctionOnSet(p, B) + SumFunctionOnSet(m[x], B)
    BY <2>4, SumPlus
  <2>6. SumFunctionOnSet(p, B) \in Int /\ SumFunctionOnSet(m[x], B) \in Int
    BY <2>4, SumType
  <2>7. SumFunctionOnSet(row, T) = SumFunctionOnSet(q, B)
    BY <2>1, <2>2, <2>3, <2>5, <2>6
  <2> QED
    BY <2>7 DEF q
<1>3. A \in Good
  <2> HIDE DEF Good
  <2>1. \A T \in SUBSET A : T # {} /\ (\A x \in T : T \ {x} \in Good) => T \in Good
    BY <1>2
  <2>2. \A T \in SUBSET A : T \in Good
    BY <1>1, <2>1, SubsetInduction, Zenon
  <2> QED
    BY <2>2
<1>4. \A b \in B : Part(A)[b] = col[b]
  OBVIOUS
<1>5. SumFunctionOnSet(Part(A), B) = SumFunctionOnSet(col, B)
  <2> HIDE DEF Part
  <2> QED
    BY <1>4, SumEqual
<1> QED
  BY <1>3, <1>5

----------------------------------------------------------------------------
(* Proportions                                                             *)

LEMMA PerbillMulType ==
  ASSUME NEW part \in Nat, NEW x \in Nat
  PROVE  PerbillMul(part, x) \in Nat
<1>1. part * x \in Nat
  OBVIOUS
<1>2. 2 * part * x \in Nat
  BY <1>1
<1>3. 2 * part * x + Accuracy - 1 \in Nat /\ 2 * Accuracy \in Nat \ {0}
  BY <1>2, AccuracyAssumption
<1>4. \A n \in Nat, d \in Nat \ {0} : n \div d \in Nat
  OBVIOUS
<1> QED
  BY <1>3, <1>4 DEF PerbillMul

LEMMA FromRationalType ==
  ASSUME NEW p \in Nat, NEW q \in Nat
  PROVE  FromRational(p, q) \in Nat
<1>1. p * Accuracy \in Nat
  BY AccuracyAssumption
<1>2. \A n \in Nat, d \in Nat \ {0} : n \div d \in Nat
  OBVIOUS
<1> QED
  BY <1>1, <1>2, AccuracyAssumption DEF FromRational, One

(* A share of an amount is no more than the amount.                        *)
LEMMA PerbillMulBound ==
  ASSUME NEW part \in Parts, NEW x \in Nat
  PROVE  PerbillMul(part, x) \in 0..x
<1>1. part \in Nat /\ part <= Accuracy /\ Accuracy \in Nat /\ Accuracy > 0
  BY AccuracyAssumption DEF Parts
<1>2. part * x <= Accuracy * x
  <2>1. PICK d \in Nat : part + d = Accuracy
    <3>1. Accuracy - part \in Nat /\ part + (Accuracy - part) = Accuracy
      BY <1>1
    <3> QED
      BY <3>1
  <2>2. Accuracy * x = part * x + d * x /\ d * x \in Nat /\ part * x \in Nat
    BY <1>1, <2>1
  <2> QED
    BY <2>2
<1>3. \A m, n \in Nat : m <= n => (2 * m + Accuracy - 1) < (2 * Accuracy) * (x + 1)
                                  \/ n # Accuracy * x
  <2> SUFFICES ASSUME NEW m \in Nat, NEW n \in Nat, m <= n, n = Accuracy * x
               PROVE  (2 * m + Accuracy - 1) < (2 * Accuracy) * (x + 1)
    OBVIOUS
  <2>1. (2 * Accuracy) * (x + 1) = 2 * n + 2 * Accuracy
    BY <1>1
  <2> QED
    BY <2>1, <1>1
<1>4. part * x \in Nat /\ Accuracy * x \in Nat /\ 2 * part * x = 2 * (part * x)
  BY <1>1
<1>5. 2 * part * x + Accuracy - 1 < (2 * Accuracy) * (x + 1)
  BY <1>2, <1>3, <1>4
<1>6. \A n \in Nat, d \in Nat \ {0}, q \in Nat : n < d * (q + 1) => n \div d <= q
  <2> SUFFICES ASSUME NEW n \in Nat, NEW d \in Nat \ {0}, NEW q \in Nat,
                      n < d * (q + 1), n \div d >= q + 1
               PROVE  FALSE
    OBVIOUS
  <2>1. n = d * (n \div d) + (n % d) /\ n % d \in 0..(d - 1) /\ n \div d \in Nat
    OBVIOUS
  <2>2. PICK k \in Nat : n \div d = q + 1 + k
    <3>1. n \div d - (q + 1) \in Nat /\ n \div d = q + 1 + (n \div d - (q + 1))
      BY <2>1
    <3> QED
      BY <3>1
  <2>3. d * (n \div d) = d * (q + 1) + d * k /\ d * k \in Nat /\ d * (q + 1) \in Nat
    BY <2>2
  <2> QED
    BY <2>1, <2>3
<1>7. 2 * part * x + Accuracy - 1 \in Nat /\ 2 * Accuracy \in Nat \ {0}
  BY <1>1, <1>4
<1> QED
  BY <1>1, <1>5, <1>6, <1>7, PerbillMulType DEF PerbillMul

(* What the two divisions lose: from_rational rounds down, and a share     *)
(* exceeds the exact one by less than a half.                              *)
LEMMA FromRationalBound ==
  ASSUME NEW p \in Nat, NEW q \in Nat, p <= q
  PROVE  /\ FromRational(p, q) \in Parts
         /\ q * FromRational(p, q) <= Accuracy * p
<1> DEFINE n == p * Accuracy
<1>1. n \in Nat /\ Accuracy \in Nat \ {0} /\ n = Accuracy * p
  BY AccuracyAssumption
<1>2. CASE q = 0
  <2>1. p = 0 /\ n = 0
    BY <1>1, <1>2
  <2>2. FromRational(p, q) = 0
    BY <1>1, <1>2, <2>1 DEF FromRational
  <2> QED
    BY <1>1, <1>2, <2>1, <2>2 DEF Parts
<1>3. CASE q # 0 /\ p = q
  <2>1. FromRational(p, q) = Accuracy
    BY <1>3 DEF FromRational, One
  <2> QED
    BY <1>1, <1>3, <2>1 DEF Parts
<1>4. CASE q # 0 /\ p < q
  <2> DEFINE d == n \div q
  <2>1. FromRational(p, q) = d
    BY <1>4 DEF FromRational
  <2>2. d \in Nat /\ q * d <= n
    <3>1. \A k \in Nat, m \in Nat \ {0} : k \div m \in Nat /\ m * (k \div m) <= k
      OBVIOUS
    <3> QED
      BY <1>1, <1>4, <3>1
  <2>3. d <= Accuracy
    <3> SUFFICES ASSUME d > Accuracy PROVE FALSE
      BY <1>1, <2>2
    <3>1. PICK k \in Nat : d = Accuracy + 1 + k
      <4>1. d - (Accuracy + 1) \in Nat /\ d = Accuracy + 1 + (d - (Accuracy + 1))
        BY <1>1, <2>2
      <4> QED
        BY <4>1
    <3>2. PICK l \in Nat : q = p + 1 + l
      <4>1. q - (p + 1) \in Nat /\ q = p + 1 + (q - (p + 1))
        BY <1>4
      <4> QED
        BY <4>1
    <3>3. /\ q * d = q * Accuracy + q + q * k /\ q * k \in Nat /\ q * Accuracy \in Nat
          /\ q * Accuracy = p * Accuracy + Accuracy + l * Accuracy /\ l * Accuracy \in Nat
      BY <1>1, <3>1, <3>2
    <3> QED
      BY <1>1, <1>4, <2>2, <3>3
  <2> QED
    BY <1>1, <2>1, <2>2, <2>3 DEF Parts
<1> QED
  BY <1>2, <1>3, <1>4

LEMMA PerbillMulRounding ==
  ASSUME NEW part \in Nat, NEW x \in Nat
  PROVE  (2 * Accuracy) * PerbillMul(part, x) <= (2 * x) * part + (Accuracy - 1)
<1> DEFINE n == 2 * part * x + Accuracy - 1
<1>1. part * x \in Nat /\ Accuracy \in Nat \ {0} /\ 2 * Accuracy \in Nat \ {0}
  BY AccuracyAssumption
<1>2. 2 * part * x = (2 * x) * part /\ (2 * x) * part \in Nat
  BY <1>1
<1>3. n \in Nat /\ n = (2 * x) * part + (Accuracy - 1)
  BY <1>1, <1>2
<1>4. \A k \in Nat, m \in Nat \ {0} : m * (k \div m) <= k
  OBVIOUS
<1> HIDE DEF n
<1>5. (2 * Accuracy) * (n \div (2 * Accuracy)) <= n
  BY <1>1, <1>3, <1>4
<1> QED
  BY <1>3, <1>5 DEF PerbillMul, n

LEMMA PerbillMulNothing == \A x \in Nat : PerbillMul(0, x) = 0
<1> SUFFICES ASSUME NEW x \in Nat PROVE PerbillMul(0, x) = 0
  OBVIOUS
<1>1. Accuracy \in Nat \ {0} /\ 2 * 0 * x = 0
  BY AccuracyAssumption
<1>2. \A n \in Nat, d \in Nat : n < d => n \div d = 0
  OBVIOUS
<1>3. (Accuracy - 1) \div (2 * Accuracy) = 0
  BY <1>1, <1>2
<1> QED
  BY <1>1, <1>3 DEF PerbillMul

(* The parts that the weights w have in W are one whole at most when W is  *)
(* no less than their sum.                                                 *)
LEMMA PartsOfWhole ==
  ASSUME NEW S, IsFiniteSet(S), NEW w, \A s \in S : w[s] \in Nat,
         NEW W \in Nat, W >= SumFunctionOnSet(w, S),
         NEW parts, \A s \in S : parts[s] = FromRational(w[s], W)
  PROVE  /\ \A s \in S : parts[s] \in Nat
         /\ SumFunctionOnSet(parts, S) \in 0..Accuracy
<1> DEFINE scaled == [s \in S |-> W * parts[s]]
           whole == [s \in S |-> Accuracy * w[s]]
           P == SumFunctionOnSet(parts, S)
           Q == SumFunctionOnSet(w, S)
<1>0. Q \in Nat /\ (\A s \in S : w[s] <= Q) /\ Accuracy \in Nat \ {0}
  BY SumNat, AccuracyAssumption
<1>1. W \in Nat /\ (\A s \in S : w[s] <= W) /\ Accuracy \in Nat \ {0}
  BY <1>0
<1>2. \A s \in S : parts[s] \in Nat /\ W * parts[s] <= Accuracy * w[s]
  <2>1. \A p, q \in Nat : p <= q => /\ FromRational(p, q) \in Parts
                                    /\ q * FromRational(p, q) <= Accuracy * p
    BY FromRationalBound
  <2>2. \A s \in S : FromRational(w[s], W) \in Parts /\ W * parts[s] <= Accuracy * w[s]
    BY <1>1, <2>1
  <2> QED
    BY <2>2 DEF Parts
<1>3. P \in Nat
  BY <1>2, SumNat
<1>4. CASE W = 0
  <2>1. \A s \in S : w[s] = 0
    BY <1>1, <1>4
  <2>2. \A s \in S : parts[s] = 0
    BY <1>4, <2>1, <1>1 DEF FromRational
  <2> QED
    BY <1>1, <1>2, <2>2, SumZero
<1>5. CASE W > 0
  <2>1. SumFunctionOnSet(scaled, S) = W * P
    <3>1. \A s \in S : parts[s] \in Int /\ scaled[s] = W * parts[s]
      BY <1>2
    <3> HIDE DEF scaled
    <3> QED
      BY <1>1, <3>1, SumScale
  <2>2. SumFunctionOnSet(whole, S) = Accuracy * Q
    <3>1. \A s \in S : w[s] \in Int /\ whole[s] = Accuracy * w[s]
      OBVIOUS
    <3> HIDE DEF whole
    <3> QED
      BY <1>1, <3>1, SumScale
  <2>3. SumFunctionOnSet(scaled, S) <= SumFunctionOnSet(whole, S)
    <3>1. \A s \in S : scaled[s] \in Int /\ whole[s] \in Int /\ scaled[s] <= whole[s]
      BY <1>1, <1>2
    <3> HIDE DEF scaled, whole
    <3> QED
      BY <3>1, SumMonotone
  <2> HIDE DEF scaled, whole, P, Q
  <2>5. Accuracy * Q <= Accuracy * W
    <3>1. PICK k \in Nat : W = Q + k
      <4>1. W - Q \in Nat /\ W = Q + (W - Q)
        BY <1>0 DEF Q
      <4> QED
        BY <4>1
    <3>2. Accuracy * W = Accuracy * Q + Accuracy * k /\ Accuracy * k \in Nat /\ Accuracy * Q \in Nat
      BY <1>0, <3>1
    <3> QED
      BY <3>2
  <2>4. P <= Accuracy
    <3> SUFFICES ASSUME P > Accuracy PROVE FALSE
      BY <1>1, <1>3
    <3>1. PICK k \in Nat : P = Accuracy + 1 + k
      <4>1. P - (Accuracy + 1) \in Nat /\ P = Accuracy + 1 + (P - (Accuracy + 1))
        BY <1>1, <1>3
      <4> QED
        BY <4>1
    <3>2. W * P = Accuracy * W + W + W * k /\ W * k \in Nat /\ Accuracy * W \in Nat
      BY <1>1, <3>1
    <3> QED
      BY <1>0, <1>1, <1>5, <2>1, <2>2, <2>3, <2>5, <3>2
  <2> QED
    BY <1>1, <1>2, <1>3, <2>4 DEF P
<1> QED
  BY <1>1, <1>4, <1>5

(* Halves that n shares gain by rounding are (n - 1) div 2 wholes at most. *)
LEMMA HalvesGained ==
  ASSUME NEW acc \in Nat \ {0}, NEW n \in Nat \ {0}, NEW x \in Nat, NEW y \in Nat,
         (2 * acc) * y <= (2 * acc) * x + (acc - 1) * n
  PROVE  y <= x + (n - 1) \div 2
<1> DEFINE h == (n - 1) \div 2
<1>1. h \in Nat /\ n <= 2 * h + 2
  BY \A k \in Nat : k \div 2 \in Nat /\ k <= 2 * (k \div 2) + 1
<1> HIDE DEF h
<1> SUFFICES ASSUME y > x + h PROVE FALSE
  BY <1>1 DEF h
<1>2. PICK k \in Nat : y = x + h + 1 + k
  <2>1. y - (x + h + 1) \in Nat /\ y = x + h + 1 + (y - (x + h + 1))
    BY <1>1
  <2> QED
    BY <2>1
<1>3. PICK l \in Nat : 2 * h + 2 = n + l
  <2>1. 2 * h + 2 - n \in Nat /\ 2 * h + 2 = n + (2 * h + 2 - n)
    BY <1>1
  <2> QED
    BY <2>1
<1>4. /\ (2 * acc) * y = (2 * acc) * x + acc * (2 * h + 2) + (2 * acc) * k
      /\ (2 * acc) * k \in Nat /\ (2 * acc) * x \in Nat
  BY <1>1, <1>2
<1>5. acc * (2 * h + 2) = acc * n + acc * l /\ acc * l \in Nat /\ acc * n \in Nat
  BY <1>1, <1>3
<1>6. (acc - 1) * n = acc * n - n
  OBVIOUS
<1> QED
  BY <1>4, <1>5, <1>6

(* The shares of an amount x that go to the weights w exceed x only by     *)
(* what their rounding adds.                                               *)
LEMMA SharesTogether ==
  ASSUME NEW S, IsFiniteSet(S), S # {}, NEW w, \A s \in S : w[s] \in Nat,
         NEW W \in Nat, W >= SumFunctionOnSet(w, S), NEW x \in Nat,
         NEW shares, \A s \in S : shares[s] = PerbillMul(FromRational(w[s], W), x)
  PROVE  /\ \A s \in S : shares[s] \in Nat
         /\ SumFunctionOnSet(shares, S) \in Nat
         /\ SumFunctionOnSet(shares, S) <= x + (Cardinality(S) - 1) \div 2
<1> DEFINE parts == [s \in S |-> FromRational(w[s], W)]
           twice == [s \in S |-> (2 * Accuracy) * shares[s]]
           exact == [s \in S |-> (2 * x) * parts[s]]
           slack == [s \in S |-> Accuracy - 1]
           bound == [s \in S |-> exact[s] + slack[s]]
           n == Cardinality(S)
           P == SumFunctionOnSet(parts, S)
           Y == SumFunctionOnSet(shares, S)
<1>1. Accuracy \in Nat \ {0} /\ n \in Nat \ {0}
  BY AccuracyAssumption, FS_CardinalityType, FS_EmptySet
<1>2. (\A s \in S : parts[s] \in Nat) /\ P \in 0..Accuracy
  <2>1. \A s \in S : parts[s] = FromRational(w[s], W)
    OBVIOUS
  <2> HIDE DEF parts
  <2> QED
    BY <2>1, PartsOfWhole
<1>3. \A s \in S : shares[s] \in Nat /\ shares[s] = PerbillMul(parts[s], x)
  BY <1>2, PerbillMulType
<1>4. Y \in Nat
  BY <1>3, SumNat
<1>5. SumFunctionOnSet(twice, S) = (2 * Accuracy) * Y
  <2>1. \A s \in S : shares[s] \in Int /\ twice[s] = (2 * Accuracy) * shares[s]
    BY <1>3
  <2> HIDE DEF twice
  <2> QED
    BY <1>1, <2>1, SumScale
<1>6. SumFunctionOnSet(exact, S) = (2 * x) * P
  <2>1. \A s \in S : parts[s] \in Int /\ exact[s] = (2 * x) * parts[s]
    BY <1>2
  <2> HIDE DEF exact, parts
  <2> QED
    BY <1>1, <2>1, SumScale
<1>7. SumFunctionOnSet(slack, S) = (Accuracy - 1) * n
  <2>1. \A s \in S : slack[s] = Accuracy - 1
    OBVIOUS
  <2> HIDE DEF slack
  <2> QED
    BY <1>1, <2>1, SumConstant
<1>8. SumFunctionOnSet(bound, S) = SumFunctionOnSet(exact, S) + SumFunctionOnSet(slack, S)
  <2>1. \A s \in S : exact[s] \in Int /\ slack[s] \in Int /\ bound[s] = exact[s] + slack[s]
    BY <1>1, <1>2
  <2> HIDE DEF exact, slack, bound
  <2> QED
    BY <2>1, SumPlus
<1>9. SumFunctionOnSet(twice, S) <= SumFunctionOnSet(bound, S)
  <2>1. \A s \in S : twice[s] <= bound[s]
    BY <1>2, <1>3, PerbillMulRounding
  <2>2. \A s \in S : twice[s] \in Int /\ bound[s] \in Int
    BY <1>1, <1>2, <1>3
  <2> HIDE DEF twice, bound
  <2> QED
    BY <2>1, <2>2, SumMonotone
<1> HIDE DEF parts, twice, exact, slack, bound, n, P, Y
<1>10. (2 * x) * P <= (2 * Accuracy) * x
  <2>1. PICK d \in Nat : Accuracy = P + d
    <3>1. Accuracy - P \in Nat /\ Accuracy = P + (Accuracy - P)
      BY <1>1, <1>2
    <3> QED
      BY <3>1
  <2>2. (2 * Accuracy) * x = (2 * x) * P + (2 * x) * d /\ (2 * x) * d \in Nat /\ (2 * x) * P \in Nat
    BY <1>1, <1>2, <2>1
  <2> QED
    BY <2>2
<1>11. (2 * Accuracy) * Y <= (2 * Accuracy) * x + (Accuracy - 1) * n
  <2>1. \A a, b, c, d \in Int : a <= b + c /\ b <= d => a <= d + c
    OBVIOUS
  <2>2. /\ (2 * Accuracy) * Y \in Int /\ (2 * x) * P \in Int
        /\ (2 * Accuracy) * x \in Int /\ (Accuracy - 1) * n \in Int
    BY <1>1, <1>2, <1>4
  <2>3. (2 * Accuracy) * Y <= (2 * x) * P + (Accuracy - 1) * n
    BY <1>5, <1>6, <1>7, <1>8, <1>9
  <2> QED
    BY ONLY <1>10, <2>1, <2>2, <2>3
<1> QED
  BY <1>1, <1>3, <1>4, <1>11, HalvesGained DEF n, Y

----------------------------------------------------------------------------
(* Ledgers: what the operations of Currency do to the accounts of a set H  *)
(* of holders, account by account, and to the tokens they hold together.   *)

LedgerOver(H) == [H -> Account]

TokensOf(account) == account.free + account.reserved

Tokens(ledger, H) == SumFunctionOnSet([h \in H |-> TokensOf(ledger[h])], H)

LEMMA AccountTokens ==
  ASSUME NEW H, NEW ledger \in LedgerOver(H), NEW h \in H
  PROVE  /\ ledger[h].free \in Nat /\ ledger[h].reserved \in Nat
         /\ TokensOf(ledger[h]) \in Nat
         /\ TokensOf(ledger[h]) = ledger[h].free + ledger[h].reserved
BY DEF LedgerOver, Account, TokensOf

LEMMA TokensType ==
  ASSUME NEW H, IsFiniteSet(H), NEW ledger \in LedgerOver(H)
  PROVE  Tokens(ledger, H) \in Nat
<1> DEFINE f == [h \in H |-> TokensOf(ledger[h])]
<1>1. \A h \in H : f[h] \in Nat
  BY AccountTokens
<1> HIDE DEF f
<1>2. SumFunctionOnSet(f, H) \in Nat
  BY <1>1, SumNat
<1> QED
  BY <1>2 DEF Tokens, f

(* Only the account of one holder differs.                                 *)
LEMMA TokensChange ==
  ASSUME NEW H, IsFiniteSet(H), NEW ledger \in LedgerOver(H), NEW after \in LedgerOver(H),
         NEW who \in H, \A h \in H : h # who => after[h] = ledger[h]
  PROVE  Tokens(after, H) =
           Tokens(ledger, H) - TokensOf(ledger[who]) + TokensOf(after[who])
<1> DEFINE f == [h \in H |-> TokensOf(ledger[h])]
           g == [h \in H |-> TokensOf(after[h])]
<1>1. /\ \A h \in H : f[h] \in Int
      /\ g[who] \in Int
      /\ \A h \in H : h # who => g[h] = f[h]
      /\ f[who] = TokensOf(ledger[who]) /\ g[who] = TokensOf(after[who])
  BY AccountTokens
<1> HIDE DEF f, g
<1>2. SumFunctionOnSet(g, H) = SumFunctionOnSet(f, H) - f[who] + g[who]
  BY <1>1, SumChange
<1> QED
  BY <1>1, <1>2 DEF Tokens, f, g

LEMMA DepositEffect ==
  ASSUME NEW H, NEW ledger \in LedgerOver(H), NEW who \in H, NEW amount \in Nat,
         NEW after, after = DepositCreating(ledger, who, amount)
  PROVE  /\ after \in LedgerOver(H)
         /\ \A h \in H : h # who => after[h] = ledger[h]
         /\ \/ after[who].free = ledger[who].free + amount
            \/ /\ after = ledger
               /\ ledger[who].free = 0 /\ ledger[who].reserved = 0
               /\ amount < ExistentialDeposit
         /\ after[who].reserved = ledger[who].reserved
<1>1. ledger[who].free \in Nat /\ ledger[who].reserved \in Nat
  BY AccountTokens
<1>2. CASE ledger[who] = EmptyAccount /\ amount < ExistentialDeposit
  BY <1>2 DEF DepositCreating, EmptyAccount
<1>3. CASE ~(ledger[who] = EmptyAccount /\ amount < ExistentialDeposit)
  <2>1. PICK f \in Nat : f = ledger[who].free + amount
    BY <1>1
  <2>2. after = [ledger EXCEPT ![who] = [free |-> f, reserved |-> ledger[who].reserved]]
    BY <1>3, <2>1 DEF DepositCreating
  <2> QED
    BY <1>1, <2>1, <2>2 DEF LedgerOver, Account
<1> QED
  BY <1>2, <1>3

LEMMA WithdrawKeepAliveEffect ==
  ASSUME NEW H, NEW ledger \in LedgerOver(H), NEW who \in H, NEW amount \in Nat,
         ledger[who].free >= amount,
         NEW after, after = WithdrawKeepAlive(ledger, who, amount)
  PROVE  /\ after \in LedgerOver(H)
         /\ \A h \in H : h # who => after[h] = ledger[h]
         /\ after[who].free = ledger[who].free - amount
         /\ after[who].reserved = ledger[who].reserved
<1>1. ledger[who].free - amount \in Nat
  BY AccountTokens
<1> QED
  BY <1>1 DEF WithdrawKeepAlive, LedgerOver, Account

(* An account that keeps less than the existential deposit is emptied.     *)
LEMMA WithdrawAllowDeathEffect ==
  ASSUME NEW H, NEW ledger \in LedgerOver(H), NEW who \in H, NEW amount \in Nat,
         CanWithdraw(ledger, who, amount),
         NEW after, after = WithdrawAllowDeath(ledger, who, amount)
  PROVE  /\ after \in LedgerOver(H)
         /\ \A h \in H : h # who => after[h] = ledger[h]
         /\ \/ /\ after[who].free = ledger[who].free - amount
               /\ after[who].reserved = ledger[who].reserved
            \/ /\ after[who] = EmptyAccount /\ amount > 0
               /\ TokensOf(ledger[who]) - amount < ExistentialDeposit
<1>1. ledger[who].free \in Nat /\ ledger[who].reserved \in Nat
  BY AccountTokens
<1>2. PICK f \in Nat : f = ledger[who].free - amount
  BY <1>1 DEF CanWithdraw
<1>3. PICK left \in Nat : left = f + ledger[who].reserved
  BY <1>1, <1>2
<1>4. CASE amount = 0
  BY <1>4, <1>1 DEF WithdrawAllowDeath
<1>5. CASE amount > 0 /\ left < ExistentialDeposit
  <2>1. ~(amount = 0) /\ ~(left >= ExistentialDeposit)
    BY <1>3, <1>5, CurrencyAssumption
  <2>2. after = [ledger EXCEPT ![who] = EmptyAccount]
    BY <1>2, <1>3, <1>5, <2>1 DEF WithdrawAllowDeath
  <2>3. after = [ledger EXCEPT ![who] = [free |-> 0, reserved |-> 0]]
    BY <2>2 DEF EmptyAccount
  <2>4. /\ after \in LedgerOver(H) /\ \A h \in H : h # who => after[h] = ledger[h]
    BY <2>3 DEF LedgerOver, Account
  <2>5. after[who] = EmptyAccount
    BY <2>2 DEF LedgerOver
  <2>6. TokensOf(ledger[who]) - amount = left
    BY <1>1, <1>2, <1>3 DEF TokensOf
  <2> QED
    BY <1>5, <2>4, <2>5, <2>6
<1>6. CASE amount > 0 /\ left >= ExistentialDeposit
  <2>1. ~(amount = 0) /\ ~(left < ExistentialDeposit)
    BY <1>3, <1>6, CurrencyAssumption
  <2>2. after = [ledger EXCEPT ![who] = [free |-> f, reserved |-> ledger[who].reserved]]
    BY <1>2, <1>3, <1>6, <2>1 DEF WithdrawAllowDeath
  <2> QED
    BY <1>1, <1>2, <2>2 DEF LedgerOver, Account
<1> QED
  BY <1>3, <1>4, <1>5, <1>6, CurrencyAssumption

LEMMA TransferEffect ==
  ASSUME NEW H, NEW ledger \in LedgerOver(H), NEW from \in H, NEW to \in H, from # to,
         NEW amount \in Nat, ledger[from].free >= amount,
         NEW after, after = Transfer(ledger, from, to, amount)
  PROVE  /\ after \in LedgerOver(H)
         /\ \A h \in H : h # from /\ h # to => after[h] = ledger[h]
         /\ after[from].free = ledger[from].free - amount
         /\ after[to].free = ledger[to].free + amount
         /\ after[from].reserved = ledger[from].reserved
         /\ after[to].reserved = ledger[to].reserved
<1>1. ledger[from].free - amount \in Nat /\ ledger[to].free + amount \in Nat
  BY AccountTokens
<1> QED
  BY <1>1 DEF Transfer, LedgerOver, Account

LEMMA TransferTokens ==
  ASSUME NEW H, IsFiniteSet(H), NEW ledger \in LedgerOver(H),
         NEW from \in H, NEW to \in H, from # to,
         NEW amount \in Nat, ledger[from].free >= amount
  PROVE  Tokens(Transfer(ledger, from, to, amount), H) = Tokens(ledger, H)
<1>1. PICK after : after = Transfer(ledger, from, to, amount)
  OBVIOUS
<1>2. PICK mid : mid = WithdrawKeepAlive(ledger, from, amount)
  OBVIOUS
<1>3. /\ mid \in LedgerOver(H) /\ \A h \in H : h # from => mid[h] = ledger[h]
      /\ mid[from].free = ledger[from].free - amount
      /\ mid[from].reserved = ledger[from].reserved
  BY <1>2, WithdrawKeepAliveEffect
<1>4. /\ after \in LedgerOver(H)
      /\ \A h \in H : h # from /\ h # to => after[h] = ledger[h]
      /\ after[from].free = ledger[from].free - amount
      /\ after[to].free = ledger[to].free + amount
      /\ after[from].reserved = ledger[from].reserved
      /\ after[to].reserved = ledger[to].reserved
  BY <1>1, TransferEffect
<1>5. after[from] = mid[from]
  BY <1>3, <1>4 DEF LedgerOver, Account
<1>6. Tokens(mid, H) = Tokens(ledger, H) - TokensOf(ledger[from]) + TokensOf(mid[from])
  BY <1>3, TokensChange
<1>7. \A h \in H : h # to => after[h] = mid[h]
  BY <1>3, <1>4, <1>5
<1>8. Tokens(after, H) = Tokens(mid, H) - TokensOf(mid[to]) + TokensOf(after[to])
  BY <1>3, <1>4, <1>7, TokensChange
<1>9. /\ TokensOf(mid[from]) = TokensOf(ledger[from]) - amount
      /\ TokensOf(after[to]) = TokensOf(mid[to]) + amount
      /\ TokensOf(mid[to]) \in Nat /\ TokensOf(ledger[from]) \in Nat
  <2>1. mid[to] = ledger[to]
    BY <1>3
  <2> QED
    BY <1>3, <1>4, <2>1, AccountTokens DEF TokensOf
<1>10. Tokens(ledger, H) \in Nat /\ Tokens(mid, H) \in Nat
  BY <1>3, TokensType
<1> DEFINE t == Tokens(ledger, H)
           m == Tokens(mid, H)
           a == Tokens(after, H)
           x == TokensOf(ledger[from])
           y == TokensOf(mid[to])
<1>11. m = t - x + (x - amount) /\ a = m - y + (y + amount)
  BY <1>6, <1>8, <1>9
<1>12. t \in Nat /\ m \in Nat /\ x \in Nat /\ y \in Nat
  BY <1>9, <1>10
<1> HIDE DEF t, m, a, x, y
<1>13. a = t
  BY <1>11, <1>12
<1> QED
  BY <1>1, <1>13 DEF a, t

LEMMA ReserveEffect ==
  ASSUME NEW H, NEW ledger \in LedgerOver(H), NEW who \in H, NEW amount \in Nat,
         CanReserve(ledger, who, amount),
         NEW after, after = Reserve(ledger, who, amount)
  PROVE  /\ after \in LedgerOver(H)
         /\ \A h \in H : h # who => after[h] = ledger[h]
         /\ after[who].free = ledger[who].free - amount
         /\ after[who].reserved = ledger[who].reserved + amount
<1>1. ledger[who].free - amount \in Nat /\ ledger[who].reserved + amount \in Nat
  BY AccountTokens DEF CanReserve
<1> QED
  BY <1>1 DEF Reserve, LedgerOver, Account

LEMMA UnreserveEffect ==
  ASSUME NEW H, NEW ledger \in LedgerOver(H), NEW who \in H, NEW amount \in Nat,
         ledger[who].reserved >= amount,
         NEW after, after = Unreserve(ledger, who, amount)
  PROVE  /\ after \in LedgerOver(H)
         /\ \A h \in H : h # who => after[h] = ledger[h]
         /\ after[who].free = ledger[who].free + amount
         /\ after[who].reserved = ledger[who].reserved - amount
<1>1. ledger[who].free + amount \in Nat /\ ledger[who].reserved - amount \in Nat
  BY AccountTokens
<1>2. ~(amount > ledger[who].reserved)
  BY AccountTokens
<1> QED
  BY <1>1, <1>2 DEF Unreserve, LedgerOver, Account

LEMMA SlashReservedEffect ==
  ASSUME NEW H, NEW ledger \in LedgerOver(H), NEW who \in H, NEW amount \in Nat,
         ledger[who].reserved >= amount,
         NEW after, after = SlashReserved(ledger, who, amount)
  PROVE  /\ after \in LedgerOver(H)
         /\ \A h \in H : h # who => after[h] = ledger[h]
         /\ after[who].free = ledger[who].free
         /\ after[who].reserved = ledger[who].reserved - amount
<1>1. ledger[who].reserved - amount \in Nat /\ ~(amount > ledger[who].reserved)
  BY AccountTokens
<1> QED
  BY <1>1 DEF SlashReserved, SatSub, LedgerOver, Account
=============================================================================
