-------------------------- MODULE CollectionProofs --------------------------
(***************************************************************************)
(* Facts about finite sets, sums and sequences that the proofs about the   *)
(* components share.  Induction is by the least counterexample: a set of   *)
(* naturals or of finite sets that has one.                                *)
(***************************************************************************)
EXTENDS Integers, Sequences, FiniteSets, FiniteSetsExt, Functions, StableSort,
        FiniteSetTheorems, WellFoundedInduction, TLAPS

(* Induction: a set of naturals has a least element, so that a least       *)
(* counterexample may be taken.  What is said of finite sets by their      *)
(* cardinality is said of a function on them, where there is an order.     *)
LEMMA SmallestOf ==
  ASSUME NEW T, T \subseteq Nat, T # {}
  PROVE  \E n \in T : \A m \in T : n =< m
<1>1. PICK x \in T : \A y \in T : ~(<<y, x>> \in OpToRel(<, Nat))
      BY NatLessThanWellFounded, WFMin
<1>2. ASSUME NEW y \in T PROVE x =< y
  <2>1. ~(y < x)
        BY <1>1 DEF OpToRel
  <2> QED BY <2>1
<1> QED BY <1>2

LEMMA LargestOf ==
  ASSUME NEW S, IsFiniteSet(S), S # {}, NEW f, \A x \in S : f[x] \in Int
  PROVE  \E m \in S : \A x \in S : f[m] >= f[x]
<1> DEFINE Has(T) == \E m \in T : \A x \in T : f[m] >= f[x]
           Bad == {n \in Nat : \E T \in SUBSET S : T # {} /\ Cardinality(T) = n /\ ~Has(T)}
<1> SUFFICES ASSUME Bad # {} PROVE FALSE
  <2>1. Cardinality(S) \in Nat
        BY FS_CardinalityType
  <2>2. Has(S) => \E m \in S : \A x \in S : f[m] >= f[x]
        OBVIOUS
  <2> HIDE DEF Has
  <2> QED BY <2>1, <2>2
<1>1. PICK n \in Bad : \A k \in Bad : n =< k
      BY SmallestOf
<1>2. PICK T \in SUBSET S : T # {} /\ Cardinality(T) = n /\ ~Has(T)
      BY <1>1
<1>3. PICK t \in T : TRUE
      BY <1>2
<1>4. IsFiniteSet(T) /\ IsFiniteSet(T \ {t}) /\ Cardinality(T \ {t}) = n - 1
  <2>1. IsFiniteSet(T)
        BY FS_Subset
  <2> QED BY <1>2, <2>1, FS_RemoveElement
<1>5. CASE T \ {t} = {}
  <2>1. \A x \in T : f[t] >= f[x]
        BY <1>5
  <2> QED BY <1>2, <2>1
<1>6. CASE T \ {t} # {}
  <2>1. Has(T \ {t})
    <3>1. n - 1 \in Nat /\ n - 1 \notin Bad
      <4>1. n - 1 \in Nat
            BY <1>4, FS_CardinalityType
      <4>2. n \in Nat
            BY <1>1
      <4> QED BY <1>1, <4>1, <4>2
    <3> HIDE DEF Has
    <3> QED BY <1>4, <1>6, <3>1
  <2>2. PICK m \in T \ {t} : \A x \in T \ {t} : f[m] >= f[x]
        BY <2>1
  <2>3. f[m] \in Int /\ f[t] \in Int /\ \A x \in T : f[x] \in Int
        OBVIOUS
  <2>4. CASE f[m] >= f[t]
    <3>1. \A x \in T : f[m] >= f[x]
          BY <2>2, <2>4
    <3> QED BY <1>2, <3>1
  <2>5. CASE f[t] > f[m]
    <3>1. \A x \in T : f[t] >= f[x]
          BY <2>2, <2>3, <2>5
    <3> QED BY <1>2, <3>1
  <2> QED BY <2>3, <2>4, <2>5
<1> QED BY <1>5, <1>6

LEMMA ExtremesOf ==
  ASSUME NEW S, IsFiniteSet(S), S # {}, NEW f, \A x \in S : f[x] \in Int
  PROVE  LET R == {f[x] : x \in S} IN
           /\ Max(R) \in Int /\ Max(R) \in R /\ \A r \in R : Max(R) >= r
           /\ Min(R) \in Int /\ Min(R) \in R /\ \A r \in R : Min(R) =< r
<1> DEFINE R == {f[x] : x \in S}
           g == [x \in S |-> -f[x]]
<1>1. \E r \in R : \A q \in R : r >= q
  <2>1. PICK m \in S : \A x \in S : f[m] >= f[x]
        BY LargestOf
  <2> QED BY <2>1
<1>2. \E r \in R : \A q \in R : r =< q
  <2>1. \A x \in S : g[x] \in Int
        OBVIOUS
  <2>2. \E m \in S : \A x \in S : g[m] >= g[x]
    <3> HIDE DEF g
    <3> QED BY <2>1, LargestOf
  <2>3. PICK m \in S : \A x \in S : g[m] >= g[x]
        BY <2>2
  <2>4. \A x \in S : f[m] =< f[x]
        BY <2>3
  <2> QED BY <2>4
<1>3. Max(R) \in R /\ \A r \in R : Max(R) >= r
      BY <1>1 DEF Max
<1>4. Min(R) \in R /\ \A r \in R : Min(R) =< r
      BY <1>2 DEF Min
<1>5. R \subseteq Int
      OBVIOUS
<1> QED BY <1>3, <1>4, <1>5

-----------------------------------------------------------------------------
(* Sums.  What holds of a set if it holds of the set without any one of    *)
(* its elements holds of every finite set: the least counterexample.       *)
LEMMA SmallerFirst ==
  ASSUME NEW S, IsFiniteSet(S), NEW P,
         \A T \in SUBSET S : (\A x \in T : T \ {x} \in P) => T \in P
  PROVE  \A T \in SUBSET S : T \in P
<1> DEFINE N == {n \in Nat : \E T \in SUBSET S : T \notin P /\ Cardinality(T) = n}
<1> SUFFICES ASSUME NEW U \in SUBSET S, U \notin P PROVE FALSE
    OBVIOUS
<1>1. N \subseteq Nat /\ N # {}
  <2>1. Cardinality(U) \in Nat
        BY FS_Subset, FS_CardinalityType
  <2> QED BY <2>1
<1>2. PICK n \in N : \A m \in N : n =< m
  <2> HIDE DEF N
  <2> QED BY <1>1, SmallestOf
<1>3. PICK T \in SUBSET S : T \notin P /\ Cardinality(T) = n
      BY <1>2
<1>4. ASSUME NEW x \in T PROVE T \ {x} \in P
  <2>1. IsFiniteSet(T)
        BY FS_Subset
  <2>2. Cardinality(T \ {x}) = n - 1 /\ IsFiniteSet(T \ {x})
        BY <1>3, <2>1, FS_RemoveElement
  <2>3. n - 1 \in Nat /\ T \ {x} \in SUBSET S
        BY <2>2, FS_CardinalityType
  <2> QED BY <1>2, <2>2, <2>3
<1> QED BY <1>3, <1>4

LEMMA NatSteps ==
  ASSUME NEW P, 0 \in P, \A n \in Nat : n \in P => n + 1 \in P
  PROVE  \A n \in Nat : n \in P
<1> DEFINE N == {n \in Nat : n \notin P}
<1> SUFFICES ASSUME N # {} PROVE FALSE
    OBVIOUS
<1>1. PICK n \in N : \A m \in N : n =< m
  <2>1. N \subseteq Nat
        OBVIOUS
  <2> HIDE DEF N
  <2> QED BY <2>1, SmallestOf
<1>2. n # 0 /\ n - 1 \in Nat
      OBVIOUS
<1> QED BY <1>1, <1>2

(* The element a fold takes next, and the sums of all subsets of S.        *)
Taken(s) == CHOOSE x \in s : TRUE

SumsOver(g, f, SS) ==
  g = [s \in SS |-> IF s = {} THEN 0 ELSE f[Taken(s)] + g[s \ {Taken(s)}]]

Sums(g, f, S) == SumsOver(g, f, SUBSET S)

IntOn(f, S) == \A x \in S : f[x] \in Int
Agree(f, e, S) == \A x \in S : f[x] = e[x]

Upto(S, n) == {s \in SUBSET S : Cardinality(s) =< n}

LEMMA TakenIs ==
  ASSUME NEW s, s # {}
  PROVE  Taken(s) \in s
BY DEF Taken

LEMMA UptoFacts ==
  ASSUME NEW S, IsFiniteSet(S), NEW n \in Nat, NEW s \in Upto(S, n + 1), s # {}
  PROVE  s \ {Taken(s)} \in Upto(S, n)
<1>1. s \in SUBSET S /\ IsFiniteSet(s) /\ Cardinality(s) =< n + 1 /\ Cardinality(s) \in Nat
      BY FS_Subset, FS_CardinalityType DEF Upto
<1>2. Cardinality(s \ {Taken(s)}) = Cardinality(s) - 1
      BY <1>1, TakenIs, FS_RemoveElement
<1> QED BY <1>1, <1>2 DEF Upto

LEMMA SumsExist ==
  ASSUME NEW S, IsFiniteSet(S), NEW f
  PROVE  \E g : Sums(g, f, S)
<1> DEFINE P == {n \in Nat : \E g : SumsOver(g, f, Upto(S, n))}
<1>1. 0 \in P
  <2>1. \A s \in Upto(S, 0) : s = {}
    <3> SUFFICES ASSUME NEW s \in Upto(S, 0) PROVE s = {}
        OBVIOUS
    <3>1. IsFiniteSet(s) /\ Cardinality(s) \in Nat /\ Cardinality(s) =< 0
          BY FS_Subset, FS_CardinalityType DEF Upto
    <3> QED BY <3>1, FS_EmptySet
  <2>2. SumsOver([s \in Upto(S, 0) |-> 0], f, Upto(S, 0))
        BY <2>1 DEF SumsOver
  <2> QED BY <2>2
<1>2. ASSUME NEW n \in Nat, n \in P PROVE n + 1 \in P
  <2>1. PICK g : SumsOver(g, f, Upto(S, n))
        BY <1>2
  <2> DEFINE h == [s \in Upto(S, n + 1) |->
                    IF s = {} THEN 0 ELSE f[Taken(s)] + g[s \ {Taken(s)}]]
  <2>2. \A s \in Upto(S, n) : h[s] = g[s]
    <3>1. Upto(S, n) \subseteq Upto(S, n + 1)
      <4> SUFFICES ASSUME NEW s \in Upto(S, n) PROVE Cardinality(s) =< n + 1
          BY DEF Upto
      <4>1. Cardinality(s) \in Nat
            BY FS_Subset, FS_CardinalityType DEF Upto
      <4> QED BY <4>1 DEF Upto
    <3> SUFFICES ASSUME NEW s \in Upto(S, n) PROVE h[s] = g[s]
        OBVIOUS
    <3>2. h[s] = IF s = {} THEN 0 ELSE f[Taken(s)] + g[s \ {Taken(s)}]
          BY <3>1
    <3>3. g[s] = IF s = {} THEN 0 ELSE f[Taken(s)] + g[s \ {Taken(s)}]
          BY <2>1 DEF SumsOver
    <3> QED BY <3>2, <3>3
  <2>3. \A s \in Upto(S, n + 1) : s # {} => h[s \ {Taken(s)}] = g[s \ {Taken(s)}]
        BY <2>2, UptoFacts
  <2>4. h = [s \in Upto(S, n + 1) |->
              IF s = {} THEN 0 ELSE f[Taken(s)] + h[s \ {Taken(s)}]]
    <3>1. \A s \in Upto(S, n + 1) :
            (IF s = {} THEN 0 ELSE f[Taken(s)] + g[s \ {Taken(s)}])
              = IF s = {} THEN 0 ELSE f[Taken(s)] + h[s \ {Taken(s)}]
          BY <2>3
    <3> QED BY <3>1
  <2>5. SumsOver(h, f, Upto(S, n + 1))
        BY <2>4 DEF SumsOver
  <2> QED BY <2>5
<1>3. Cardinality(S) \in P
  <2> HIDE DEF P
  <2> QED BY <1>1, <1>2, NatSteps, FS_CardinalityType
<1>4. Upto(S, Cardinality(S)) = SUBSET S
      BY FS_Subset DEF Upto
<1> QED BY <1>3, <1>4 DEF Sums

LEMMA SumUnfolds ==
  ASSUME NEW S, IsFiniteSet(S), NEW f
  PROVE  \E g : Sums(g, f, S) /\ SumFunctionOnSet(f, S) = g[S]
<1> DEFINE g == CHOOSE h : Sums(h, f, S)
<1>1. Sums(g, f, S)
      BY SumsExist
<1>2. SumFunctionOnSet(f, S) = g[S]
      BY DEF SumFunctionOnSet, FoldFunctionOnSet, MapThenFoldSet, Sums, SumsOver, Taken
<1> QED BY <1>1, <1>2

LEMMA SumsInt ==
  ASSUME NEW S, IsFiniteSet(S), NEW f, IntOn(f, S),
         NEW g, Sums(g, f, S)
  PROVE  \A T \in SUBSET S : g[T] \in Int
<1> DEFINE P == {T \in SUBSET S : g[T] \in Int}
<1>1. ASSUME NEW T \in SUBSET S, \A x \in T : T \ {x} \in P
      PROVE  T \in P
  <2>1. g[T] = IF T = {} THEN 0 ELSE f[Taken(T)] + g[T \ {Taken(T)}]
        BY DEF Sums, SumsOver
  <2>2. CASE T = {}
        BY <2>1, <2>2
  <2>3. CASE T # {}
    <3>1. Taken(T) \in T
          BY <2>3, TakenIs
    <3>2. f[Taken(T)] \in Int /\ g[T \ {Taken(T)}] \in Int
          BY <1>1, <3>1 DEF IntOn
    <3> QED BY <2>1, <2>3, <3>2
  <2> QED BY <2>2, <2>3
<1>2. \A T \in SUBSET S : T \in P
  <2> HIDE DEF P
  <2> QED BY <1>1, SmallerFirst
<1> QED BY <1>2

LEMMA SumsAgree ==
  ASSUME NEW S, NEW U, IsFiniteSet(S), IsFiniteSet(U), NEW f, NEW e,
         NEW g, Sums(g, f, S), NEW h, Sums(h, e, U),
         NEW V, V \subseteq S, V \subseteq U, Agree(f, e, V)
  PROVE  g[V] = h[V]
<1> DEFINE P == {T \in SUBSET V : g[T] = h[T]}
<1>1. ASSUME NEW T \in SUBSET V, \A x \in T : T \ {x} \in P
      PROVE  T \in P
  <2>1. /\ g[T] = IF T = {} THEN 0 ELSE f[Taken(T)] + g[T \ {Taken(T)}]
        /\ h[T] = IF T = {} THEN 0 ELSE e[Taken(T)] + h[T \ {Taken(T)}]
        BY DEF Sums, SumsOver
  <2>2. CASE T = {}
        BY <2>1, <2>2
  <2>3. CASE T # {}
    <3>1. Taken(T) \in T /\ f[Taken(T)] = e[Taken(T)]
          BY <2>3, TakenIs DEF Agree
    <3>2. g[T \ {Taken(T)}] = h[T \ {Taken(T)}]
          BY <1>1, <3>1
    <3> QED BY <2>1, <2>3, <3>1, <3>2
  <2> QED BY <2>2, <2>3
<1>2. \A T \in SUBSET V : T \in P
  <2>1. IsFiniteSet(V)
        BY FS_Subset
  <2> HIDE DEF P
  <2> QED BY <1>1, <2>1, SmallerFirst
<1> QED BY <1>2

(* In whatever order a fold takes its elements.                            *)
AnyOrder(g, f, S) == \A T \in SUBSET S : \A x \in T : g[T] = f[x] + g[T \ {x}]

LEMMA SumsAnyOrder ==
  ASSUME NEW S, IsFiniteSet(S), NEW f, IntOn(f, S),
         NEW g, Sums(g, f, S)
  PROVE  AnyOrder(g, f, S)
<1> DEFINE P == {T \in SUBSET S : \A x \in T : g[T] = f[x] + g[T \ {x}]}
<1>1. \A T \in SUBSET S : g[T] \in Int
      BY SumsInt
<1>2. ASSUME NEW T \in SUBSET S, \A x \in T : T \ {x} \in P, NEW x \in T
      PROVE  g[T] = f[x] + g[T \ {x}]
  <2>1. PICK y \in T : y = Taken(T)
        BY TakenIs
  <2>2. g[T] = f[y] + g[T \ {y}]
        BY <2>1 DEF Sums, SumsOver
  <2>3. CASE x = y
        BY <2>2, <2>3
  <2>4. CASE x # y
    <3>1. g[T \ {y}] = f[x] + g[(T \ {y}) \ {x}]
          BY <1>2, <2>4
    <3>2. g[T \ {x}] = f[y] + g[(T \ {x}) \ {y}]
          BY <1>2, <2>4
    <3>3. (T \ {y}) \ {x} = (T \ {x}) \ {y}
          OBVIOUS
    <3>4. g[T \ {y}] = f[x] + g[(T \ {x}) \ {y}]
          BY <3>1, <3>3
    <3>5. g[(T \ {x}) \ {y}] \in Int /\ f[x] \in Int /\ f[y] \in Int
          BY <1>1 DEF IntOn
    <3> HIDE DEF P
    <3>6. \A a, b, r, u, v, w \in Int : u = b + v /\ v = a + r /\ w = b + r => u = a + w
          OBVIOUS
    <3>7. g[T] \in Int /\ g[T \ {y}] \in Int /\ g[T \ {x}] \in Int
          BY <1>1
    <3> QED BY <2>2, <3>2, <3>4, <3>5, <3>6, <3>7
  <2> QED BY <2>3, <2>4
<1>3. \A T \in SUBSET S : T \in P
  <2>1. \A T \in SUBSET S : (\A x \in T : T \ {x} \in P) => T \in P
        BY <1>2
  <2> HIDE DEF P
  <2> QED BY <2>1, SmallerFirst
<1> QED BY <1>3 DEF AnyOrder

(* The sum of a finite set, as its definition should have it.              *)
LEMMA SumEmpty ==
  ASSUME NEW f
  PROVE  SumFunctionOnSet(f, {}) = 0
<1>1. PICK g : Sums(g, f, {}) /\ SumFunctionOnSet(f, {}) = g[{}]
      BY SumUnfolds, FS_EmptySet
<1> QED BY <1>1 DEF Sums, SumsOver

LEMMA SumInt ==
  ASSUME NEW S, IsFiniteSet(S), NEW f, IntOn(f, S)
  PROVE  SumFunctionOnSet(f, S) \in Int
<1>1. PICK g : Sums(g, f, S) /\ SumFunctionOnSet(f, S) = g[S]
      BY SumUnfolds
<1>2. \A T \in SUBSET S : g[T] \in Int
      BY <1>1, SumsInt
<1> QED BY <1>1, <1>2

LEMMA SumSame ==
  ASSUME NEW S, IsFiniteSet(S), NEW f, NEW e, Agree(f, e, S)
  PROVE  SumFunctionOnSet(f, S) = SumFunctionOnSet(e, S)
<1>1. PICK g : Sums(g, f, S) /\ SumFunctionOnSet(f, S) = g[S]
      BY SumUnfolds
<1>2. PICK h : Sums(h, e, S) /\ SumFunctionOnSet(e, S) = h[S]
      BY SumUnfolds
<1>3. g[S] = h[S]
  <2>1. S \subseteq S /\ Sums(g, f, S) /\ Sums(h, e, S) /\ Agree(f, e, S)
        BY <1>1, <1>2
  <2> QED BY ONLY <2>1, IsFiniteSet(S), SumsAgree
<1> QED BY <1>1, <1>2, <1>3

LEMMA SumRemove ==
  ASSUME NEW S, IsFiniteSet(S), NEW f, IntOn(f, S), NEW x \in S
  PROVE  SumFunctionOnSet(f, S) = f[x] + SumFunctionOnSet(f, S \ {x})
<1>1. PICK g : Sums(g, f, S) /\ SumFunctionOnSet(f, S) = g[S]
      BY SumUnfolds
<1>2. IsFiniteSet(S \ {x})
      BY FS_RemoveElement
<1>3. PICK h : Sums(h, f, (S \ {x})) /\ SumFunctionOnSet(f, S \ {x}) = h[S \ {x}]
      BY <1>2, SumUnfolds
<1>4. PICK V : V = S \ {x}
      OBVIOUS
<1>5. g[V] = h[V]
  <2>1. /\ V \subseteq S /\ V \subseteq V /\ IsFiniteSet(V) /\ Agree(f, f, V)
        /\ Sums(g, f, S) /\ Sums(h, f, V)
        BY <1>1, <1>2, <1>3, <1>4 DEF Agree
  <2> QED BY ONLY <2>1, IsFiniteSet(S), SumsAgree
<1>6. AnyOrder(g, f, S)
      BY <1>1, SumsAnyOrder
<1>7. g[S] = f[x] + g[V]
      BY <1>4, <1>6 DEF AnyOrder
<1> QED BY <1>1, <1>3, <1>4, <1>5, <1>7

LEMMA SumAdd ==
  ASSUME NEW S, IsFiniteSet(S), NEW x, x \notin S, NEW f, IntOn(f, S \cup {x})
  PROVE  SumFunctionOnSet(f, S \cup {x}) = f[x] + SumFunctionOnSet(f, S)
<1>1. PICK U : U = S \cup {x}
      OBVIOUS
<1>2. IsFiniteSet(U) /\ x \in U /\ U \ {x} = S /\ IntOn(f, U)
      BY <1>1, FS_AddElement
<1>3. SumFunctionOnSet(f, U) = f[x] + SumFunctionOnSet(f, U \ {x})
      BY <1>2, SumRemove
<1> QED BY <1>1, <1>2, <1>3

-----------------------------------------------------------------------------
(* Sums that differ in one place, of nothing but zeros, of equal terms,    *)
(* and of terms that are close.                                            *)
LEMMA SumChange ==
  ASSUME NEW S, IsFiniteSet(S), NEW f, IntOn(f, S), NEW g, IntOn(g, S), NEW x \in S,
         \A y \in S \ {x} : g[y] = f[y]
  PROVE  SumFunctionOnSet(g, S) = SumFunctionOnSet(f, S) - f[x] + g[x]
<1>1. PICK T : T = S \ {x}
      OBVIOUS
<1>2. IsFiniteSet(T) /\ IntOn(f, T)
      BY <1>1, FS_RemoveElement DEF IntOn
<1>3. SumFunctionOnSet(g, T) = SumFunctionOnSet(f, T)
      BY <1>1, <1>2, SumSame DEF Agree
<1>4. /\ SumFunctionOnSet(f, S) = f[x] + SumFunctionOnSet(f, T)
      /\ SumFunctionOnSet(g, S) = g[x] + SumFunctionOnSet(g, T)
      BY <1>1, SumRemove
<1>5. PICK s, a, b \in Int : s = SumFunctionOnSet(f, T) /\ a = f[x] /\ b = g[x]
      BY <1>2, SumInt DEF IntOn
<1> QED BY <1>3, <1>4, <1>5

LEMMA SumOfSteady ==
  ASSUME NEW S, IsFiniteSet(S), NEW u \in Int, NEW f, \A x \in S : f[x] = u
  PROVE  Cardinality(S) \in Nat /\ SumFunctionOnSet(f, S) = Cardinality(S) * u
<1> DEFINE P == {T \in SUBSET S : SumFunctionOnSet(f, T) = Cardinality(T) * u}
<1>1. ASSUME NEW T \in SUBSET S PROVE IsFiniteSet(T) /\ Cardinality(T) \in Nat /\ IntOn(f, T)
  <2>1. IsFiniteSet(T)
        BY FS_Subset
  <2> QED BY <2>1, FS_CardinalityType DEF IntOn
<1>2. ASSUME NEW T \in SUBSET S, \A x \in T : T \ {x} \in P PROVE T \in P
  <2>1. CASE T = {}
        BY <2>1, SumEmpty, FS_EmptySet
  <2>2. CASE T # {}
    <3>1. PICK x \in T : TRUE
          BY <2>2
    <3>2. SumFunctionOnSet(f, T) = f[x] + SumFunctionOnSet(f, T \ {x})
          BY <1>1, SumRemove
    <3>3. Cardinality(T \ {x}) = Cardinality(T) - 1
          BY <1>1, FS_RemoveElement
    <3>4. SumFunctionOnSet(f, T \ {x}) = Cardinality(T \ {x}) * u
          BY <1>2
    <3>5. PICK n \in Nat : n = Cardinality(T)
          BY <1>1
    <3>6. u + (n - 1) * u = n * u
          OBVIOUS
    <3>7. f[x] = u
          OBVIOUS
    <3> QED BY <3>2, <3>3, <3>4, <3>5, <3>6, <3>7
  <2> QED BY <2>1, <2>2
<1>3. \A T \in SUBSET S : T \in P
  <2>1. \A T \in SUBSET S : (\A x \in T : T \ {x} \in P) => T \in P
        BY <1>2
  <2> HIDE DEF P
  <2> QED BY <2>1, SmallerFirst
<1>4. S \in P
      BY <1>3
<1> QED BY <1>1, <1>4

LEMMA SumOfNear ==
  ASSUME NEW S, IsFiniteSet(S), NEW f, IntOn(f, S), NEW g, IntOn(g, S),
         \A x \in S : g[x] - f[x] <= 5 /\ f[x] - g[x] <= 5
  PROVE  /\ SumFunctionOnSet(g, S) - SumFunctionOnSet(f, S) <= 5 * Cardinality(S)
         /\ SumFunctionOnSet(f, S) - SumFunctionOnSet(g, S) <= 5 * Cardinality(S)
<1> DEFINE Near(T) == /\ SumFunctionOnSet(g, T) - SumFunctionOnSet(f, T) <= 5 * Cardinality(T)
                      /\ SumFunctionOnSet(f, T) - SumFunctionOnSet(g, T) <= 5 * Cardinality(T)
           P == {T \in SUBSET S : Near(T)}
<1>1. ASSUME NEW T \in SUBSET S
      PROVE  IsFiniteSet(T) /\ Cardinality(T) \in Nat /\ IntOn(f, T) /\ IntOn(g, T)
  <2>1. IsFiniteSet(T)
        BY FS_Subset
  <2> QED BY <2>1, FS_CardinalityType DEF IntOn
<1>2. ASSUME NEW T \in SUBSET S, \A x \in T : T \ {x} \in P PROVE T \in P
  <2>1. CASE T = {}
        BY <2>1, SumEmpty, FS_EmptySet
  <2>2. CASE T # {}
    <3>1. PICK x \in T : TRUE
          BY <2>2
    <3>2. /\ SumFunctionOnSet(f, T) = f[x] + SumFunctionOnSet(f, T \ {x})
          /\ SumFunctionOnSet(g, T) = g[x] + SumFunctionOnSet(g, T \ {x})
          BY <1>1, SumRemove
    <3>3. Cardinality(T \ {x}) = Cardinality(T) - 1
          BY <1>1, FS_RemoveElement
    <3>4. Near(T \ {x})
          BY <1>2
    <3>5. PICK n \in Nat : n = Cardinality(T)
          BY <1>1
    <3>6. PICK a, b \in Int : a = SumFunctionOnSet(f, T \ {x}) /\ b = SumFunctionOnSet(g, T \ {x})
          BY <1>1, SumInt
    <3>7. PICK y, z \in Int : y = f[x] /\ z = g[x] /\ z - y <= 5 /\ y - z <= 5
          BY DEF IntOn
    <3>8. b - a <= 5 * (n - 1) /\ a - b <= 5 * (n - 1)
          BY <3>3, <3>4, <3>5, <3>6
    <3>9. (z + b) - (y + a) <= 5 * n /\ (y + a) - (z + b) <= 5 * n
          BY <3>7, <3>8
    <3>10. Near(T)
          BY <3>2, <3>5, <3>6, <3>7, <3>9
    <3> QED BY <3>10
  <2> QED BY <2>1, <2>2
<1>3. \A T \in SUBSET S : T \in P
  <2>1. \A T \in SUBSET S : (\A x \in T : T \ {x} \in P) => T \in P
        BY <1>2
  <2> HIDE DEF P
  <2> QED BY <2>1, SmallerFirst
<1>4. S \in P
      BY <1>3
<1> QED BY <1>4

(* Whatever a finite set is divided by, the sums of its parts add up to    *)
(* its own.                                                                *)
PartSums(f, k, T, V) == [v \in V |-> SumFunctionOnSet(f, {x \in T : k[x] = v})]

LEMMA PartsAddUp ==
  ASSUME NEW S, IsFiniteSet(S), NEW f, IntOn(f, S), NEW V, IsFiniteSet(V),
         NEW k, \A x \in S : k[x] \in V
  PROVE  /\ IntOn(PartSums(f, k, S, V), V)
         /\ SumFunctionOnSet(PartSums(f, k, S, V), V) = SumFunctionOnSet(f, S)
<1> DEFINE P == {T \in SUBSET S :
                   SumFunctionOnSet(PartSums(f, k, T, V), V) = SumFunctionOnSet(f, T)}
<1>1. ASSUME NEW T \in SUBSET S PROVE IsFiniteSet(T) /\ IntOn(f, T)
  <2>1. IsFiniteSet(T)
        BY FS_Subset
  <2> QED BY <2>1 DEF IntOn
<1>2. ASSUME NEW T \in SUBSET S PROVE IntOn(PartSums(f, k, T, V), V)
  <2>1. ASSUME NEW v \in V PROVE SumFunctionOnSet(f, {x \in T : k[x] = v}) \in Int
    <3>1. {x \in T : k[x] = v} \in SUBSET S
          OBVIOUS
    <3>2. IsFiniteSet({x \in T : k[x] = v}) /\ IntOn(f, {x \in T : k[x] = v})
          BY <1>1, <3>1
    <3> QED BY <3>2, SumInt
  <2> QED BY <2>1 DEF IntOn, PartSums
<1>3. ASSUME NEW T \in SUBSET S, \A x \in T : T \ {x} \in P PROVE T \in P
  <2>1. CASE T = {}
    <3>1. PICK z : z = PartSums(f, k, T, V)
          OBVIOUS
    <3>2. \A v \in V : z[v] = 0
      <4>1. \A v \in V : {x \in T : k[x] = v} = {}
            BY <2>1
      <4> QED BY <3>1, <4>1, SumEmpty DEF PartSums
    <3>3. Cardinality(V) \in Nat /\ SumFunctionOnSet(z, V) = Cardinality(V) * 0
          BY <3>2, SumOfSteady
    <3>4. SumFunctionOnSet(z, V) = 0
          BY <3>3
    <3> QED BY <2>1, <3>1, <3>4, SumEmpty
  <2>2. CASE T # {}
    <3>1. PICK x \in T : TRUE
          BY <2>2
    <3>2. PICK R : R = T \ {x}
          OBVIOUS
    <3>3. R \in SUBSET S /\ R \in P
          BY <1>3, <3>1, <3>2
    <3>4. PICK g, h, w : /\ g = PartSums(f, k, R, V) /\ h = PartSums(f, k, T, V)
                         /\ w = k[x]
          OBVIOUS
    <3>5. w \in V /\ IntOn(g, V) /\ IntOn(h, V)
          BY <1>2, <3>3, <3>4
    <3>6. \A v \in V \ {w} : h[v] = g[v]
      <4>1. \A v \in V \ {w} : {y \in T : k[y] = v} = {y \in R : k[y] = v}
            BY <3>2, <3>4
      <4> QED BY <3>4, <4>1 DEF PartSums
    <3>7. h[w] = f[x] + g[w]
      <4>1. PICK C : C = {y \in T : k[y] = w}
            OBVIOUS
      <4>2. C \in SUBSET S /\ x \in C /\ C \ {x} = {y \in R : k[y] = w}
            BY <3>2, <3>4, <4>1
      <4>3. SumFunctionOnSet(f, C) = f[x] + SumFunctionOnSet(f, C \ {x})
            BY <1>1, <4>2, SumRemove
      <4> QED BY <3>4, <3>5, <4>1, <4>2, <4>3 DEF PartSums
    <3>8. SumFunctionOnSet(h, V) = SumFunctionOnSet(g, V) - g[w] + h[w]
          BY <3>5, <3>6, SumChange
    <3>9. SumFunctionOnSet(f, T) = f[x] + SumFunctionOnSet(f, R)
          BY <1>1, <3>2, SumRemove
    <3>10. SumFunctionOnSet(g, V) = SumFunctionOnSet(f, R)
           BY <3>3, <3>4
    <3>11. PICK a, b, c \in Int : a = SumFunctionOnSet(f, R) /\ b = f[x] /\ c = g[w]
           BY <1>1, <3>3, <3>5, SumInt DEF IntOn
    <3>12. SumFunctionOnSet(h, V) = SumFunctionOnSet(f, T)
           BY <3>7, <3>8, <3>9, <3>10, <3>11
    <3> QED BY <3>4, <3>12
  <2> QED BY <2>1, <2>2
<1>4. \A T \in SUBSET S : T \in P
  <2>1. \A T \in SUBSET S : (\A x \in T : T \ {x} \in P) => T \in P
        BY <1>3
  <2> HIDE DEF P
  <2> QED BY <2>1, SmallerFirst
<1>5. S \in P
      BY <1>4
<1> QED BY <1>2, <1>5

(* The sum of two sets apart is that of the one and of the other, and a    *)
(* sum of naturals is one.                                                 *)
LEMMA SumOfUnion ==
  ASSUME NEW S, IsFiniteSet(S), NEW T, IsFiniteSet(T), S \cap T = {},
         NEW f, IntOn(f, S \cup T)
  PROVE  SumFunctionOnSet(f, S \cup T) = SumFunctionOnSet(f, S) + SumFunctionOnSet(f, T)
<1> DEFINE P == {U \in SUBSET T :
                   SumFunctionOnSet(f, S \cup U) = SumFunctionOnSet(f, S) + SumFunctionOnSet(f, U)}
<1>1. ASSUME NEW U \in SUBSET T
      PROVE  /\ IsFiniteSet(U) /\ IsFiniteSet(S \cup U)
             /\ IntOn(f, U) /\ IntOn(f, S \cup U)
  <2>1. IsFiniteSet(U)
        BY FS_Subset
  <2> QED BY <2>1, FS_Union DEF IntOn
<1>2. SumFunctionOnSet(f, S) \in Int
  <2>1. IntOn(f, S)
        BY DEF IntOn
  <2> QED BY <2>1, SumInt
<1>3. ASSUME NEW U \in SUBSET T, \A x \in U : U \ {x} \in P PROVE U \in P
  <2>1. CASE U = {}
    <3>1. S \cup U = S
          BY <2>1
    <3> QED BY <1>2, <2>1, <3>1, SumEmpty
  <2>2. CASE U # {}
    <3>1. PICK x \in U : TRUE
          BY <2>2
    <3>2. PICK W : W = U \ {x}
          OBVIOUS
    <3>3. W \in SUBSET T /\ W \in P /\ x \in S \cup U /\ (S \cup U) \ {x} = S \cup W
          BY <1>3, <3>2
    <3>4. SumFunctionOnSet(f, S \cup U) = f[x] + SumFunctionOnSet(f, S \cup W)
          BY <1>1, <3>3, SumRemove
    <3>5. SumFunctionOnSet(f, U) = f[x] + SumFunctionOnSet(f, W)
          BY <1>1, <3>2, SumRemove
    <3>6. PICK a, b, c \in Int : /\ a = SumFunctionOnSet(f, S) /\ b = SumFunctionOnSet(f, W)
                                 /\ c = f[x]
          BY <1>1, <1>2, <3>3, SumInt DEF IntOn
    <3>7. SumFunctionOnSet(f, S \cup W) = a + b
          BY <3>3, <3>6
    <3> QED BY <3>4, <3>5, <3>6, <3>7
  <2> QED BY <2>1, <2>2
<1>4. \A U \in SUBSET T : U \in P
  <2>1. \A U \in SUBSET T : (\A x \in U : U \ {x} \in P) => U \in P
        BY <1>3
  <2> HIDE DEF P
  <2> QED BY <2>1, SmallerFirst
<1>5. T \in P
      BY <1>4
<1> QED BY <1>5

LEMMA SumOfNat ==
  ASSUME NEW S, IsFiniteSet(S), NEW f, \A x \in S : f[x] \in Nat
  PROVE  SumFunctionOnSet(f, S) \in Nat
<1> DEFINE P == {T \in SUBSET S : SumFunctionOnSet(f, T) \in Nat}
<1>1. ASSUME NEW T \in SUBSET S PROVE IsFiniteSet(T) /\ IntOn(f, T)
  <2>1. IsFiniteSet(T)
        BY FS_Subset
  <2> QED BY <2>1 DEF IntOn
<1>2. ASSUME NEW T \in SUBSET S, \A x \in T : T \ {x} \in P PROVE T \in P
  <2>1. CASE T = {}
        BY <2>1, SumEmpty
  <2>2. CASE T # {}
    <3>1. PICK x \in T : TRUE
          BY <2>2
    <3>2. SumFunctionOnSet(f, T) = f[x] + SumFunctionOnSet(f, T \ {x})
          BY <1>1, SumRemove
    <3>3. SumFunctionOnSet(f, T \ {x}) \in Nat /\ f[x] \in Nat
          BY <1>2
    <3> QED BY <3>2, <3>3
  <2> QED BY <2>1, <2>2
<1>3. \A T \in SUBSET S : T \in P
  <2>1. \A T \in SUBSET S : (\A x \in T : T \ {x} \in P) => T \in P
        BY <1>2
  <2> HIDE DEF P
  <2> QED BY <2>1, SmallerFirst
<1>4. S \in P
      BY <1>3
<1> QED BY <1>4

(* A sum whose terms are all small.                                        *)
LEMMA SumAtMost ==
  ASSUME NEW S, IsFiniteSet(S), NEW u \in Int, NEW f, \A x \in S : f[x] \in Int /\ f[x] <= u
  PROVE  SumFunctionOnSet(f, S) <= Cardinality(S) * u
<1> DEFINE P == {T \in SUBSET S : SumFunctionOnSet(f, T) <= Cardinality(T) * u}
<1>1. ASSUME NEW T \in SUBSET S
      PROVE  /\ IsFiniteSet(T) /\ Cardinality(T) \in Nat /\ IntOn(f, T)
             /\ SumFunctionOnSet(f, T) \in Int
  <2>1. IsFiniteSet(T)
        BY FS_Subset
  <2>2. IntOn(f, T)
        BY DEF IntOn
  <2> QED BY <2>1, <2>2, FS_CardinalityType, SumInt
<1>2. ASSUME NEW T \in SUBSET S, \A x \in T : T \ {x} \in P PROVE T \in P
  <2>1. CASE T = {}
        BY <2>1, SumEmpty, FS_EmptySet
  <2>2. CASE T # {}
    <3>1. PICK x \in T : TRUE
          BY <2>2
    <3>2. SumFunctionOnSet(f, T) = f[x] + SumFunctionOnSet(f, T \ {x})
          BY <1>1, SumRemove
    <3>3. Cardinality(T \ {x}) = Cardinality(T) - 1
          BY <1>1, FS_RemoveElement
    <3>4. SumFunctionOnSet(f, T \ {x}) <= Cardinality(T \ {x}) * u
          BY <1>2
    <3>5. PICK n \in Nat : n = Cardinality(T)
          BY <1>1
    <3>6. PICK v, w, a \in Int : /\ v = f[x] /\ w = SumFunctionOnSet(f, T \ {x})
                                 /\ a = (n - 1) * u
          BY <1>1
    <3>7. u + (n - 1) * u = n * u
          OBVIOUS
    <3>8. v <= u /\ w <= a
          BY <3>3, <3>4, <3>5, <3>6
    <3>9. v + w <= n * u
          BY <3>6, <3>7, <3>8
    <3>10. SumFunctionOnSet(f, T) <= Cardinality(T) * u
           BY <3>2, <3>5, <3>6, <3>9
    <3> QED BY <3>10
  <2> QED BY <2>1, <2>2
<1>3. \A T \in SUBSET S : T \in P
  <2>1. \A T \in SUBSET S : (\A x \in T : T \ {x} \in P) => T \in P
        BY <1>2
  <2> HIDE DEF P
  <2> QED BY <2>1, SmallerFirst
<1>4. S \in P
      BY <1>3
<1> QED BY <1>4

(* More things than u of each kind: some kind has more than u.             *)
OfKind(k, S, v) == {x \in S : k[x] = v}

LEMMA Pigeonhole ==
  ASSUME NEW S, IsFiniteSet(S), NEW V, IsFiniteSet(V), NEW k, \A x \in S : k[x] \in V,
         NEW u \in Int, Cardinality(S) > u * Cardinality(V)
  PROVE  \E v \in V : Cardinality(OfKind(k, S, v)) > u
<1> SUFFICES ASSUME \A v \in V : ~(Cardinality(OfKind(k, S, v)) > u)
             PROVE  FALSE
    OBVIOUS
<1>1. PICK f : f = [x \in S |-> 1]
      OBVIOUS
<1>2. IntOn(f, S) /\ \A x \in S : f[x] = 1
      BY <1>1 DEF IntOn
<1>3. PICK g : g = PartSums(f, k, S, V)
      OBVIOUS
<1>4. SumFunctionOnSet(g, V) = SumFunctionOnSet(f, S)
      BY <1>2, <1>3, PartsAddUp
<1>5. Cardinality(S) \in Nat /\ SumFunctionOnSet(f, S) = Cardinality(S) * 1
      BY <1>2, SumOfSteady
<1>6. ASSUME NEW v \in V PROVE g[v] \in Int /\ g[v] <= u
  <2>1. PICK T : T = {x \in S : k[x] = v}
        OBVIOUS
  <2>2. T \in SUBSET S /\ IsFiniteSet(T)
        BY <2>1, FS_Subset
  <2>3. Cardinality(T) \in Nat /\ SumFunctionOnSet(f, T) = Cardinality(T) * 1
        BY <1>2, <2>2, SumOfSteady
  <2>4. g[v] = SumFunctionOnSet(f, T)
        BY <1>3, <2>1 DEF PartSums
  <2>5. ~(Cardinality(T) > u)
        BY <2>1 DEF OfKind
  <2> QED BY <2>3, <2>4, <2>5
<1>7. SumFunctionOnSet(g, V) <= Cardinality(V) * u
      BY <1>6, SumAtMost
<1>8. PICK m, n \in Nat : m = Cardinality(S) /\ n = Cardinality(V)
      BY <1>5, FS_CardinalityType
<1>9. m * 1 <= n * u /\ m > u * n
      BY <1>4, <1>5, <1>7, <1>8
<1> QED BY <1>9

-----------------------------------------------------------------------------
(* Sorting.  What less puts first is one relation on I, in which elements  *)
(* may be equal.                                                           *)
WeakOrder(I, less) ==
  /\ \A i, j \in I : <<i, j>> \in less => <<j, i>> \notin less
  /\ \A i, j, k \in I : <<i, k>> \in less => <<i, j>> \in less \/ <<j, k>> \in less

(* The places of a strict order count from 0 up, each once.                *)
AheadOf(I, less, i) == {j \in I : <<j, i>> \in less \/ (<<i, j>> \notin less /\ j < i)}

LEMMA PlacesDiffer ==
  ASSUME NEW I, I \subseteq Int, IsFiniteSet(I), NEW less, WeakOrder(I, less),
         NEW i \in I, NEW j \in I, j \in AheadOf(I, less, i)
  PROVE  Cardinality(AheadOf(I, less, j)) < Cardinality(AheadOf(I, less, i))
<1> DEFINE A == AheadOf(I, less, j)  B == AheadOf(I, less, i)
<1>1. i \in Int /\ j \in Int
      OBVIOUS
<1>2. A \subseteq B
  <2>1. ASSUME NEW k \in I, k \in A PROVE k \in B
    <3>1. k \in Int
          OBVIOUS
    <3>2. /\ <<k, j>> \in less \/ (<<j, k>> \notin less /\ k < j)
          /\ <<j, i>> \in less \/ (<<i, j>> \notin less /\ j < i)
          BY <2>1 DEF AheadOf
    <3>3. /\ <<k, j>> \in less => <<k, i>> \in less \/ <<i, j>> \in less
          /\ <<j, i>> \in less => <<j, k>> \in less \/ <<k, i>> \in less
          /\ <<i, k>> \in less => <<i, j>> \in less \/ <<j, k>> \in less
          /\ <<k, j>> \in less => <<j, k>> \notin less
          /\ <<i, j>> \in less => <<j, i>> \notin less
          BY DEF WeakOrder
    <3>4. <<k, i>> \in less \/ (<<i, k>> \notin less /\ k < i)
      <4>1. CASE <<k, i>> \in less
            BY <4>1
      <4>2. CASE <<k, i>> \notin less
        <5>1. <<i, j>> \notin less
              BY <3>2, <3>3, <4>2
        <5>2. <<j, k>> \notin less
              BY <3>2, <3>3, <4>2
        <5>3. k < i /\ <<i, k>> \notin less
              BY <1>1, <3>1, <3>2, <3>3, <4>2, <5>1, <5>2
        <5> QED BY <5>3
      <4> QED BY <4>1, <4>2
    <3> QED BY <3>4 DEF AheadOf
  <2> QED BY <2>1 DEF AheadOf
<1>3. j \in B /\ j \notin A
  <2>1. <<j, j>> \notin less
        BY DEF WeakOrder
  <2> QED BY <1>1, <2>1 DEF AheadOf
<1>4. B \in SUBSET I /\ IsFiniteSet(B)
  <2>1. B \in SUBSET I
        BY DEF AheadOf
  <2> QED BY <2>1, FS_Subset
<1> HIDE DEF A, B
<1>5. A \in SUBSET B /\ A # B
      BY <1>2, <1>3
<1>6. /\ IsFiniteSet(A) /\ Cardinality(A) <= Cardinality(B)
      /\ Cardinality(A) # Cardinality(B)
      BY <1>4, <1>5, FS_Subset
<1>7. Cardinality(A) \in Nat /\ Cardinality(B) \in Nat
      BY <1>4, <1>6, FS_CardinalityType
<1>8. Cardinality(A) < Cardinality(B)
      BY <1>6, <1>7
<1> QED BY <1>8 DEF A, B

LEMMA PlacesAreAll ==
  ASSUME NEW I, I \subseteq Int, IsFiniteSet(I), NEW less, WeakOrder(I, less),
         NEW n, n = Cardinality(I)
  PROVE  /\ n \in Nat
         /\ \A i \in I : Cardinality(AheadOf(I, less, i)) \in 0..(n - 1)
         /\ \A k \in 1..n : \E i \in I : Cardinality(AheadOf(I, less, i)) = k - 1
<1>1. n \in Nat
      BY FS_CardinalityType
<1>2. ASSUME NEW i \in I PROVE Cardinality(AheadOf(I, less, i)) \in 0..(n - 1)
  <2>1. AheadOf(I, less, i) \in SUBSET (I \ {i})
    <3>1. i \in Int /\ <<i, i>> \notin less
          BY DEF WeakOrder
    <3> QED BY <3>1 DEF AheadOf
  <2>2. IsFiniteSet(I \ {i}) /\ Cardinality(I \ {i}) = n - 1
        BY FS_RemoveElement
  <2>3. /\ IsFiniteSet(AheadOf(I, less, i))
        /\ Cardinality(AheadOf(I, less, i)) <= n - 1
        BY <2>1, <2>2, FS_Subset
  <2>4. Cardinality(AheadOf(I, less, i)) \in Nat
        BY <2>3, FS_CardinalityType
  <2> QED BY <1>1, <2>3, <2>4
<1> DEFINE f == [i \in I |-> Cardinality(AheadOf(I, less, i))]
<1>3. f \in [I -> 0..(n - 1)]
      BY <1>2
<1>4. ASSUME NEW i \in I, NEW j \in I, i # j PROVE f[i] # f[j]
  <2>1. i \in AheadOf(I, less, j) \/ j \in AheadOf(I, less, i)
    <3>1. i \in Int /\ j \in Int
          OBVIOUS
    <3> QED BY <1>4, <3>1 DEF AheadOf, WeakOrder
  <2>2. f[i] < f[j] \/ f[j] < f[i]
        BY <2>1, PlacesDiffer
  <2>3. f[i] \in Int /\ f[j] \in Int
        BY <1>2
  <2> QED BY <2>2, <2>3
<1>5. f \in Injection(I, 0..(n - 1))
      BY <1>3, <1>4 DEF Injection, IsInjective
<1>6. IsFiniteSet(0..(n - 1)) /\ Cardinality(0..(n - 1)) = n
  <2>1. 0 \in Int /\ n - 1 \in Int
        BY <1>1
  <2>2. Cardinality(0..(n - 1)) = IF 0 > n - 1 THEN 0 ELSE (n - 1) - 0 + 1
        BY ONLY <2>1, FS_Interval
  <2>3. IsFiniteSet(0..(n - 1))
        BY ONLY <2>1, FS_Interval
  <2> QED BY <1>1, <2>2, <2>3
<1>7. f \in Surjection(I, 0..(n - 1))
      BY <1>5, <1>6, FS_Injection
<1>8. \A m \in 0..(n - 1) : \E i \in I : f[i] = m
      BY <1>7 DEF Surjection
<1>9. ASSUME NEW k \in 1..n PROVE \E i \in I : Cardinality(AheadOf(I, less, i)) = k - 1
  <2>1. k - 1 \in 0..(n - 1)
        BY <1>1
  <2> QED BY <1>8, <2>1
<1> QED BY <1>1, <1>2, <1>9

(* An order holds every position once, and none after one that it is less  *)
(* than.                                                                   *)
Sorted(I, less, n, q) ==
  /\ n \in Nat /\ DOMAIN q = 1..n /\ q \in Seq(I) /\ Len(q) = n
  /\ \A k \in 1..n : q[k] \in I
  /\ \A i \in I : \E k \in 1..n : q[k] = i
  /\ \A k, l \in 1..n : k < l => q[k] # q[l] /\ <<q[l], q[k]>> \notin less

LEMMA OrderedIs ==
  ASSUME NEW I, I \subseteq Int, IsFiniteSet(I), NEW less, WeakOrder(I, less)
  PROVE  Sorted(I, less, Cardinality(I), Ordered(I, less))
<1> DEFINE n == Cardinality(I)
           q == Ordered(I, less)
<1>1. /\ n \in Nat
      /\ \A i \in I : Cardinality(AheadOf(I, less, i)) \in 0..(n - 1)
      /\ \A k \in 1..n : \E i \in I : Cardinality(AheadOf(I, less, i)) = k - 1
      BY PlacesAreAll
<1>2. q = [k \in 1..n |-> CHOOSE i \in I : Cardinality(AheadOf(I, less, i)) = k - 1]
      BY DEF Ordered, AheadOf
<1>3. ASSUME NEW k \in 1..n
      PROVE  q[k] \in I /\ Cardinality(AheadOf(I, less, q[k])) = k - 1
  <2>1. \E i \in I : Cardinality(AheadOf(I, less, i)) = k - 1
        BY <1>1
  <2>2. q[k] = CHOOSE i \in I : Cardinality(AheadOf(I, less, i)) = k - 1
        BY <1>2
  <2> QED BY <2>1, <2>2
<1>4. ASSUME NEW i \in I PROVE \E k \in 1..n : q[k] = i
  <2>1. PICK c \in 0..(n - 1) : c = Cardinality(AheadOf(I, less, i))
        BY <1>1
  <2>2. c + 1 \in 1..n /\ (c + 1) - 1 = c
        BY <1>1
  <2>3. q[c + 1] \in I /\ Cardinality(AheadOf(I, less, q[c + 1])) = c
        BY <1>3, <2>2
  <2>4. q[c + 1] = i
    <3>1. SUFFICES ASSUME q[c + 1] # i PROVE FALSE
          OBVIOUS
    <3>2. PICK j \in I : j = q[c + 1]
          BY <2>3
    <3>3. i \in AheadOf(I, less, j) \/ j \in AheadOf(I, less, i)
      <4>1. i \in Int /\ j \in Int /\ i # j
            BY <3>1, <3>2
      <4> QED BY <4>1 DEF AheadOf, WeakOrder
    <3>4. c < c
          BY <2>1, <2>3, <3>2, <3>3, PlacesDiffer
    <3> QED BY <3>4
  <2> QED BY <2>2, <2>4
<1>5. ASSUME NEW k \in 1..n, NEW l \in 1..n, k < l
      PROVE  q[k] # q[l] /\ <<q[l], q[k]>> \notin less
  <2>1. PICK i, j \in I : i = q[k] /\ j = q[l]
        BY <1>3
  <2>2. Cardinality(AheadOf(I, less, i)) = k - 1 /\ Cardinality(AheadOf(I, less, j)) = l - 1
        BY <1>3, <2>1
  <2>3. k - 1 # l - 1 /\ ~(l - 1 < k - 1)
        BY <1>5
  <2>4. i # j
        BY <2>2, <2>3
  <2>5. j \notin AheadOf(I, less, i)
        BY <2>2, <2>3, PlacesDiffer
  <2> QED BY <2>1, <2>4, <2>5 DEF AheadOf
<1>6. q \in Seq(I) /\ Len(q) = n /\ DOMAIN q = 1..n
  <2>1. q \in [1..n -> I]
        BY <1>2, <1>3
  <2> QED BY <1>1, <2>1
<1>7. Sorted(I, less, n, q)
  <2> HIDE DEF n, q
  <2> QED BY <1>1, <1>3, <1>4, <1>5, <1>6 DEF Sorted
<1> QED BY <1>7
=============================================================================
