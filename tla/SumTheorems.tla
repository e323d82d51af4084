---------------------------- MODULE SumTheorems -----------------------------
(* Facts about sums over finite sets (SumFunctionOnSet). They are what the   *)
(* proofs about balances, stock and cash rest on. Induction is done on sets  *)
(* of subsets: a set that holds {} and with every T also T \cup {x} holds    *)
(* all of them.                                                              *)
EXTENDS Integers, FiniteSets, Functions, FiniteSetTheorems, WellFoundedInduction, TLAPS

(* Any set of numbers has a least one. *)
LEMMA LeastNumber ==
  ASSUME NEW S \in SUBSET Nat, S # {}
  PROVE  \E m \in S : \A n \in S : m <= n
<1> DEFINE R == { ss \in Nat \X Nat : ss[1] < ss[2] }
<1>1. OpToRel(<, Nat) = R
  BY Zenon DEF OpToRel
<1>2. IsWellFoundedOn(R, Nat)
  BY <1>1, NatLessThanWellFounded, Zenon
<1>3. \E m \in S : \A n \in S : ~(<<n, m>> \in R)
  <2> HIDE DEF R
  <2> QED BY <1>2, WFMin, Zenon
<1>4. \A m, n \in Nat : n < m => <<n, m>> \in R
  OBVIOUS
<1> HIDE DEF R
<1>5. PICK m \in S : \A n \in S : ~(<<n, m>> \in R)
  BY <1>3
<1>6. ASSUME NEW n \in S
      PROVE  m <= n
  <2>1. m \in Nat /\ n \in Nat
    OBVIOUS
  <2>2. ~(n < m)
    BY <1>4, <1>5, <2>1
  <2> QED BY <2>1, <2>2
<1> QED BY <1>6

(* Induction on the number. *)
LEMMA NumberInduction ==
  ASSUME NEW P \in SUBSET Nat, 0 \in P, \A n \in P : n + 1 \in P
  PROVE  P = Nat
<1> SUFFICES ASSUME Nat \ P # {} PROVE FALSE
  OBVIOUS
<1>1. PICK m \in Nat \ P : \A n \in Nat \ P : m <= n
  BY LeastNumber
<1>2. m # 0 /\ m - 1 \in Nat /\ ~(m <= m - 1)
  BY <1>1
<1>3. m - 1 \in P
  BY <1>1, <1>2
<1>4. (m - 1) + 1 \in P /\ (m - 1) + 1 = m
  BY <1>3, <1>1
<1> QED BY <1>1, <1>4

(* Taking an element away. *)
LEMMA OneLess ==
  ASSUME NEW T, IsFiniteSet(T), NEW n \in Nat, Cardinality(T) = n + 1
  PROVE  /\ T # {}
         /\ \A x \in T : IsFiniteSet(T \ {x}) /\ Cardinality(T \ {x}) = n
<1>1. T # {}
  BY FS_EmptySet
<1>2. ASSUME NEW x \in T
      PROVE  IsFiniteSet(T \ {x}) /\ Cardinality(T \ {x}) = n
  <2>1. IsFiniteSet(T \ {x}) /\ Cardinality(T \ {x}) = Cardinality(T) - 1
    BY FS_RemoveElement, Zenon
  <2> QED BY <2>1
<1> QED BY <1>1, <1>2

(* Induction on a finite set, one element at a time. *)
LEMMA FiniteInduction ==
  ASSUME NEW S, IsFiniteSet(S), NEW P,
         {} \in P,
         \A T \in SUBSET S : \A x \in S : T \in P => T \cup {x} \in P
  PROVE  S \in P
<1> DEFINE N == { n \in Nat : \A T \in SUBSET S : Cardinality(T) = n => T \in P }
<1>1. 0 \in N
  <2> SUFFICES ASSUME NEW T \in SUBSET S, Cardinality(T) = 0 PROVE T \in P
    OBVIOUS
  <2>1. T = {}
    BY FS_Subset, FS_EmptySet
  <2> QED BY <2>1
<1>2. ASSUME NEW n \in N
      PROVE  n + 1 \in N
  <2> SUFFICES ASSUME NEW T \in SUBSET S, Cardinality(T) = n + 1 PROVE T \in P
    OBVIOUS
  <2>0. n \in Nat
    OBVIOUS
  <2>1. IsFiniteSet(T) /\ T # {}
    BY <2>0, FS_Subset, OneLess
  <2>2. PICK x \in T : TRUE
    BY <2>1
  <2>3. Cardinality(T \ {x}) = n
    BY <2>0, <2>1, <2>2, OneLess
  <2>4. T \ {x} \in P
    BY <2>3
  <2>5. (T \ {x}) \cup {x} = T
    OBVIOUS
  <2> QED BY <2>4, <2>5
<1>3. N = Nat
  <2> HIDE DEF N
  <2>1. N \in SUBSET Nat
    BY DEF N
  <2> QED BY <1>1, <1>2, <2>1, NumberInduction
<1>4. Cardinality(S) \in Nat
  BY FS_CardinalityType
<1> QED BY <1>3, <1>4

-----------------------------------------------------------------------------
(* How SumFunctionOnSet is computed: an element is picked, its value added   *)
(* to the sum of the rest.                                                   *)
Pick(s) == CHOOSE x \in s : TRUE

Sums(g, f, D) == g = [s \in D |-> IF s = {} THEN 0 ELSE f[Pick(s)] + g[s \ {Pick(s)}]]

(* The definition, unfolded. *)
LEMMA SumUnfolds ==
  ASSUME NEW f, NEW S
  PROVE  SumFunctionOnSet(f, S) = (CHOOSE g : Sums(g, f, SUBSET S))[S]
  BY DEF SumFunctionOnSet, FoldFunctionOnSet, MapThenFoldSet, Sums, Pick

(* Such a function exists for the subsets of a finite set. *)
LEMMA SumsExist ==
  ASSUME NEW f, NEW S, IsFiniteSet(S)
  PROVE  \E g : Sums(g, f, SUBSET S)
<1> DEFINE D(n) == { s \in SUBSET S : Cardinality(s) <= n }
           N == { n \in Nat : \E g : Sums(g, f, D(n)) }
<1>1. \A s \in SUBSET S : IsFiniteSet(s) /\ Cardinality(s) \in Nat
  BY FS_Subset, FS_CardinalityType
<1>2. 0 \in N
  <2>1. D(0) = {{}}
    BY <1>1, FS_EmptySet
  <2>2. Sums([s \in {{}} |-> 0], f, {{}})
    BY DEF Sums
  <2> QED BY <2>1, <2>2
<1>3. ASSUME NEW n \in N
      PROVE  n + 1 \in N
  <2>1. PICK h : Sums(h, f, D(n))
    OBVIOUS
  <2> DEFINE g == [s \in D(n + 1) |-> IF s = {} THEN 0 ELSE f[Pick(s)] + h[s \ {Pick(s)}]]
  <2>2. ASSUME NEW s \in D(n + 1), s # {}
        PROVE  s \ {Pick(s)} \in D(n)
    <3>1. Pick(s) \in s
      BY <2>2 DEF Pick
    <3>2. Cardinality(s \ {Pick(s)}) = Cardinality(s) - 1
      BY <3>1, <1>1, FS_RemoveElement
    <3> QED BY <3>2, <1>1
  <2>3. ASSUME NEW s \in D(n)
        PROVE  g[s] = h[s]
    <3>1. s \in D(n + 1)
      BY <1>1
    <3> QED BY <2>1, <3>1 DEF Sums
  <2>4. g = [s \in D(n + 1) |-> IF s = {} THEN 0 ELSE f[Pick(s)] + g[s \ {Pick(s)}]]
    <3> HIDE DEF g
    <3>1. g = [s \in D(n + 1) |-> IF s = {} THEN 0 ELSE f[Pick(s)] + h[s \ {Pick(s)}]]
      BY DEF g
    <3>2. ASSUME NEW s \in D(n + 1), s # {}
          PROVE  h[s \ {Pick(s)}] = g[s \ {Pick(s)}]
      BY <2>2, <2>3, <3>2
    <3> HIDE DEF D
    <3>3. \A s \in D(n + 1) : (IF s = {} THEN 0 ELSE f[Pick(s)] + h[s \ {Pick(s)}])
                              = (IF s = {} THEN 0 ELSE f[Pick(s)] + g[s \ {Pick(s)}])
      BY <3>2
    <3> QED BY <3>1, <3>3
  <2>5. Sums(g, f, D(n + 1))
    BY <2>4 DEF Sums
  <2> HIDE DEF D, g
  <2> QED BY <2>5
<1>4. N = Nat
  <2> HIDE DEF N
  <2>1. N \in SUBSET Nat
    BY DEF N
  <2> QED BY <1>2, <1>3, <2>1, NumberInduction
<1>5. D(Cardinality(S)) = SUBSET S
  BY FS_Subset
<1>6. Cardinality(S) \in N
  BY <1>1, <1>4
<1> QED BY <1>5, <1>6

(* Two of them agree where both are defined. *)
LEMMA SumsAgree ==
  ASSUME NEW f, NEW S, IsFiniteSet(S), NEW T \in SUBSET S, NEW g, NEW h,
         Sums(g, f, SUBSET S), Sums(h, f, SUBSET T)
  PROVE  g[T] = h[T]
<1> DEFINE N == { n \in Nat : \A s \in SUBSET T : Cardinality(s) = n => g[s] = h[s] }
<1>0. \A s \in SUBSET T : IsFiniteSet(s) /\ Cardinality(s) \in Nat
  BY FS_Subset, FS_CardinalityType
<1>1. 0 \in N
  <2> SUFFICES ASSUME NEW s \in SUBSET T, Cardinality(s) = 0 PROVE g[s] = h[s]
    OBVIOUS
  <2>1. s = {} /\ s \in SUBSET S
    BY <1>0, FS_EmptySet
  <2> QED BY <2>1 DEF Sums
<1>2. ASSUME NEW n \in N
      PROVE  n + 1 \in N
  <2> SUFFICES ASSUME NEW s \in SUBSET T, Cardinality(s) = n + 1 PROVE g[s] = h[s]
    OBVIOUS
  <2>0. n \in Nat
    OBVIOUS
  <2>1. s # {} /\ s \in SUBSET S
    BY <1>0, <2>0, OneLess
  <2>2. Pick(s) \in s
    BY <2>1 DEF Pick
  <2>3. s \ {Pick(s)} \in SUBSET T /\ Cardinality(s \ {Pick(s)}) = n
    BY <1>0, <2>0, <2>2, OneLess
  <2>4. g[s \ {Pick(s)}] = h[s \ {Pick(s)}]
    BY <2>3
  <2>5. g[s] = f[Pick(s)] + g[s \ {Pick(s)}] /\ h[s] = f[Pick(s)] + h[s \ {Pick(s)}]
    BY <2>1 DEF Sums
  <2> QED BY <2>4, <2>5
<1>3. N = Nat
  <2> HIDE DEF N
  <2>1. N \in SUBSET Nat
    BY DEF N
  <2> QED BY <1>1, <1>2, <2>1, NumberInduction
<1>4. Cardinality(T) \in Nat
  BY <1>0
<1> QED BY <1>3, <1>4

(* The sum of nothing is zero; of something, the value of what is picked     *)
(* first and the sum of the rest.                                            *)
LEMMA SumPicks ==
  ASSUME NEW f, NEW S, IsFiniteSet(S)
  PROVE  /\ SumFunctionOnSet(f, {}) = 0
         /\ S # {} => SumFunctionOnSet(f, S)
                        = f[Pick(S)] + SumFunctionOnSet(f, S \ {Pick(S)})
<1> DEFINE of(T) == CHOOSE g : Sums(g, f, SUBSET T)
<1>1. ASSUME NEW T, IsFiniteSet(T)
      PROVE  Sums(of(T), f, SUBSET T) /\ SumFunctionOnSet(f, T) = of(T)[T]
  BY <1>1, SumsExist, SumUnfolds
<1> HIDE DEF of
<1>2. SumFunctionOnSet(f, {}) = 0
  BY <1>1, FS_EmptySet DEF Sums
<1>3. ASSUME S # {}
      PROVE  SumFunctionOnSet(f, S) = f[Pick(S)] + SumFunctionOnSet(f, S \ {Pick(S)})
  <2> DEFINE T == S \ {Pick(S)}
  <2>1. IsFiniteSet(T) /\ T \in SUBSET S
    BY FS_RemoveElement
  <2>2. of(S)[S] = f[Pick(S)] + of(S)[T]
    <3>1. Sums(of(S), f, SUBSET S) /\ S \in SUBSET S
      BY <1>1
    <3> HIDE DEF T
    <3>2. of(S)[S] = f[Pick(S)] + of(S)[S \ {Pick(S)}]
      BY <1>3, <3>1 DEF Sums
    <3> QED BY <3>2 DEF T
  <2>3. of(S)[T] = of(T)[T]
    <3>1. Sums(of(S), f, SUBSET S) /\ Sums(of(T), f, SUBSET T)
      BY <1>1, <2>1
    <3> HIDE DEF T
    <3> QED BY <2>1, <3>1, SumsAgree
  <2> QED BY <1>1, <2>1, <2>2, <2>3
<1> QED BY <1>2, <1>3

(* The empty sum. *)
LEMMA SumEmpty == ASSUME NEW f PROVE SumFunctionOnSet(f, {}) = 0
  BY FS_EmptySet, SumPicks

-----------------------------------------------------------------------------
(* A sum of integers is an integer. *)
LEMMA SumInt ==
  ASSUME NEW S, IsFiniteSet(S), NEW f, \A x \in S : f[x] \in Int
  PROVE  SumFunctionOnSet(f, S) \in Int
<1> DEFINE Sum(T) == SumFunctionOnSet(f, T)
           N == { n \in Nat : \A T \in SUBSET S : Cardinality(T) = n => Sum(T) \in Int }
<1>0. \A T \in SUBSET S : IsFiniteSet(T) /\ Cardinality(T) \in Nat
  BY FS_Subset, FS_CardinalityType
<1>1. /\ Sum({}) = 0
       /\ \A T \in SUBSET S : T # {} => Sum(T) = f[Pick(T)] + Sum(T \ {Pick(T)})
  BY <1>0, SumPicks
<1> HIDE DEF Sum
<1>2. 0 \in N
  <2> SUFFICES ASSUME NEW T \in SUBSET S, Cardinality(T) = 0 PROVE Sum(T) \in Int
    OBVIOUS
  <2>1. T = {}
    BY <1>0, FS_EmptySet
  <2> QED BY <2>1, <1>1
<1>3. ASSUME NEW n \in N
      PROVE  n + 1 \in N
  <2> SUFFICES ASSUME NEW T \in SUBSET S, Cardinality(T) = n + 1 PROVE Sum(T) \in Int
    OBVIOUS
  <2>0. n \in Nat
    OBVIOUS
  <2>1. T # {} /\ \A x \in T : T \ {x} \in SUBSET S /\ Cardinality(T \ {x}) = n
    BY <1>0, <2>0, OneLess
  <2>2. Pick(T) \in T
    BY <2>1 DEF Pick
  <2>3. Sum(T \ {Pick(T)}) \in Int /\ f[Pick(T)] \in Int
    BY <2>1, <2>2
  <2> QED BY <1>1, <2>1, <2>3
<1>4. N = Nat
  <2> HIDE DEF N
  <2>1. N \in SUBSET Nat
    BY DEF N
  <2> QED BY <1>2, <1>3, <2>1, NumberInduction
<1> QED BY <1>0, <1>4 DEF Sum

(* Any element may be picked first: addition does not mind the order.        *)
LEMMA SumTake ==
  ASSUME NEW S, IsFiniteSet(S), NEW f, \A x \in S : f[x] \in Int
  PROVE  /\ SumFunctionOnSet(f, S) \in Int
         /\ \A x \in S : /\ SumFunctionOnSet(f, S \ {x}) \in Int
                         /\ SumFunctionOnSet(f, S) = f[x] + SumFunctionOnSet(f, S \ {x})
<1> DEFINE Sum(T) == SumFunctionOnSet(f, T)
           Q(T) == Sum(T) \in Int /\ \A x \in T : Sum(T) = f[x] + Sum(T \ {x})
           N == { n \in Nat : \A T \in SUBSET S : Cardinality(T) = n => Q(T) }
<1>0. \A T \in SUBSET S : IsFiniteSet(T) /\ Cardinality(T) \in Nat
  BY FS_Subset, FS_CardinalityType
<1>1. /\ Sum({}) = 0
       /\ \A T \in SUBSET S : T # {} => Sum(T) = f[Pick(T)] + Sum(T \ {Pick(T)})
  BY <1>0, SumPicks
<1>2. \A T \in SUBSET S : Sum(T) \in Int
  BY <1>0, SumInt
<1> HIDE DEF Sum
<1>3. 0 \in N
  <2> SUFFICES ASSUME NEW T \in SUBSET S, Cardinality(T) = 0 PROVE Q(T)
    OBVIOUS
  <2>1. T = {}
    BY <1>0, FS_EmptySet
  <2> QED BY <2>1, <1>1
<1>4. ASSUME NEW n \in N
      PROVE  n + 1 \in N
  <2> SUFFICES ASSUME NEW T \in SUBSET S, Cardinality(T) = n + 1 PROVE Q(T)
    OBVIOUS
  <2>0. n \in Nat
    OBVIOUS
  <2>1. /\ T # {}
        /\ \A x \in T : T \ {x} \in SUBSET S /\ Cardinality(T \ {x}) = n
    BY <1>0, <2>0, OneLess
  <2>2. \A x \in T : Q(T \ {x})
    BY <2>1
  <2> DEFINE y == Pick(T)
  <2>3. y \in T
    BY <2>1 DEF Pick
  <2>4. Sum(T) = f[y] + Sum(T \ {y})
    BY <1>1, <2>1
  <2> HIDE DEF y, N
  <2>5. f[y] \in Int /\ Sum(T \ {y}) \in Int
    BY <2>2, <2>3
  <2>6. ASSUME NEW x \in T, x # y
        PROVE  Sum(T) = f[x] + Sum(T \ {x})
    <3>1. Sum(T \ {y}) = f[x] + Sum((T \ {y}) \ {x})
      BY <2>2, <2>3, <2>6
    <3>2. Sum(T \ {x}) = f[y] + Sum((T \ {x}) \ {y})
      BY <2>2, <2>3, <2>6
    <3>3. (T \ {x}) \ {y} = (T \ {y}) \ {x}
      OBVIOUS
    <3>4. Sum((T \ {y}) \ {x}) \in Int
      BY <1>2
    <3>5. f[x] \in Int
      OBVIOUS
    <3>6. \A a, b, c \in Int : a + (b + c) = b + (a + c)
      OBVIOUS
    <3>7. Sum(T \ {x}) = f[y] + Sum((T \ {y}) \ {x})
      BY <3>2, <3>3
    <3> HIDE DEF Q
    <3>8. f[y] + (f[x] + Sum((T \ {y}) \ {x})) = f[x] + (f[y] + Sum((T \ {y}) \ {x}))
      BY <2>5, <3>4, <3>5, <3>6
    <3> QED BY <2>4, <3>1, <3>7, <3>8, Zenon
  <2>7. Sum(T) \in Int
    BY <2>4, <2>5
  <2> QED BY <2>3, <2>4, <2>6, <2>7
<1>5. N = Nat
  <2> HIDE DEF N
  <2>1. N \in SUBSET Nat
    BY DEF N
  <2> QED BY <1>3, <1>4, <2>1, NumberInduction
<1>6. \A T \in SUBSET S : Q(T)
  BY <1>0, <1>5
<1> QED BY <1>6 DEF Sum

(* The sum of a set with one more element. *)
LEMMA SumAdd ==
  ASSUME NEW S, IsFiniteSet(S), NEW x, x \notin S, NEW f, f[x] \in Int, \A y \in S : f[y] \in Int
  PROVE  SumFunctionOnSet(f, S \cup {x}) = f[x] + SumFunctionOnSet(f, S)
<1> DEFINE T == S \cup {x}
<1>1. IsFiniteSet(T) /\ (\A y \in T : f[y] \in Int) /\ x \in T /\ T \ {x} = S
  BY FS_AddElement
<1> HIDE DEF T
<1>2. SumFunctionOnSet(f, T) = f[x] + SumFunctionOnSet(f, T \ {x})
  BY <1>1, SumTake
<1> QED BY <1>1, <1>2 DEF T

(* Sums of functions that agree on the set are equal. *)
LEMMA SumSame ==
  ASSUME NEW S, IsFiniteSet(S), NEW f, NEW g, \A x \in S : f[x] = g[x] /\ f[x] \in Int
  PROVE  SumFunctionOnSet(f, S) = SumFunctionOnSet(g, S)
<1> DEFINE P == { T \in SUBSET S : SumFunctionOnSet(f, T) = SumFunctionOnSet(g, T) }
<1>1. {} \in P
  BY SumEmpty
<1>2. ASSUME NEW T \in SUBSET S, NEW x \in S, T \in P
      PROVE  T \cup {x} \in P
  <2>1. CASE x \in T
    <3>1. T \cup {x} = T
      BY <2>1
    <3> QED BY <1>2, <3>1
  <2>2. CASE x \notin T
    <3>1. IsFiniteSet(T)
      BY FS_Subset
    <3>2. \A y \in T : f[y] \in Int /\ g[y] \in Int
      OBVIOUS
    <3>3. f[x] = g[x] /\ f[x] \in Int
      OBVIOUS
    <3>4. SumFunctionOnSet(f, T \cup {x}) = f[x] + SumFunctionOnSet(f, T)
      BY <2>2, <3>1, <3>2, <3>3, SumAdd
    <3>5. SumFunctionOnSet(g, T \cup {x}) = g[x] + SumFunctionOnSet(g, T)
      BY <2>2, <3>1, <3>2, <3>3, SumAdd
    <3> QED BY <1>2, <3>3, <3>4, <3>5
  <2> QED BY <2>1, <2>2
<1> HIDE DEF P
<1>3. S \in P
  BY <1>1, <1>2, FiniteInduction
<1> QED BY <1>3 DEF P

(* Changing one value changes the sum by as much. *)
LEMMA SumChange ==
  ASSUME NEW S, IsFiniteSet(S), NEW f, NEW g, NEW x \in S,
         \A y \in S : f[y] \in Int /\ g[y] \in Int,
         \A y \in S \ {x} : f[y] = g[y]
  PROVE  /\ SumFunctionOnSet(f, S) \in Int
         /\ SumFunctionOnSet(g, S) = SumFunctionOnSet(f, S) + g[x] - f[x]
<1> DEFINE T == S \ {x}
<1>1. IsFiniteSet(T) /\ \A y \in T : f[y] = g[y] /\ f[y] \in Int
  BY FS_RemoveElement
<1> HIDE DEF T
<1>2. SumFunctionOnSet(f, T) = SumFunctionOnSet(g, T) /\ SumFunctionOnSet(f, T) \in Int
  BY <1>1, SumSame, SumInt
<1>3. SumFunctionOnSet(f, S) = f[x] + SumFunctionOnSet(f, T)
  BY SumTake DEF T
<1>4. SumFunctionOnSet(g, S) = g[x] + SumFunctionOnSet(g, T)
  BY SumTake DEF T
<1>5. f[x] \in Int /\ g[x] \in Int
  OBVIOUS
<1> QED BY <1>2, <1>3, <1>4, <1>5

(* Adding up two functions together or one after the other is the same. *)
LEMMA SumPlus ==
  ASSUME NEW S, IsFiniteSet(S), NEW f, NEW g, NEW h,
         \A x \in S : f[x] \in Int /\ g[x] \in Int /\ h[x] = f[x] + g[x]
  PROVE  SumFunctionOnSet(h, S) = SumFunctionOnSet(f, S) + SumFunctionOnSet(g, S)
<1> DEFINE P == { T \in SUBSET S : SumFunctionOnSet(h, T)
                                     = SumFunctionOnSet(f, T) + SumFunctionOnSet(g, T) }
<1>1. {} \in P
  BY SumEmpty
<1>2. ASSUME NEW T \in SUBSET S, NEW x \in S, T \in P
      PROVE  T \cup {x} \in P
  <2>1. CASE x \in T
    <3>1. T \cup {x} = T
      BY <2>1
    <3> QED BY <1>2, <3>1
  <2>2. CASE x \notin T
    <3>1. IsFiniteSet(T)
      BY FS_Subset
    <3>2. \A y \in T : f[y] \in Int /\ g[y] \in Int /\ h[y] \in Int
      OBVIOUS
    <3>3. h[x] = f[x] + g[x] /\ f[x] \in Int /\ g[x] \in Int /\ h[x] \in Int
      OBVIOUS
    <3>4. SumFunctionOnSet(f, T \cup {x}) = f[x] + SumFunctionOnSet(f, T)
      BY <2>2, <3>1, <3>2, <3>3, SumAdd
    <3>5. SumFunctionOnSet(g, T \cup {x}) = g[x] + SumFunctionOnSet(g, T)
      BY <2>2, <3>1, <3>2, <3>3, SumAdd
    <3>6. SumFunctionOnSet(h, T \cup {x}) = h[x] + SumFunctionOnSet(h, T)
      BY <2>2, <3>1, <3>2, <3>3, SumAdd
    <3>7. SumFunctionOnSet(f, T) \in Int /\ SumFunctionOnSet(g, T) \in Int
      BY <3>1, <3>2, SumInt
    <3>8. SumFunctionOnSet(h, T) = SumFunctionOnSet(f, T) + SumFunctionOnSet(g, T)
      BY <1>2
    <3> HIDE DEF P
    <3>9. SumFunctionOnSet(h, T \cup {x})
            = SumFunctionOnSet(f, T \cup {x}) + SumFunctionOnSet(g, T \cup {x})
      BY <3>3, <3>4, <3>5, <3>6, <3>7, <3>8
    <3> QED BY <3>9 DEF P
  <2> QED BY <2>1, <2>2
<1> HIDE DEF P
<1>3. S \in P
  BY <1>1, <1>2, FiniteInduction
<1> QED BY <1>3 DEF P

(* A greater function has a greater sum. *)
LEMMA SumAtMost ==
  ASSUME NEW S, IsFiniteSet(S), NEW f, NEW g,
         \A x \in S : f[x] \in Int /\ g[x] \in Int /\ f[x] <= g[x]
  PROVE  SumFunctionOnSet(f, S) <= SumFunctionOnSet(g, S)
<1> DEFINE P == { T \in SUBSET S : SumFunctionOnSet(f, T) <= SumFunctionOnSet(g, T) }
<1>1. {} \in P
  BY SumEmpty
<1>2. ASSUME NEW T \in SUBSET S, NEW x \in S, T \in P
      PROVE  T \cup {x} \in P
  <2>1. CASE x \in T
    <3>1. T \cup {x} = T
      BY <2>1
    <3> QED BY <1>2, <3>1
  <2>2. CASE x \notin T
    <3>1. IsFiniteSet(T)
      BY FS_Subset
    <3>2. \A y \in T : f[y] \in Int /\ g[y] \in Int
      OBVIOUS
    <3>3. f[x] <= g[x] /\ f[x] \in Int /\ g[x] \in Int
      OBVIOUS
    <3>4. SumFunctionOnSet(f, T \cup {x}) = f[x] + SumFunctionOnSet(f, T)
      BY <2>2, <3>1, <3>2, <3>3, SumAdd
    <3>5. SumFunctionOnSet(g, T \cup {x}) = g[x] + SumFunctionOnSet(g, T)
      BY <2>2, <3>1, <3>2, <3>3, SumAdd
    <3>6. SumFunctionOnSet(f, T) \in Int /\ SumFunctionOnSet(g, T) \in Int
      BY <3>1, <3>2, SumInt
    <3>7. SumFunctionOnSet(f, T) <= SumFunctionOnSet(g, T)
      BY <1>2
    <3> HIDE DEF P
    <3>8. SumFunctionOnSet(f, T \cup {x}) <= SumFunctionOnSet(g, T \cup {x})
      BY <3>3, <3>4, <3>5, <3>6, <3>7
    <3> QED BY <3>8 DEF P
  <2> QED BY <2>1, <2>2
<1> HIDE DEF P
<1>3. S \in P
  BY <1>1, <1>2, FiniteInduction
<1> QED BY <1>3 DEF P

(* What is zero need not be added. *)
LEMMA SumPart ==
  ASSUME NEW S, IsFiniteSet(S), NEW T \in SUBSET S, NEW f, NEW g,
         \A x \in S : f[x] \in Int,
         \A x \in S : g[x] = IF x \in T THEN f[x] ELSE 0
  PROVE  SumFunctionOnSet(f, T) = SumFunctionOnSet(g, S)
<1> DEFINE P == { U \in SUBSET S : SumFunctionOnSet(f, T \cap U) = SumFunctionOnSet(g, U) }
<1>1. {} \in P
  <2>1. T \cap {} = {}
    OBVIOUS
  <2> QED BY <2>1, FS_EmptySet, SumPicks
<1>2. ASSUME NEW U \in SUBSET S, NEW x \in S, U \in P
      PROVE  U \cup {x} \in P
  <2>1. CASE x \in U
    <3>1. U \cup {x} = U
      BY <2>1
    <3> QED BY <1>2, <3>1
  <2>2. CASE x \notin U
    <3>1. IsFiniteSet(U) /\ IsFiniteSet(T \cap U)
      BY FS_Subset
    <3>2. \A y \in U : f[y] \in Int /\ g[y] \in Int
      OBVIOUS
    <3>3. f[x] \in Int /\ g[x] \in Int
      OBVIOUS
    <3>4. SumFunctionOnSet(g, U \cup {x}) = g[x] + SumFunctionOnSet(g, U)
      BY <2>2, <3>1, <3>2, <3>3, SumAdd
    <3>5. SumFunctionOnSet(g, U) \in Int /\ SumFunctionOnSet(f, T \cap U) = SumFunctionOnSet(g, U)
      BY <1>2, <3>1, <3>2, SumInt
    <3>6. CASE x \in T
      <4>1. T \cap (U \cup {x}) = (T \cap U) \cup {x} /\ x \notin T \cap U /\ g[x] = f[x]
        BY <2>2, <3>6
      <4>2. SumFunctionOnSet(f, (T \cap U) \cup {x}) = f[x] + SumFunctionOnSet(f, T \cap U)
        BY <3>1, <3>2, <3>3, <4>1, SumAdd
      <4>3. SumFunctionOnSet(f, T \cap (U \cup {x})) = SumFunctionOnSet(g, U \cup {x})
        BY <3>4, <3>5, <4>1, <4>2
      <4> QED BY <4>3
    <3>7. CASE x \notin T
      <4>1. T \cap (U \cup {x}) = T \cap U /\ g[x] = 0
        BY <2>2, <3>7
      <4>2. SumFunctionOnSet(g, U \cup {x}) = SumFunctionOnSet(g, U)
        BY <3>4, <3>5, <4>1
      <4> QED BY <3>5, <4>1, <4>2
    <3> QED BY <3>6, <3>7
  <2> QED BY <2>1, <2>2
<1> HIDE DEF P
<1>3. S \in P
  BY <1>1, <1>2, FiniteInduction
<1>4. T \cap S = T
  OBVIOUS
<1> QED BY <1>3, <1>4 DEF P

(* A sum of zeros is zero. *)
LEMMA SumZero ==
  ASSUME NEW S, IsFiniteSet(S), NEW f, \A x \in S : f[x] = 0
  PROVE  SumFunctionOnSet(f, S) = 0
<1> DEFINE P == { T \in SUBSET S : SumFunctionOnSet(f, T) = 0 }
<1>1. {} \in P
  BY SumEmpty
<1>2. ASSUME NEW T \in SUBSET S, NEW x \in S, T \in P
      PROVE  T \cup {x} \in P
  <2>1. CASE x \in T
    <3>1. T \cup {x} = T
      BY <2>1
    <3> QED BY <1>2, <3>1
  <2>2. CASE x \notin T
    <3>1. IsFiniteSet(T) /\ f[x] \in Int /\ \A y \in T : f[y] \in Int
      BY FS_Subset
    <3>2. SumFunctionOnSet(f, T \cup {x}) = f[x] + SumFunctionOnSet(f, T)
      BY <2>2, <3>1, SumAdd
    <3> QED BY <1>2, <3>2
  <2> QED BY <2>1, <2>2
<1> HIDE DEF P
<1>3. S \in P
  BY <1>1, <1>2, FiniteInduction
<1> QED BY <1>3 DEF P

(* More of what is not negative has a greater sum. *)
LEMMA SumOfMore ==
  ASSUME NEW S, IsFiniteSet(S), NEW T \in SUBSET S, NEW f, \A x \in S : f[x] \in Nat
  PROVE  SumFunctionOnSet(f, T) <= SumFunctionOnSet(f, S)
<1> DEFINE g == [x \in S |-> IF x \in T THEN f[x] ELSE 0]
<1>1. \A x \in S : f[x] \in Int /\ g[x] \in Int /\ g[x] <= f[x]
  OBVIOUS
<1>2. \A x \in S : g[x] = IF x \in T THEN f[x] ELSE 0
  OBVIOUS
<1> HIDE DEF g
<1>3. SumFunctionOnSet(f, T) = SumFunctionOnSet(g, S)
  BY <1>1, <1>2, SumPart
<1>4. SumFunctionOnSet(g, S) <= SumFunctionOnSet(f, S)
  BY <1>1, SumAtMost
<1> QED BY <1>3, <1>4

(* A common factor can be taken out of a sum. *)
LEMMA SumTimes ==
  ASSUME NEW S, IsFiniteSet(S), NEW k \in Int, NEW f, NEW g,
         \A x \in S : f[x] \in Int /\ g[x] = k * f[x]
  PROVE  SumFunctionOnSet(g, S) = k * SumFunctionOnSet(f, S)
<1> DEFINE P == { T \in SUBSET S : SumFunctionOnSet(g, T) = k * SumFunctionOnSet(f, T) }
<1>1. {} \in P
  <2>1. SumFunctionOnSet(f, {}) = 0 /\ SumFunctionOnSet(g, {}) = 0
    BY SumEmpty
  <2>2. k * 0 = 0
    OBVIOUS
  <2> QED BY <2>1, <2>2
<1>2. ASSUME NEW T \in SUBSET S, NEW x \in S, T \in P
      PROVE  T \cup {x} \in P
  <2>1. CASE x \in T
    <3>1. T \cup {x} = T
      BY <2>1
    <3> QED BY <1>2, <3>1
  <2>2. CASE x \notin T
    <3>1. IsFiniteSet(T) /\ \A y \in T : f[y] \in Int
      BY FS_Subset
    <3>2. f[x] \in Int /\ g[x] = k * f[x] /\ g[x] \in Int /\ \A y \in T : g[y] \in Int
      OBVIOUS
    <3>3. SumFunctionOnSet(f, T \cup {x}) = f[x] + SumFunctionOnSet(f, T)
      BY <2>2, <3>1, <3>2, SumAdd
    <3>4. SumFunctionOnSet(g, T \cup {x}) = g[x] + SumFunctionOnSet(g, T)
      BY <2>2, <3>1, <3>2, SumAdd
    <3>5. SumFunctionOnSet(f, T) \in Int
      BY <3>1, SumInt
    <3>6. \A a, b \in Int : k * (a + b) = k * a + k * b
      OBVIOUS
    <3>7. SumFunctionOnSet(g, T) = k * SumFunctionOnSet(f, T)
      BY <1>2
    <3> QED BY <3>2, <3>3, <3>4, <3>5, <3>6, <3>7
  <2> QED BY <2>1, <2>2
<1> HIDE DEF P
<1>3. S \in P
  BY <1>1, <1>2, FiniteInduction
<1> QED BY <1>3 DEF P

(* A sum of natural numbers is one. *)
LEMMA SumNat ==
  ASSUME NEW S, IsFiniteSet(S), NEW f, \A x \in S : f[x] \in Nat
  PROVE  SumFunctionOnSet(f, S) \in Nat
<1>1. SumFunctionOnSet(f, {}) <= SumFunctionOnSet(f, S)
  BY SumOfMore
<1>2. SumFunctionOnSet(f, S) \in Int
  BY SumInt
<1> QED BY <1>1, <1>2, SumEmpty

(* The sum of one value is that value. *)
LEMMA SumOne ==
  ASSUME NEW f, NEW x, f[x] \in Int
  PROVE  SumFunctionOnSet(f, {x}) = f[x]
<1>1. SumFunctionOnSet(f, {} \cup {x}) = f[x] + SumFunctionOnSet(f, {})
  BY FS_EmptySet, SumAdd
<1>2. {} \cup {x} = {x}
  OBVIOUS
<1> QED BY <1>1, <1>2, SumEmpty

(* A sum of ones counts. *)
LEMMA SumCounts ==
  ASSUME NEW S, IsFiniteSet(S), NEW f, \A x \in S : f[x] = 1
  PROVE  SumFunctionOnSet(f, S) = Cardinality(S)
<1> DEFINE P == { T \in SUBSET S : SumFunctionOnSet(f, T) = Cardinality(T) }
<1>1. {} \in P
  BY SumEmpty, FS_EmptySet
<1>2. ASSUME NEW T \in SUBSET S, NEW x \in S, T \in P
      PROVE  T \cup {x} \in P
  <2>1. CASE x \in T
    <3>1. T \cup {x} = T
      BY <2>1
    <3> QED BY <1>2, <3>1
  <2>2. CASE x \notin T
    <3>1. IsFiniteSet(T) /\ f[x] = 1 /\ f[x] \in Int /\ \A y \in T : f[y] \in Int
      BY FS_Subset
    <3>2. SumFunctionOnSet(f, T \cup {x}) = f[x] + SumFunctionOnSet(f, T)
      BY <2>2, <3>1, SumAdd
    <3>3. Cardinality(T \cup {x}) = Cardinality(T) + 1 /\ Cardinality(T) \in Nat
      BY <2>2, <3>1, FS_AddElement, FS_CardinalityType
    <3> QED BY <1>2, <3>1, <3>2, <3>3
  <2> QED BY <2>1, <2>2
<1> HIDE DEF P
<1>3. S \in P
  BY <1>1, <1>2, FiniteInduction
<1> QED BY <1>3 DEF P

-----------------------------------------------------------------------------
(* What m names the elements of S, and those of S that k puts under y. *)
ImageOf(m, S) == { m[x] : x \in S }
GroupOf(S, k, y) == { x \in S : k[x] = y }

(* The image of a finite set is finite. *)
LEMMA FiniteImage ==
  ASSUME NEW S, IsFiniteSet(S), NEW m
  PROVE  IsFiniteSet(ImageOf(m, S))
<1> DEFINE n == [x \in S |-> m[x]]
<1>1. n \in Surjection(S, ImageOf(m, S))
  BY DEF Surjection, ImageOf
<1> QED BY <1>1, FS_Surjection

(* What is named twice is summed under either name. *)
LEMMA SumRenamed ==
  ASSUME NEW S, IsFiniteSet(S), NEW m, NEW f, NEW g,
         \A x, y \in S : m[x] = m[y] => x = y,
         \A x \in S : g[x] \in Int /\ f[m[x]] = g[x]
  PROVE  SumFunctionOnSet(f, ImageOf(m, S)) = SumFunctionOnSet(g, S)
<1> DEFINE Image(T) == ImageOf(m, T)
           P == { T \in SUBSET S : SumFunctionOnSet(f, Image(T)) = SumFunctionOnSet(g, T) }
<1>1. {} \in P
  <2>1. Image({}) = {}
    BY DEF ImageOf
  <2> QED BY <2>1, SumEmpty
<1>2. ASSUME NEW T \in SUBSET S, NEW x \in S, T \in P
      PROVE  T \cup {x} \in P
  <2>1. CASE x \in T
    <3>1. T \cup {x} = T
      BY <2>1
    <3> QED BY <1>2, <3>1
  <2>2. CASE x \notin T
    <3>1. IsFiniteSet(T) /\ IsFiniteSet(Image(T))
      BY FS_Subset, FiniteImage
    <3>2. g[x] \in Int /\ f[m[x]] \in Int /\ f[m[x]] = g[x] /\ \A y \in T : g[y] \in Int
      OBVIOUS
    <3>3. Image(T \cup {x}) = Image(T) \cup {m[x]}
      BY DEF ImageOf
    <3>4. m[x] \notin Image(T)
      BY <2>2 DEF ImageOf
    <3>5. \A z \in Image(T) : f[z] \in Int
      BY DEF ImageOf
    <3>6. SumFunctionOnSet(f, Image(T)) = SumFunctionOnSet(g, T)
      BY <1>2
    <3>7. T \cup {x} \in SUBSET S
      OBVIOUS
    <3> HIDE DEF Image
    <3>8. SumFunctionOnSet(f, Image(T) \cup {m[x]}) = f[m[x]] + SumFunctionOnSet(f, Image(T))
      BY <3>1, <3>2, <3>4, <3>5, SumAdd
    <3>9. SumFunctionOnSet(g, T \cup {x}) = g[x] + SumFunctionOnSet(g, T)
      BY <2>2, <3>1, <3>2, SumAdd
    <3> QED BY <3>2, <3>3, <3>6, <3>7, <3>8, <3>9
  <2> QED BY <2>1, <2>2
<1> HIDE DEF P
<1>3. S \in P
  BY <1>1, <1>2, FiniteInduction
<1> QED BY <1>3 DEF P

(* Adding up by groups: the sum of the sums of the groups is the sum. *)
LEMMA SumByGroup ==
  ASSUME NEW S, IsFiniteSet(S), NEW K, IsFiniteSet(K), NEW k \in [S -> K], NEW f, NEW g,
         \A x \in S : f[x] \in Int,
         \A y \in K : g[y] = SumFunctionOnSet(f, GroupOf(S, k, y))
  PROVE  SumFunctionOnSet(g, K) = SumFunctionOnSet(f, S)
<1> DEFINE Group(T, y) == GroupOf(T, k, y)
           h(T) == [y \in K |-> SumFunctionOnSet(f, Group(T, y))]
           P == { T \in SUBSET S : SumFunctionOnSet(h(T), K) = SumFunctionOnSet(f, T) }
<1>0. ASSUME NEW T \in SUBSET S, NEW y
      PROVE  IsFiniteSet(Group(T, y)) /\ SumFunctionOnSet(f, Group(T, y)) \in Int
  <2>1. IsFiniteSet(Group(T, y)) /\ \A x \in Group(T, y) : f[x] \in Int
    BY FS_Subset DEF GroupOf
  <2> HIDE DEF Group
  <2> QED BY <2>1, SumInt
<1>1. {} \in P
  <2>1. ASSUME NEW y \in K
        PROVE  h({})[y] = 0
    <3>1. Group({}, y) = {}
      BY DEF GroupOf
    <3> QED BY <3>1, SumEmpty
  <2> HIDE DEF h
  <2>2. SumFunctionOnSet(h({}), K) = 0
    BY <2>1, SumZero
  <2> QED BY <2>2, SumEmpty
<1>2. ASSUME NEW T \in SUBSET S, NEW x \in S, T \in P
      PROVE  T \cup {x} \in P
  <2>1. CASE x \in T
    <3>1. T \cup {x} = T
      BY <2>1
    <3> QED BY <1>2, <3>1
  <2>2. CASE x \notin T
    <3>1. IsFiniteSet(T) /\ k[x] \in K /\ f[x] \in Int /\ \A y \in T : f[y] \in Int
      BY FS_Subset
    <3>2. ASSUME NEW y \in K \ {k[x]}
          PROVE  h(T \cup {x})[y] = h(T)[y]
      <4>1. Group(T \cup {x}, y) = Group(T, y)
        BY DEF GroupOf
      <4> QED BY <4>1
    <3>3. h(T \cup {x})[k[x]] = f[x] + h(T)[k[x]]
      <4>1. Group(T \cup {x}, k[x]) = Group(T, k[x]) \cup {x}
        BY DEF GroupOf
      <4>2. x \notin Group(T, k[x]) /\ \A y \in Group(T, k[x]) : f[y] \in Int
        BY <2>2 DEF GroupOf
      <4>3. IsFiniteSet(Group(T, k[x]))
        BY <1>0
      <4>4. h(T \cup {x})[k[x]] = SumFunctionOnSet(f, Group(T \cup {x}, k[x]))
        BY <3>1
      <4>5. h(T)[k[x]] = SumFunctionOnSet(f, Group(T, k[x]))
        BY <3>1
      <4> HIDE DEF Group, h
      <4>6. SumFunctionOnSet(f, Group(T, k[x]) \cup {x}) = f[x] + SumFunctionOnSet(f, Group(T, k[x]))
        BY <3>1, <4>2, <4>3, SumAdd
      <4> QED BY <4>1, <4>4, <4>5, <4>6
    <3>4. T \cup {x} \in SUBSET S
      OBVIOUS
    <3>5. \A y \in K : h(T)[y] \in Int /\ h(T \cup {x})[y] \in Int
      <4> HIDE DEF Group
      <4> QED BY <1>0, <3>4
    <3> HIDE DEF h
    <3> DEFINE a == h(T)
               b == h(T \cup {x})
    <3>6. /\ SumFunctionOnSet(a, K) \in Int
          /\ SumFunctionOnSet(b, K) = SumFunctionOnSet(a, K) + b[k[x]] - a[k[x]]
      <4>1. \A y \in K : a[y] \in Int /\ b[y] \in Int
        BY <3>5
      <4>2. \A y \in K \ {k[x]} : a[y] = b[y]
        BY <3>2
      <4> HIDE DEF a, b
      <4>3. PICK v \in K : v = k[x]
        BY <3>1
      <4>4. \A y \in K \ {v} : a[y] = b[y]
        BY <4>2, <4>3
      <4>5. /\ SumFunctionOnSet(a, K) \in Int
            /\ SumFunctionOnSet(b, K) = SumFunctionOnSet(a, K) + b[v] - a[v]
        BY <4>1, <4>4, SumChange
      <4> QED BY <4>3, <4>5
    <3>7. SumFunctionOnSet(f, T \cup {x}) = f[x] + SumFunctionOnSet(f, T)
      BY <2>2, <3>1, SumAdd
    <3>8. a[k[x]] \in Int /\ b[k[x]] = f[x] + a[k[x]] /\ SumFunctionOnSet(a, K) = SumFunctionOnSet(f, T)
      BY <1>2, <3>1, <3>3, <3>5
    <3>9. SumFunctionOnSet(b, K) = SumFunctionOnSet(f, T \cup {x})
      <4> HIDE DEF a, b
      <4> QED BY <3>1, <3>6, <3>7, <3>8
    <3> QED BY <3>4, <3>9
  <2> QED BY <2>1, <2>2
<1>3. S \in P
  <2> HIDE DEF P
  <2> QED BY <1>1, <1>2, FiniteInduction
<1>4. SumFunctionOnSet(h(S), K) = SumFunctionOnSet(f, S)
  BY <1>3
<1>5. \A y \in K : h(S)[y] = g[y] /\ h(S)[y] \in Int
  BY <1>0
<1> HIDE DEF h
<1>6. SumFunctionOnSet(h(S), K) = SumFunctionOnSet(g, K)
  BY <1>5, SumSame
<1> QED BY <1>4, <1>6

(* Counting by groups. *)
LEMMA CountByGroup ==
  ASSUME NEW S, IsFiniteSet(S), NEW K, IsFiniteSet(K), NEW k \in [S -> K], NEW g,
         \A y \in K : g[y] = Cardinality(GroupOf(S, k, y))
  PROVE  SumFunctionOnSet(g, K) = Cardinality(S)
<1> DEFINE f == [x \in S |-> 1]
<1>1. \A x \in S : f[x] = 1
  OBVIOUS
<1> HIDE DEF f
<1>2. \A x \in S : f[x] \in Int
  BY <1>1
<1>3. ASSUME NEW y \in K
      PROVE  g[y] = SumFunctionOnSet(f, GroupOf(S, k, y))
  <2>1. PICK T : T = GroupOf(S, k, y)
    OBVIOUS
  <2>2. IsFiniteSet(T) /\ \A x \in T : f[x] = 1
    BY <1>1, <2>1, FS_Subset DEF GroupOf
  <2>3. SumFunctionOnSet(f, T) = Cardinality(T)
    BY <2>2, SumCounts
  <2> QED BY <2>1, <2>3
<1>4. SumFunctionOnSet(g, K) = SumFunctionOnSet(f, S)
  BY <1>2, <1>3, SumByGroup
<1>5. SumFunctionOnSet(f, S) = Cardinality(S)
  BY <1>1, SumCounts
<1> QED BY <1>4, <1>5

(* A table of integers by rows (t), and the same table by columns (c). *)
Transposed(t, c, S, K) == \A x \in S : \A y \in K : t[x][y] \in Int /\ c[y][x] = t[x][y]

(* A table may be added up by rows or by columns. *)
LEMMA SumSwap ==
  ASSUME NEW S, IsFiniteSet(S), NEW K, IsFiniteSet(K), NEW t, NEW c, Transposed(t, c, S, K),
         NEW a, NEW b,
         \A x \in S : a[x] = SumFunctionOnSet(t[x], K),
         \A y \in K : b[y] = SumFunctionOnSet(c[y], S)
  PROVE  SumFunctionOnSet(a, S) = SumFunctionOnSet(b, K)
<1>1. \A x \in S : \A y \in K : t[x][y] \in Int /\ c[y][x] = t[x][y]
  BY DEF Transposed
<1> DEFINE e(T) == [y \in K |-> SumFunctionOnSet(c[y], T)]
           P == { T \in SUBSET S : SumFunctionOnSet(a, T) = SumFunctionOnSet(e(T), K) }
<1>2. ASSUME NEW T \in SUBSET S
      PROVE  /\ IsFiniteSet(T)
             /\ \A y \in K : e(T)[y] = SumFunctionOnSet(c[y], T) /\ e(T)[y] \in Int
             /\ \A x \in T : a[x] \in Int
  <2>1. IsFiniteSet(T)
    BY FS_Subset
  <2>2. ASSUME NEW y \in K
        PROVE  SumFunctionOnSet(c[y], T) \in Int
    <3>1. \A x \in T : c[y][x] \in Int
      BY <1>1
    <3> QED BY <2>1, <3>1, SumInt
  <2>3. ASSUME NEW x \in T
        PROVE  a[x] \in Int
    <3>1. PICK u : u = t[x]
      OBVIOUS
    <3>2. \A y \in K : u[y] \in Int
      BY <1>1, <3>1
    <3>3. SumFunctionOnSet(u, K) \in Int
      BY <3>2, SumInt
    <3> QED BY <3>1, <3>3
  <2> QED BY <2>1, <2>2, <2>3
<1>3. {} \in P
  <2>1. \A y \in K : e({})[y] = 0
    BY SumEmpty
  <2> HIDE DEF e
  <2>2. SumFunctionOnSet(e({}), K) = 0
    BY <2>1, SumZero
  <2> QED BY <2>2, SumEmpty
<1>4. ASSUME NEW T \in SUBSET S, NEW x \in S, T \in P
      PROVE  T \cup {x} \in P
  <2>1. CASE x \in T
    <3>1. T \cup {x} = T
      BY <2>1
    <3> QED BY <1>4, <3>1
  <2>2. CASE x \notin T
    <3>1. T \cup {x} \in SUBSET S
      OBVIOUS
    <3>2. IsFiniteSet(T) /\ a[x] \in Int /\ \A y \in T : a[y] \in Int
      BY <1>2, <3>1
    <3>3. SumFunctionOnSet(a, T \cup {x}) = a[x] + SumFunctionOnSet(a, T)
      BY <2>2, <3>2, SumAdd
    <3>4. PICK u : u = t[x]
      OBVIOUS
    <3>5. (\A y \in K : u[y] \in Int) /\ a[x] = SumFunctionOnSet(u, K)
      BY <1>1, <3>4
    <3>6. ASSUME NEW y \in K
          PROVE  e(T \cup {x})[y] = u[y] + e(T)[y]
      <4>1. (\A z \in T : c[y][z] \in Int) /\ c[y][x] = u[y]
        BY <1>1, <3>4
      <4>2. e(T \cup {x})[y] = SumFunctionOnSet(c[y], T \cup {x}) /\ e(T)[y] = SumFunctionOnSet(c[y], T)
        BY <1>2, <3>1
      <4> HIDE DEF e
      <4>3. SumFunctionOnSet(c[y], T \cup {x}) = c[y][x] + SumFunctionOnSet(c[y], T)
        BY <2>2, <3>2, <3>5, <4>1, SumAdd
      <4> QED BY <4>1, <4>2, <4>3
    <3>7. \A y \in K : u[y] \in Int /\ e(T)[y] \in Int /\ e(T \cup {x})[y] = u[y] + e(T)[y]
      BY <1>2, <3>5, <3>6
    <3>8. SumFunctionOnSet(a, T) = SumFunctionOnSet(e(T), K)
      BY <1>4
    <3> HIDE DEF e, P
    <3>9. SumFunctionOnSet(e(T \cup {x}), K) = SumFunctionOnSet(u, K) + SumFunctionOnSet(e(T), K)
      <4>1. PICK v, w : v = e(T) /\ w = e(T \cup {x})
        OBVIOUS
      <4>2. \A y \in K : u[y] \in Int /\ v[y] \in Int /\ w[y] = u[y] + v[y]
        BY <3>7, <4>1
      <4>3. SumFunctionOnSet(w, K) = SumFunctionOnSet(u, K) + SumFunctionOnSet(v, K)
        BY <4>2, SumPlus
      <4> QED BY <4>1, <4>3
    <3>10. SumFunctionOnSet(a, T \cup {x}) = SumFunctionOnSet(e(T \cup {x}), K)
      BY <3>3, <3>5, <3>8, <3>9
    <3> QED BY <3>1, <3>10 DEF P
  <2> QED BY <2>1, <2>2
<1> HIDE DEF P
<1>5. S \in P
  BY <1>3, <1>4, FiniteInduction
<1>6. SumFunctionOnSet(a, S) = SumFunctionOnSet(e(S), K)
  BY <1>5 DEF P
<1>7. \A y \in K : e(S)[y] = b[y] /\ e(S)[y] \in Int
  BY <1>2
<1> HIDE DEF e
<1>8. SumFunctionOnSet(e(S), K) = SumFunctionOnSet(b, K)
  BY <1>7, SumSame
<1> QED BY <1>6, <1>8

=============================================================================
