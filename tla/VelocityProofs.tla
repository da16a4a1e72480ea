--------------------------- MODULE VelocityProofs ---------------------------
(***************************************************************************)
(* The velocity windows, for any references, amounts, filters, windows and *)
(* number of decisions in flight: what a rule reads from the fetched       *)
(* entries is what the customer did.                                       *)
(***************************************************************************)
EXTENDS Velocity, FiniteSetTheorems, TLAPS

-----------------------------------------------------------------------------
(* Induction over the natural numbers, stated for a set of them.           *)

LEMMA Induction ==
  ASSUME NEW P \in SUBSET Nat, 0 \in P, \A n \in P : n + 1 \in P
  PROVE  P = Nat
  <1> SUFFICES ASSUME Nat \ P # {} PROVE FALSE
    OBVIOUS
  <1> DEFINE Q == Nat \ P
  <1>1. Q \in SUBSET Nat /\ Q # {}
    OBVIOUS
  <1>2. PICK n \in Q : \A m \in Q : ~ (<<m, n>> \in OpToRel(<, Nat))
    <2> HIDE DEF Q
    <2>1. QED
      BY <1>1, NatLessThanWellFounded, WFMin
  <1>3. \A m \in Q : ~ (m < n)
    BY <1>2 DEF OpToRel
  <1>4. n \in Nat /\ n # 0
    BY <1>2
  <1>5. n - 1 \in Nat /\ n - 1 < n /\ (n - 1) + 1 = n
    BY <1>4
  <1>6. n - 1 \in P
    BY <1>3, <1>5
  <1>7. QED
    BY <1>2, <1>5, <1>6

-----------------------------------------------------------------------------
(* Sums.  SumFunction takes the elements of the domain in an order that is *)
(* not specified; the lemmas below show that the order does not matter.    *)

Pick(s) == CHOOSE x \in s : TRUE

LEMMA PickIn ==
  ASSUME NEW s, s # {}
  PROVE  Pick(s) \in s
  BY DEF Pick

\* One step of the fold: what s sums to when its proper subsets sum to g.
SumStep(g, f, s) == IF s = {} THEN 0 ELSE f[Pick(s)] + g[s \ {Pick(s)}]

\* g holds the sum of f over every subset of S.
Adds(g, f, S) == \A s \in SUBSET S : g[s] = SumStep(g, f, s)

LEMMA SmallerSet ==
  ASSUME NEW S, IsFiniteSet(S), NEW s \in SUBSET S, NEW x \in s
  PROVE  /\ s \ {x} \in SUBSET S
         /\ Cardinality(s) \in Nat \ {0}
         /\ Cardinality(s \ {x}) = Cardinality(s) - 1
  <1>1. IsFiniteSet(s)
    BY FS_Subset
  <1>2. Cardinality(s) \in Nat /\ Cardinality(s) # 0
    BY <1>1, FS_CardinalityType, FS_EmptySet
  <1>3. QED
    BY <1>1, <1>2, FS_RemoveElement

LEMMA AddsExists ==
  ASSUME NEW S, IsFiniteSet(S), NEW f
  PROVE  \E g : Adds(g, f, S)
  <1> DEFINE Upto(n, g) == \A s \in SUBSET S : Cardinality(s) <= n => g[s] = SumStep(g, f, s)
             P == {n \in Nat : \E g : Upto(n, g)}
  <1>1. 0 \in P
    <2> DEFINE z == [s \in SUBSET S |-> 0]
    <2>1. Upto(0, z)
      <3> SUFFICES ASSUME NEW s \in SUBSET S, Cardinality(s) <= 0
                   PROVE  z[s] = SumStep(z, f, s)
        OBVIOUS
      <3>1. IsFiniteSet(s) /\ Cardinality(s) \in Nat
        BY FS_Subset, FS_CardinalityType
      <3>2. s = {}
        BY <3>1, FS_EmptySet
      <3>3. QED
        BY <3>2 DEF SumStep
    <2> HIDE DEF z, Upto
    <2>2. QED
      BY <2>1
  <1>2. ASSUME NEW n \in P PROVE n + 1 \in P
    <2>1. n \in Nat /\ \E g : Upto(n, g)
      <3> HIDE DEF Upto
      <3>1. QED
        BY <1>2
    <2>2. PICK g : Upto(n, g)
      BY <2>1
    <2> DEFINE h == [s \in SUBSET S |-> SumStep(g, f, s)]
    <2>3. Upto(n + 1, h)
      <3> SUFFICES ASSUME NEW s \in SUBSET S, Cardinality(s) <= n + 1
                   PROVE  h[s] = SumStep(h, f, s)
        OBVIOUS
      <3>1. CASE s = {}
        BY <3>1 DEF SumStep
      <3>2. CASE s # {}
        <4>1. PICK t : t = s \ {Pick(s)}
          OBVIOUS
        <4>2. t \in SUBSET S /\ Cardinality(t) <= n
          BY <2>1, <3>2, <4>1, PickIn, SmallerSet
        <4>3. g[t] = SumStep(g, f, t)
          BY <2>2, <4>2
        <4>4. h[t] = g[t]
          BY <4>2, <4>3
        <4>5. h[s] = SumStep(g, f, s)
          OBVIOUS
        <4>6. QED
          BY <3>2, <4>1, <4>4, <4>5 DEF SumStep
      <3>3. QED
        BY <3>1, <3>2
    <2> HIDE DEF h, Upto
    <2>4. QED
      BY <2>1, <2>3
  <1>3. P = Nat
    <2>1. P \in SUBSET Nat
      <3> HIDE DEF Upto
      <3>1. QED
        OBVIOUS
    <2> HIDE DEF P
    <2>2. QED
      BY <1>1, <1>2, <2>1, Induction
  <1>4. Cardinality(S) \in Nat
    BY FS_CardinalityType
  <1>5. PICK g : Upto(Cardinality(S), g)
    <2> HIDE DEF Upto
    <2>1. QED
      BY <1>3, <1>4
  <1>6. \A s \in SUBSET S : Cardinality(s) <= Cardinality(S)
    BY FS_Subset
  <1>7. Adds(g, f, S)
    BY <1>5, <1>6 DEF Adds
  <1>8. QED
    BY <1>7

\* What SumFunction computes.
LEMMA SumIs ==
  ASSUME NEW f, IsFiniteSet(DOMAIN f)
  PROVE  \E g : Adds(g, f, DOMAIN f) /\ SumFunction(f) = g[DOMAIN f]
  <1> DEFINE Fold(g) == [s \in SUBSET DOMAIN f |->
                           IF s = {} THEN 0
                           ELSE f[CHOOSE x \in s : TRUE] + g[s \ {CHOOSE x \in s : TRUE}]]
             it == CHOOSE g : g = Fold(g)
  <1>1. SumFunction(f) = it[DOMAIN f]
    BY Zenon DEF SumFunction, SumFunctionOnSet, FoldFunctionOnSet, MapThenFoldSet
  <1>2. \A g : Fold(g) = [s \in SUBSET DOMAIN f |-> SumStep(g, f, s)]
    BY DEF SumStep, Pick
  <1>3. PICK g : Adds(g, f, DOMAIN f)
    BY AddsExists
  <1> DEFINE h == [s \in SUBSET DOMAIN f |-> g[s]]
  <1>4. \A s \in SUBSET DOMAIN f : SumStep(h, f, s) = SumStep(g, f, s)
    <2> TAKE s \in SUBSET DOMAIN f
    <2>1. h[s \ {Pick(s)}] = g[s \ {Pick(s)}]
      OBVIOUS
    <2> HIDE DEF h
    <2>2. QED
      BY <2>1 DEF SumStep
  <1>5. h = [s \in SUBSET DOMAIN f |-> SumStep(h, f, s)]
    BY <1>3, <1>4 DEF Adds
  <1> HIDE DEF h, Fold
  <1>6. h = Fold(h)
    BY <1>2, <1>5
  <1>7. it = Fold(it)
    BY <1>6
  <1> HIDE DEF it
  <1>8. it = [s \in SUBSET DOMAIN f |-> SumStep(it, f, s)]
    BY <1>2, <1>7
  <1>9. Adds(it, f, DOMAIN f)
    <2>1. PICK e : e = [s \in SUBSET DOMAIN f |-> SumStep(it, f, s)]
      OBVIOUS
    <2>2. \A s \in SUBSET DOMAIN f : e[s] = SumStep(it, f, s)
      BY <2>1
    <2>3. QED
      BY <1>8, <2>1, <2>2 DEF Adds
  <1>10. QED
    BY <1>1, <1>9
\* To show something of every subset of a finite set, show it of the subsets of
\* each size from what holds of the smaller ones.
LEMMA BySize ==
  ASSUME NEW S, IsFiniteSet(S), NEW Q \in SUBSET SUBSET S,
         \A s \in SUBSET S :
            (\A t \in SUBSET S : Cardinality(t) < Cardinality(s) => t \in Q) => s \in Q
  PROVE  Q = SUBSET S
  <1> DEFINE P == {n \in Nat : \A s \in SUBSET S : Cardinality(s) < n => s \in Q}
  <1>1. \A s \in SUBSET S : Cardinality(s) \in Nat
    BY FS_Subset, FS_CardinalityType
  <1>2. 0 \in P
    BY <1>1
  <1>3. \A n \in P : n + 1 \in P
    <2> SUFFICES ASSUME NEW n \in P, NEW s \in SUBSET S, Cardinality(s) < n + 1
                 PROVE  s \in Q
      OBVIOUS
    <2>1. \A t \in SUBSET S : Cardinality(t) < Cardinality(s) => t \in Q
      BY <1>1
    <2>2. QED
      BY <2>1
  <1>4. P = Nat
    <2>1. P \in SUBSET Nat
      OBVIOUS
    <2> HIDE DEF P
    <2>2. QED
      BY <1>2, <1>3, <2>1, Induction
  <1>5. \A s \in SUBSET S : s \in Q
    <2> TAKE s \in SUBSET S
    <2>1. Cardinality(s) + 1 \in P /\ Cardinality(s) < Cardinality(s) + 1
      BY <1>1, <1>4
    <2>2. QED
      BY <2>1
  <1>6. QED
    BY <1>5

LEMMA AddsNat ==
  ASSUME NEW S, IsFiniteSet(S), NEW f, \A x \in S : f[x] \in Nat, NEW g, Adds(g, f, S)
  PROVE  \A s \in SUBSET S : g[s] \in Nat
  <1> DEFINE Q == {s \in SUBSET S : g[s] \in Nat}
  <1>1. ASSUME NEW s \in SUBSET S,
               \A t \in SUBSET S : Cardinality(t) < Cardinality(s) => t \in Q
        PROVE  s \in Q
    <2>1. g[s] = SumStep(g, f, s)
      BY DEF Adds
    <2>2. CASE s = {}
      BY <2>1, <2>2 DEF SumStep
    <2>3. CASE s # {}
      <3>1. PICK x, t : x = Pick(s) /\ t = s \ {x}
        OBVIOUS
      <3>2. x \in s /\ t \in SUBSET S /\ Cardinality(t) < Cardinality(s)
        BY <2>3, <3>1, PickIn, SmallerSet
      <3>3. g[s] = f[x] + g[t]
        BY <2>1, <2>3, <3>1 DEF SumStep
      <3>4. g[t] \in Nat /\ f[x] \in Nat
        BY <1>1, <3>2
      <3>5. QED
        BY <3>3, <3>4
    <2>4. QED
      BY <2>2, <2>3
  <1>2. Q = SUBSET S
    <2>1. Q \in SUBSET SUBSET S
      OBVIOUS
    <2> HIDE DEF Q
    <2>2. QED
      BY <1>1, <2>1, BySize
  <1>3. QED
    BY <1>2

\* Sums of equal summands are equal, whatever larger domain they are part of.
LEMMA AddsAgree ==
  ASSUME NEW S, IsFiniteSet(S), NEW T \in SUBSET S, NEW f, NEW e, \A x \in T : e[x] = f[x],
         NEW g, Adds(g, f, S), NEW h, Adds(h, e, T)
  PROVE  h[T] = g[T]
  <1>0. IsFiniteSet(T)
    BY FS_Subset
  <1> DEFINE Q == {s \in SUBSET T : h[s] = g[s]}
  <1>1. ASSUME NEW s \in SUBSET T,
               \A t \in SUBSET T : Cardinality(t) < Cardinality(s) => t \in Q
        PROVE  s \in Q
    <2>1. g[s] = SumStep(g, f, s) /\ h[s] = SumStep(h, e, s)
      BY DEF Adds
    <2>2. CASE s = {}
      BY <2>1, <2>2 DEF SumStep
    <2>3. CASE s # {}
      <3>1. PICK x, t : x = Pick(s) /\ t = s \ {x}
        OBVIOUS
      <3>2. x \in s /\ t \in SUBSET T /\ Cardinality(t) < Cardinality(s)
        BY <1>0, <2>3, <3>1, PickIn, SmallerSet
      <3>3. g[s] = f[x] + g[t] /\ h[s] = e[x] + h[t]
        BY <2>1, <2>3, <3>1 DEF SumStep
      <3>4. h[t] = g[t] /\ e[x] = f[x]
        BY <1>1, <3>2
      <3>5. QED
        BY <3>3, <3>4
    <2>4. QED
      BY <2>2, <2>3
  <1>2. Q = SUBSET T
    <2>1. Q \in SUBSET SUBSET T
      OBVIOUS
    <2> HIDE DEF Q
    <2>2. QED
      BY <1>0, <1>1, <2>1, BySize
  <1>3. T \in SUBSET T
    OBVIOUS
  <1>4. QED
    BY <1>2, <1>3

\* Any element can be taken out first.
LEMMA AddsRemove ==
  ASSUME NEW S, IsFiniteSet(S), NEW f, \A x \in S : f[x] \in Nat, NEW g, Adds(g, f, S)
  PROVE  \A s \in SUBSET S : \A r \in s : g[s] = f[r] + g[s \ {r}]
  <1> DEFINE Q == {s \in SUBSET S : \A r \in s : g[s] = f[r] + g[s \ {r}]}
  <1>1. ASSUME NEW s \in SUBSET S,
               \A t \in SUBSET S : Cardinality(t) < Cardinality(s) => t \in Q
        PROVE  s \in Q
    <2> SUFFICES ASSUME NEW r \in s PROVE g[s] = f[r] + g[s \ {r}]
      OBVIOUS
    <2>1. PICK x, t, u, v : /\ x = Pick(s) /\ t = s \ {x}
                            /\ u = s \ {r} /\ v = (s \ {r}) \ {x}
      OBVIOUS
    <2>2. x \in s
      BY <2>1, PickIn
    <2>3. g[s] = f[x] + g[t]
      BY <2>1 DEF Adds, SumStep
    <2>4. CASE x = r
      BY <2>1, <2>3, <2>4
    <2>5. CASE x # r
      <3>1. /\ t \in SUBSET S /\ Cardinality(t) < Cardinality(s) /\ r \in t
            /\ u \in SUBSET S /\ Cardinality(u) < Cardinality(s) /\ x \in u
        BY <2>1, <2>2, <2>5, SmallerSet
      <3>2. t \in Q /\ u \in Q
        BY <1>1, <3>1
      <3>3. t \ {r} = v /\ u \ {x} = v /\ v \in SUBSET S
        BY <2>1
      <3>4. g[t] = f[r] + g[v]
        BY <3>1, <3>2, <3>3
      <3>5. g[u] = f[x] + g[v]
        BY <3>1, <3>2, <3>3
      <3>6. f[x] \in Nat /\ f[r] \in Nat /\ g[v] \in Nat
        BY <2>2, <3>3, AddsNat
      <3>7. QED
        BY <2>1, <2>3, <3>4, <3>5, <3>6
    <2>6. QED
      BY <2>4, <2>5
  <1>2. Q = SUBSET S
    <2>1. Q \in SUBSET SUBSET S
      OBVIOUS
    <2> HIDE DEF Q
    <2>2. QED
      BY <1>1, <2>1, BySize
  <1>3. QED
    BY <1>2

LEMMA SumNat ==
  ASSUME NEW S, IsFiniteSet(S), NEW f \in [S -> Nat]
  PROVE  SumFunction(f) \in Nat
  <1>1. DOMAIN f = S
    OBVIOUS
  <1>2. PICK g : Adds(g, f, S) /\ SumFunction(f) = g[S]
    BY <1>1, SumIs
  <1>3. \A s \in SUBSET S : g[s] \in Nat
    BY <1>2, AddsNat
  <1>4. QED
    BY <1>2, <1>3

\* One summand apart from the others.
LEMMA SumSplit ==
  ASSUME NEW S, IsFiniteSet(S), NEW f \in [S -> Nat], NEW r \in S,
         NEW e, e = [x \in S \ {r} |-> f[x]]
  PROVE  SumFunction(f) = f[r] + SumFunction(e)
  <1>1. DOMAIN f = S /\ DOMAIN e = S \ {r} /\ IsFiniteSet(S \ {r})
    BY FS_RemoveElement
  <1>2. PICK g : Adds(g, f, S) /\ SumFunction(f) = g[S]
    BY <1>1, SumIs
  <1>3. PICK h : Adds(h, e, S \ {r}) /\ SumFunction(e) = h[S \ {r}]
    BY <1>1, SumIs
  <1>4. g[S] = f[r] + g[S \ {r}]
    BY <1>2, AddsRemove
  <1>5. h[S \ {r}] = g[S \ {r}]
    <2>1. S \ {r} \in SUBSET S /\ \A x \in S \ {r} : e[x] = f[x]
      OBVIOUS
    <2>2. QED
      BY <1>2, <1>3, <2>1, AddsAgree
  <1>6. QED
    BY <1>2, <1>3, <1>4, <1>5

\* Fewer summands never sum to more.
LEMMA SumMonotone ==
  ASSUME NEW S, IsFiniteSet(S), NEW f \in [S -> Nat], NEW T \in SUBSET S,
         NEW e, e = [x \in T |-> f[x]]
  PROVE  SumFunction(e) <= SumFunction(f)
  <1>1. DOMAIN f = S /\ DOMAIN e = T /\ IsFiniteSet(T)
    BY FS_Subset
  <1>2. PICK g : Adds(g, f, S) /\ SumFunction(f) = g[S]
    BY <1>1, SumIs
  <1>3. PICK h : Adds(h, e, T) /\ SumFunction(e) = h[T]
    BY <1>1, SumIs
  <1>4. h[T] = g[T]
    <2>1. \A x \in T : e[x] = f[x]
      OBVIOUS
    <2>2. QED
      BY <1>2, <1>3, <2>1, AddsAgree
  <1>5. \A s \in SUBSET S : g[s] \in Nat
    BY <1>2, AddsNat
  <1> DEFINE Q == {s \in SUBSET S : T \subseteq s => g[T] <= g[s]}
  <1>6. ASSUME NEW s \in SUBSET S,
               \A t \in SUBSET S : Cardinality(t) < Cardinality(s) => t \in Q
        PROVE  s \in Q
    <2> SUFFICES ASSUME T \subseteq s PROVE g[T] <= g[s]
      OBVIOUS
    <2>1. CASE s = T
      BY <1>5, <2>1
    <2>2. CASE s # T
      <3>1. PICK r \in s : r \notin T
        BY <2>2
      <3>2. PICK t : t = s \ {r}
        OBVIOUS
      <3>3. t \in SUBSET S /\ Cardinality(t) < Cardinality(s) /\ T \subseteq t
        BY <3>1, <3>2, SmallerSet
      <3>4. g[T] <= g[t]
        BY <1>6, <3>3
      <3>5. g[s] = f[r] + g[t]
        BY <1>2, <3>2, AddsRemove
      <3>6. g[T] \in Nat /\ g[t] \in Nat /\ f[r] \in Nat
        BY <1>5, <3>3
      <3>7. QED
        BY <3>4, <3>5, <3>6
    <2>3. QED
      BY <2>1, <2>2
  <1>7. Q = SUBSET S
    <2>1. Q \in SUBSET SUBSET S
      OBVIOUS
    <2> HIDE DEF Q
    <2>2. QED
      BY <1>6, <2>1, BySize
  <1>8. S \in SUBSET S
    OBVIOUS
  <1>9. g[T] <= g[S]
    BY <1>7, <1>8
  <1>10. QED
    BY <1>2, <1>3, <1>4, <1>9
-----------------------------------------------------------------------------
(* The largest window, and the smaller of two numbers.                     *)

LEMMA LargestExists ==
  ASSUME NEW S, IsFiniteSet(S), S # {}, \A x \in S : x \in Nat
  PROVE  \E x \in S : \A y \in S : x >= y
  <1> DEFINE Topped(s) == \E x \in s : \A y \in s : x >= y
             Q == {s \in SUBSET S : s # {} => Topped(s)}
  <1>1. ASSUME NEW s \in SUBSET S, s # {},
               \A t \in SUBSET S : Cardinality(t) < Cardinality(s) => t \in Q
        PROVE  Topped(s)
    <2>1. PICK r \in s : TRUE
      BY <1>1
    <2>2. PICK t : t = s \ {r}
      OBVIOUS
    <2>3. t \in SUBSET S /\ Cardinality(t) < Cardinality(s)
      BY <2>1, <2>2, SmallerSet
    <2>4. CASE t = {}
      <3>1. \A y \in s : r >= y
        BY <2>1, <2>2, <2>4
      <3>2. QED
        BY <3>1
    <2>5. CASE t # {}
      <3>1. t \in Q
        BY <1>1, <2>3
      <3>2. PICK x \in t : \A y \in t : x >= y
        BY <2>5, <3>1
      <3>3. x \in s /\ x \in Nat /\ r \in Nat /\ \A y \in s : y \in Nat /\ (y \in t \/ y = r)
        BY <2>2, <2>3, <3>2
      <3>4. CASE x >= r
        <4>1. \A y \in s : x >= y
          BY <3>2, <3>3, <3>4
        <4>2. QED
          BY <3>3, <4>1
      <3>5. CASE r >= x
        <4>1. \A y \in s : r >= y
          BY <3>2, <3>3, <3>5
        <4>2. QED
          BY <4>1
      <3>6. QED
        BY <3>3, <3>4, <3>5
    <2>6. QED
      BY <2>4, <2>5
  <1>2. Q = SUBSET S
    <2>1. Q \in SUBSET SUBSET S
      <3> HIDE DEF Topped
      <3>1. QED
        OBVIOUS
    <2>2. \A s \in SUBSET S :
             (\A t \in SUBSET S : Cardinality(t) < Cardinality(s) => t \in Q) => s \in Q
      <3> SUFFICES ASSUME NEW s \in SUBSET S,
                          \A t \in SUBSET S : Cardinality(t) < Cardinality(s) => t \in Q
                   PROVE  s \in Q
        OBVIOUS
      <3>1. s # {} => Topped(s)
        <4> HIDE DEF Topped, Q
        <4>1. QED
          BY <1>1
      <3> HIDE DEF Topped
      <3>2. QED
        BY <3>1
    <2> HIDE DEF Q
    <2>3. QED
      BY <2>1, <2>2, BySize
  <1>3. S \in Q
    BY <1>2
  <1>4. QED
    BY <1>3

LEMMA LargestWindow ==
  /\ LARGEST_WINDOW \in Nat
  /\ \A w \in Windows : w \in Nat /\ w <= LARGEST_WINDOW
  <1>1. (\A w \in Windows : w \in Nat) /\ IsFiniteSet(Windows) /\ Windows # {}
    BY WindowsAssumption
  <1>2. \E x \in Windows : \A y \in Windows : x >= y
    BY <1>1, LargestExists
  <1>3. LARGEST_WINDOW \in Windows /\ \A y \in Windows : LARGEST_WINDOW >= y
    BY <1>2 DEF LARGEST_WINDOW, Max
  <1>4. QED
    BY <1>1, <1>3

LEMMA MinOfTwo ==
  ASSUME NEW a \in Nat, NEW b \in Nat
  PROVE  Min({a, b}) = IF a <= b THEN a ELSE b
  <1>1. PICK c : c = IF a <= b THEN a ELSE b
    OBVIOUS
  <1>2. c \in {a, b} /\ \A y \in {a, b} : c <= y
    BY <1>1
  <1>3. \A x \in {a, b} : (\A y \in {a, b} : x <= y) => x = c
    BY <1>1
  <1>4. QED
    BY <1>1, <1>2, <1>3 DEF Min

-----------------------------------------------------------------------------
(* The cap.  Redis orders the members by score and then by name: a strict  *)
(* total order, so the members above a member number its place.            *)

Ordered(m) == DOMAIN m \subseteq Nat /\ IsFiniteSet(DOMAIN m) /\ \A r \in DOMAIN m : m[r] \in Nat

LEMMA AboveNumbers ==
  ASSUME NEW m, Ordered(m), NEW r \in DOMAIN m
  PROVE  /\ Above(m, r) \in SUBSET DOMAIN m
         /\ r \notin Above(m, r)
         /\ IsFiniteSet(Above(m, r))
         /\ Cardinality(Above(m, r)) \in Nat
  <1>1. Above(m, r) \in SUBSET DOMAIN m
    BY DEF Above
  <1>2. r \notin Above(m, r)
    BY DEF Above, Ordered
  <1>3. IsFiniteSet(Above(m, r))
    BY <1>1, FS_Subset DEF Ordered
  <1>4. QED
    BY <1>1, <1>2, <1>3, FS_CardinalityType

LEMMA AboveStrict ==
  ASSUME NEW m, Ordered(m), NEW r \in DOMAIN m, NEW s \in Above(m, r)
  PROVE  Cardinality(Above(m, s)) < Cardinality(Above(m, r))
  <1>1. s \in DOMAIN m
    BY AboveNumbers
  <1>2. m[r] \in Nat /\ m[s] \in Nat /\ r \in Nat /\ s \in Nat
        /\ (m[s] > m[r] \/ (m[s] = m[r] /\ s > r))
    BY <1>1 DEF Ordered, Above
  <1>3. Above(m, s) \in SUBSET Above(m, r)
    <2> SUFFICES ASSUME NEW q \in Above(m, s) PROVE q \in Above(m, r)
      OBVIOUS
    <2>1. q \in DOMAIN m /\ m[q] \in Nat /\ q \in Nat /\ (m[q] > m[s] \/ (m[q] = m[s] /\ q > s))
      BY DEF Above, Ordered
    <2>2. m[q] > m[r] \/ (m[q] = m[r] /\ q > r)
      BY <1>2, <2>1
    <2>3. QED
      BY <2>1, <2>2 DEF Above
  <1>4. s \notin Above(m, s)
    BY <1>1, AboveNumbers
  <1>5. Above(m, s) # Above(m, r)
    BY <1>4
  <1>6. IsFiniteSet(Above(m, r)) /\ Cardinality(Above(m, r)) \in Nat
        /\ Cardinality(Above(m, s)) \in Nat
    BY <1>1, AboveNumbers
  <1>7. QED
    BY <1>3, <1>5, <1>6, FS_Subset

Newest(m, I, K) == {r \in I : Cardinality(Above(m, r)) < K}

\* Of a set that has, with a member, all that lie above it, the newest K are
\* the members with fewer than K above them.
LEMMA NewestCounted ==
  ASSUME NEW m, Ordered(m), NEW I \in SUBSET DOMAIN m, \A r \in I : Above(m, r) \subseteq I,
         NEW K \in Nat
  PROVE  /\ Cardinality(I) \in Nat
         /\ Cardinality(Newest(m, I, K)) = IF K <= Cardinality(I) THEN K ELSE Cardinality(I)
  <1> DEFINE kept == Newest(m, I, K)
             N == Cardinality(I)
             rank == [r \in I |-> Cardinality(Above(m, r))]
  <1>1. IsFiniteSet(I) /\ N \in Nat
    BY FS_Subset, FS_CardinalityType DEF Ordered
  <1>2. \A r \in I : rank[r] \in Nat /\ rank[r] < N
    <2> SUFFICES ASSUME NEW r \in I
                 PROVE  Cardinality(Above(m, r)) \in Nat /\ Cardinality(Above(m, r)) < N
      OBVIOUS
    <2>1. Above(m, r) \in SUBSET (I \ {r}) /\ Cardinality(Above(m, r)) \in Nat
      BY AboveNumbers
    <2>2. IsFiniteSet(I \ {r}) /\ Cardinality(I \ {r}) = N - 1
      BY <1>1, FS_RemoveElement
    <2>3. Cardinality(Above(m, r)) <= Cardinality(I \ {r})
      BY <2>1, <2>2, FS_Subset
    <2>4. QED
      BY <1>1, <2>1, <2>2, <2>3
  <1>3. \A r, s \in I : r # s => rank[r] # rank[s]
    <2> SUFFICES ASSUME NEW r \in I, NEW s \in I, r # s
                 PROVE  Cardinality(Above(m, r)) # Cardinality(Above(m, s))
      OBVIOUS
    <2>1. s \in Above(m, r) \/ r \in Above(m, s)
      BY DEF Above, Ordered
    <2>2. Cardinality(Above(m, r)) \in Nat /\ Cardinality(Above(m, s)) \in Nat
      BY AboveNumbers
    <2>3. QED
      BY <2>1, <2>2, AboveStrict
  <1>4. kept = {r \in I : rank[r] < K}
    BY DEF Newest
  <1>5. rank \in [I -> Nat]
    BY <1>2
  <1> HIDE DEF kept, rank, N
  <1>6. CASE K <= N
    <2>1. rank \in Injection(I, 0 .. N - 1)
      BY <1>1, <1>2, <1>3, <1>5 DEF Injection, IsInjective
    <2>2. IsFiniteSet(0 .. N - 1) /\ Cardinality(0 .. N - 1) = N
      BY <1>1, FS_Interval
    <2>3. rank \in Surjection(I, 0 .. N - 1)
      BY <2>1, <2>2, FS_Injection DEF N
    <2> DEFINE low == [r \in kept |-> rank[r]]
    <2>4. low \in Injection(kept, 0 .. K - 1)
      BY <1>2, <1>3, <1>4 DEF Injection, IsInjective
    <2>5. \A t \in 0 .. K - 1 : \E r \in kept : low[r] = t
      <3> TAKE t \in 0 .. K - 1
      <3>1. t \in 0 .. N - 1
        BY <1>1, <1>6
      <3>2. PICK r \in I : rank[r] = t
        BY <2>3, <3>1 DEF Surjection
      <3>3. r \in kept
        BY <1>4, <3>2
      <3>4. QED
        BY <3>2, <3>3
    <2>6. IsFiniteSet(0 .. K - 1) /\ Cardinality(0 .. K - 1) = K
      BY FS_Interval
    <2>7. low \in Surjection(kept, 0 .. K - 1)
      BY <2>4, <2>5 DEF Surjection, Injection
    <2> HIDE DEF low
    <2>8. Cardinality(kept) = K
      BY <2>4, <2>6, <2>7, FS_Injection
    <2>9. QED
      BY <1>1, <1>6, <2>8 DEF kept, N
  <1>7. CASE ~ (K <= N)
    <2>1. kept = I
      BY <1>1, <1>2, <1>4, <1>7
    <2>2. QED
      BY <1>1, <1>7, <2>1 DEF kept, N
  <1>8. QED
    BY <1>6, <1>7
-----------------------------------------------------------------------------
(* What Redis holds is what was recorded, less what is too old to matter.  *)

\* A decision reaches Redis at most MaxLate after it took its moment.
OnTime ==
    /\ now \in Nat
    /\ moment \in [Deciders -> Nat]
    /\ \A p \in Deciders : moment[p] # 0 => moment[p] <= now /\ now <= moment[p] + MaxLate

SeenTyped ==
    /\ DOMAIN seen \subseteq Refs
    /\ \A r \in DOMAIN seen : seen[r].at \in Nat /\ seen[r].at <= now /\ seen[r].amount \in Nat

\* A member has the score and the details of the last attempt; no trim and no
\* expiry has taken one that is not older than the largest window.
Stored ==
    /\ DOMAIN members \subseteq DOMAIN seen /\ DOMAIN members \subseteq DOMAIN amounts
    /\ \A r \in DOMAIN members :
          /\ members[r] = seen[r].at
          /\ amounts[r].amount = seen[r].amount /\ amounts[r].kind = seen[r].kind
    /\ \A r \in DOMAIN seen : r \notin DOMAIN members => seen[r].at + LARGEST_WINDOW <= now

\* The keys outlive their members' stay in the largest window.
Outlives ==
    /\ deadline \in Nat
    /\ deadline # 0 => \A r \in DOMAIN members : members[r] + LARGEST_WINDOW <= deadline

KeyInv == OnTime /\ SeenTyped /\ Stored /\ Outlives

\* A trim by any moment that has passed takes only what is too old.
LEMMA TrimmedStored ==
  ASSUME KeyInv, NEW at \in Nat, at <= now
  PROVE  /\ DOMAIN trimmed(at) \subseteq DOMAIN members
         /\ \A r \in DOMAIN trimmed(at) : trimmed(at)[r] = members[r]
         /\ \A r \in DOMAIN seen :
               r \notin DOMAIN trimmed(at) => seen[r].at + LARGEST_WINDOW <= now
  <1>1. PICK D : D = {r \in DOMAIN members : members[r] + LARGEST_WINDOW > at}
    OBVIOUS
  <1>2. DOMAIN trimmed(at) = D /\ \A r \in D : trimmed(at)[r] = members[r]
    BY <1>1 DEF trimmed, Restrict
  <1>3. ASSUME NEW r \in DOMAIN seen, r \notin D
        PROVE  seen[r].at + LARGEST_WINDOW <= now
    <2>1. CASE r \in DOMAIN members
      <3>1. members[r] = seen[r].at /\ seen[r].at \in Nat /\ now \in Nat
        BY <2>1 DEF KeyInv, Stored, SeenTyped, OnTime
      <3>2. ~ (members[r] + LARGEST_WINDOW > at)
        BY <1>1, <1>3, <2>1
      <3>3. QED
        BY <3>1, <3>2, LargestWindow
    <2>2. CASE r \notin DOMAIN members
      BY <2>2 DEF KeyInv, Stored
    <2>3. QED
      BY <2>1, <2>2
  <1>4. QED
    BY <1>1, <1>2, <1>3

LEMMA RecordKeeps ==
  ASSUME KeyInv, NEW p \in Deciders, NEW r \in Refs, NEW d \in Details,
         record_and_gather(p, r, d)
  PROVE  KeyInv'
  <1>1. PICK at : at = moment[p]
    OBVIOUS
  <1>2. at \in Nat /\ at <= now /\ now \in Nat
    BY <1>1 DEF KeyInv, OnTime, record_and_gather
  <1>3. PICK rec : rec = [at |-> at, amount |-> d.amount, kind |-> d.kind]
    OBVIOUS
  <1>4. rec.at = at /\ rec.amount = d.amount /\ rec.kind = d.kind /\ d.amount \in Nat
    BY <1>3, DetailsAssumption
  <1>5. PICK cut : cut = trimmed(at)
    OBVIOUS
  <1>6. /\ DOMAIN cut \subseteq DOMAIN members
        /\ \A x \in DOMAIN cut : cut[x] = members[x]
        /\ \A x \in DOMAIN seen : x \notin DOMAIN cut => seen[x].at + LARGEST_WINDOW <= now
    BY <1>2, <1>5, TrimmedStored
  <1>7. /\ seen' = put(seen, r, rec) /\ members' = put(cut, r, at)
        /\ amounts' = put(amounts, r, d) /\ now' = now /\ deadline' = now + KEY_TTL
        /\ moment' = [moment EXCEPT ![p] = 0]
    BY <1>1, <1>3, <1>5 DEF record_and_gather, expire
  <1>8. /\ DOMAIN seen' = DOMAIN seen \cup {r} /\ seen'[r] = rec
        /\ \A x \in DOMAIN seen : x # r => seen'[x] = seen[x]
    BY <1>7 DEF put
  <1>9. /\ DOMAIN members' = DOMAIN cut \cup {r} /\ members'[r] = at
        /\ \A x \in DOMAIN cut : x # r => members'[x] = members[x]
    BY <1>6, <1>7 DEF put
  <1>10. /\ DOMAIN amounts' = DOMAIN amounts \cup {r} /\ amounts'[r] = d
         /\ \A x \in DOMAIN amounts : x # r => amounts'[x] = amounts[x]
    BY <1>7 DEF put
  <1>11. OnTime'
    BY <1>7 DEF KeyInv, OnTime
  <1>12. SeenTyped'
    BY <1>2, <1>4, <1>7, <1>8 DEF KeyInv, SeenTyped
  <1>13. Stored'
    <2>1. DOMAIN members' \subseteq DOMAIN seen' /\ DOMAIN members' \subseteq DOMAIN amounts'
      BY <1>6, <1>8, <1>9, <1>10 DEF KeyInv, Stored
    <2>2. ASSUME NEW x \in DOMAIN members'
          PROVE  /\ members'[x] = seen'[x].at
                 /\ amounts'[x].amount = seen'[x].amount /\ amounts'[x].kind = seen'[x].kind
      <3>1. CASE x = r
        BY <1>4, <1>8, <1>9, <1>10, <3>1
      <3>2. CASE x # r
        <4>1. x \in DOMAIN cut /\ x \in DOMAIN members
          BY <1>6, <1>9, <2>2, <3>2
        <4>2. x \in DOMAIN seen /\ x \in DOMAIN amounts
          BY <4>1 DEF KeyInv, Stored
        <4>3. members'[x] = members[x] /\ seen'[x] = seen[x] /\ amounts'[x] = amounts[x]
          BY <1>8, <1>9, <1>10, <3>2, <4>1, <4>2
        <4>4. QED
          BY <4>1, <4>3 DEF KeyInv, Stored
      <3>3. QED
        BY <3>1, <3>2
    <2>3. ASSUME NEW x \in DOMAIN seen', x \notin DOMAIN members'
          PROVE  seen'[x].at + LARGEST_WINDOW <= now'
      <3>1. x # r /\ x \in DOMAIN seen /\ x \notin DOMAIN cut
        BY <1>8, <1>9, <2>3
      <3>2. QED
        BY <1>6, <1>7, <1>8, <3>1
    <2>4. QED
      BY <2>1, <2>2, <2>3 DEF Stored
  <1>14. Outlives'
    <2>1. KEY_TTL = LARGEST_WINDOW + Margin /\ Margin \in Nat /\ LARGEST_WINDOW \in Nat
      BY LargestWindow, WindowsAssumption DEF KEY_TTL
    <2>2. ASSUME NEW x \in DOMAIN members' PROVE members'[x] + LARGEST_WINDOW <= now + KEY_TTL
      <3>1. members'[x] \in Nat /\ members'[x] <= now
        <4>1. x \in DOMAIN seen' /\ members'[x] = seen'[x].at
          BY <1>13, <2>2 DEF Stored
        <4>2. QED
          BY <1>7, <1>12, <4>1 DEF SeenTyped
      <3>2. QED
        BY <1>2, <2>1, <3>1
    <2>3. now + KEY_TTL \in Nat
      BY <1>2, <2>1
    <2>4. QED
      BY <1>7, <2>2, <2>3 DEF Outlives
  <1>15. QED
    BY <1>11, <1>12, <1>13, <1>14 DEF KeyInv

LEMMA GatherKeeps ==
  ASSUME KeyInv, gather
  PROVE  KeyInv'
  <1>1. now \in Nat
    BY DEF KeyInv, OnTime
  <1>2. PICK cut : cut = trimmed(now)
    OBVIOUS
  <1>3. /\ DOMAIN cut \subseteq DOMAIN members
        /\ \A x \in DOMAIN cut : cut[x] = members[x]
        /\ \A x \in DOMAIN seen : x \notin DOMAIN cut => seen[x].at + LARGEST_WINDOW <= now
    BY <1>1, <1>2, TrimmedStored
  <1>4. members' = cut /\ UNCHANGED <<now, moment, amounts, deadline, seen>>
    BY <1>2 DEF gather
  <1>5. OnTime' /\ SeenTyped'
    BY <1>4 DEF KeyInv, OnTime, SeenTyped
  <1>6. Stored'
    BY <1>3, <1>4 DEF KeyInv, Stored
  <1>7. Outlives'
    BY <1>3, <1>4 DEF KeyInv, Outlives
  <1>8. QED
    BY <1>5, <1>6, <1>7 DEF KeyInv

\* Expiry takes both keys at once, when every member has left the largest window.
LEMMA TickKeeps ==
  ASSUME KeyInv, Tick
  PROVE  KeyInv'
  <1>1. now \in Nat /\ now' = now + 1 /\ seen' = seen /\ moment' = moment
    BY DEF KeyInv, OnTime, Tick
  <1>2. OnTime'
    <2>1. ASSUME NEW p \in Deciders, moment[p] # 0
          PROVE  moment[p] <= now + 1 /\ now + 1 <= moment[p] + MaxLate
      <3>1. moment[p] \in Nat /\ moment[p] <= now /\ now - moment[p] < MaxLate
        BY <2>1 DEF KeyInv, OnTime, Tick
      <3>2. MaxLate \in Nat
        BY WindowsAssumption
      <3>3. QED
        BY <1>1, <3>1, <3>2
    <2>2. QED
      BY <1>1, <2>1 DEF KeyInv, OnTime
  <1>3. SeenTyped'
    BY <1>1 DEF KeyInv, SeenTyped
  <1>4. CASE deadline # 0 /\ deadline <= now'
    <2>1. members' = Empty /\ amounts' = Empty /\ deadline' = 0
      BY <1>4 DEF Tick
    <2>2. DOMAIN Empty = {}
      BY DEF Empty
    <2>3. ASSUME NEW r \in DOMAIN seen PROVE seen[r].at + LARGEST_WINDOW <= now'
      <3>1. seen[r].at \in Nat
        BY DEF KeyInv, SeenTyped
      <3>2. CASE r \in DOMAIN members
        <4>1. members[r] = seen[r].at /\ members[r] + LARGEST_WINDOW <= deadline /\ deadline \in Nat
          BY <1>4, <3>2 DEF KeyInv, Stored, Outlives
        <4>2. QED
          BY <1>1, <1>4, <3>1, <4>1, LargestWindow
      <3>3. CASE r \notin DOMAIN members
        <4>1. seen[r].at + LARGEST_WINDOW <= now
          BY <3>3 DEF KeyInv, Stored
        <4>2. QED
          BY <1>1, <3>1, <4>1, LargestWindow
      <3>4. QED
        BY <3>2, <3>3
    <2>4. Stored' /\ Outlives'
      BY <1>1, <2>1, <2>2, <2>3 DEF Stored, Outlives
    <2>5. QED
      BY <1>2, <1>3, <2>4 DEF KeyInv
  <1>5. CASE ~ (deadline # 0 /\ deadline <= now')
    <2>1. UNCHANGED <<members, amounts, deadline>>
      BY <1>5 DEF Tick
    <2>2. ASSUME NEW r \in DOMAIN seen, r \notin DOMAIN members
          PROVE  seen[r].at + LARGEST_WINDOW <= now'
      <3>1. seen[r].at \in Nat /\ seen[r].at + LARGEST_WINDOW <= now
        BY <2>2 DEF KeyInv, Stored, SeenTyped
      <3>2. QED
        BY <1>1, <3>1, LargestWindow
    <2>3. Stored' /\ Outlives'
      BY <1>1, <2>1, <2>2 DEF KeyInv, Stored, Outlives
    <2>4. QED
      BY <1>2, <1>3, <2>3 DEF KeyInv
  <1>6. QED
    BY <1>4, <1>5

LEMMA NextKeeps ==
  ASSUME KeyInv, [Next]_vars
  PROVE  KeyInv'
  <1>1. ASSUME NEW p \in Deciders, Start(p) \/ Abandon(p) PROVE KeyInv'
    <2>1. UNCHANGED <<now, members, amounts, deadline, seen>>
      BY <1>1 DEF Start, Abandon
    <2>2. now \in Nat /\ MaxLate \in Nat /\ now <= now + MaxLate
      BY WindowsAssumption DEF KeyInv, OnTime
    <2>3. OnTime'
      BY <1>1, <2>1, <2>2 DEF KeyInv, OnTime, Start, Abandon
    <2>4. QED
      BY <2>1, <2>3 DEF KeyInv, SeenTyped, Stored, Outlives
  <1>2. CASE UNCHANGED vars
    BY <1>2 DEF vars, KeyInv, OnTime, SeenTyped, Stored, Outlives
  <1>3. QED
    BY <1>1, <1>2, TickKeeps, GatherKeeps, RecordKeeps DEF Next

LEMMA InitKeeps == Init => KeyInv
  <1>1. DOMAIN Empty = {}
    BY DEF Empty
  <1>2. QED
    BY <1>1 DEF Init, KeyInv, OnTime, SeenTyped, Stored, Outlives
-----------------------------------------------------------------------------
(* What a fetch returns.                                                   *)

\* The window is what a decision that is not later than MaxLate reads now.
JustFetched ==
    \E at \in Nat : now <= at + MaxLate /\ window = fetch(at, members, amounts, aggregates)

\* An entry is what the last attempt of its reference said.
EntriesTrue ==
    /\ window.aggregates = aggregates
    /\ window.moment \in Nat
    /\ DOMAIN window.entries \subseteq DOMAIN seen
    /\ \A r \in DOMAIN window.entries :
          /\ window.entries[r].score = seen[r].at
          /\ window.entries[r].amount = seen[r].amount
          /\ window.entries[r].kind = seen[r].kind

\* What was not fetched, unless the cap cut it off, had left every safe window.
EntriesComplete ==
    ~ window.truncated =>
        \A r \in DOMAIN seen :
            r \notin DOMAIN window.entries => seen[r].at + LARGEST_WINDOW <= window.moment + MaxLate

WindowInv == EntriesTrue /\ EntriesComplete /\ CountUpToCap

LEMMA MembersOrdered ==
  ASSUME KeyInv
  PROVE  Ordered(members)
  <1>1. DOMAIN members \in SUBSET Refs /\ Refs \subseteq Nat /\ IsFiniteSet(Refs)
    BY RefsAssumption DEF KeyInv, Stored, SeenTyped
  <1>2. \A r \in DOMAIN members : members[r] \in Nat
    BY DEF KeyInv, Stored, SeenTyped
  <1>3. QED
    BY <1>1, <1>2, FS_Subset DEF Ordered

\* The fields of the window.
LEMMA FetchIs ==
  ASSUME NEW at, window = fetch(at, members, amounts, aggregates), KeyInv
  PROVE  /\ window.moment = at /\ window.aggregates = aggregates
         /\ DOMAIN window.entries = fetched(members)
         /\ \A r \in fetched(members) :
               /\ r \in DOMAIN members
               /\ window.entries[r].score = members[r]
               /\ window.entries[r].amount = amounts[r].amount
               /\ window.entries[r].kind = amounts[r].kind
         /\ ~ window.truncated => Cardinality(DOMAIN members) <= MAX_MEMBERS_FETCHED
  <1>1. window.moment = at /\ window.aggregates = aggregates
    BY DEF fetch
  <1>2. \A r \in fetched(members) : r \in DOMAIN members /\ r \in DOMAIN amounts
    BY DEF fetched, KeyInv, Stored
  <1>3. window.entries = [r \in fetched(members) |->
                            [score |-> members[r], amount |-> detail(amounts, r).amount,
                             kind |-> detail(amounts, r).kind]]
    BY DEF fetch
  <1>4. /\ DOMAIN window.entries = fetched(members)
        /\ \A r \in fetched(members) :
              /\ window.entries[r].score = members[r]
              /\ window.entries[r].amount = detail(amounts, r).amount
              /\ window.entries[r].kind = detail(amounts, r).kind
    BY <1>3
  <1>5. \A r \in fetched(members) : detail(amounts, r) = amounts[r]
    BY <1>2 DEF detail
  <1>6. window.truncated <=> Cardinality(DOMAIN members) > MAX_MEMBERS_FETCHED
    BY DEF fetch
  <1>7. Cardinality(DOMAIN members) \in Nat /\ MAX_MEMBERS_FETCHED \in Nat
    BY MembersOrdered, FS_CardinalityType, WindowsAssumption DEF Ordered
  <1>8. QED
    BY <1>1, <1>2, <1>4, <1>5, <1>6, <1>7

\* Nothing is cut off when there are no more members than the cap.
LEMMA AllFetched ==
  ASSUME KeyInv, Cardinality(DOMAIN members) <= MAX_MEMBERS_FETCHED
  PROVE  fetched(members) = DOMAIN members
  <1>1. Ordered(members)
    BY MembersOrdered
  <1>2. \A r \in DOMAIN members : Cardinality(Above(members, r)) < MAX_MEMBERS_FETCHED
    <2> TAKE r \in DOMAIN members
    <2>1. /\ Above(members, r) \in SUBSET (DOMAIN members \ {r})
          /\ Cardinality(Above(members, r)) \in Nat
      BY <1>1, AboveNumbers
    <2>2. /\ IsFiniteSet(DOMAIN members \ {r})
          /\ Cardinality(DOMAIN members \ {r}) = Cardinality(DOMAIN members) - 1
          /\ Cardinality(DOMAIN members) \in Nat
      BY <1>1, FS_RemoveElement, FS_CardinalityType DEF Ordered
    <2>3. Cardinality(Above(members, r)) <= Cardinality(DOMAIN members \ {r})
      BY <2>1, <2>2, FS_Subset
    <2>4. QED
      BY <2>1, <2>2, <2>3, WindowsAssumption
  <1>3. QED
    BY <1>2 DEF fetched

\* In a safe window lie only references whose members are still there.
LEMMA SafeWindowStored ==
  ASSUME KeyInv, NEW at \in Nat, now <= at + MaxLate, NEW w \in SafeWindows,
         NEW r \in DOMAIN seen, seen[r].at + w >= at
  PROVE  r \in DOMAIN members
  <1>1. w \in Nat /\ w + MaxLate < LARGEST_WINDOW /\ LARGEST_WINDOW \in Nat /\ MaxLate \in Nat
    BY LargestWindow, WindowsAssumption DEF SafeWindows
  <1>2. seen[r].at \in Nat /\ now \in Nat
    BY DEF KeyInv, SeenTyped, OnTime
  <1>3. ~ (seen[r].at + LARGEST_WINDOW <= now)
    BY <1>1, <1>2
  <1>4. QED
    BY <1>3 DEF KeyInv, Stored

LEMMA FetchCounts ==
  ASSUME KeyInv, NEW at \in Nat, now <= at + MaxLate,
         window = fetch(at, members, amounts, aggregates), NEW w \in SafeWindows
  PROVE  count(w, NoFilter) = Min({MAX_MEMBERS_FETCHED, Cardinality(InWindow(w, NoFilter))})
  <1> DEFINE I == {r \in DOMAIN members : members[r] + w >= at}
  <1>1. \A e : passes(NoFilter, e)
    BY DEF passes, NoFilter
  <1>2. w \in Nat
    BY LargestWindow DEF SafeWindows
  <1>3. InWindow(w, NoFilter) = I
    <2>1. window.moment = at
      BY FetchIs
    <2>2. InWindow(w, NoFilter) = {r \in DOMAIN seen : seen[r].at + w >= at}
      BY <1>1, <2>1 DEF InWindow
    <2>3. \A r \in DOMAIN members : r \in DOMAIN seen /\ members[r] = seen[r].at
      BY DEF KeyInv, Stored
    <2>4. \A r \in DOMAIN seen : seen[r].at + w >= at => r \in DOMAIN members
      BY SafeWindowStored
    <2>5. QED
      BY <2>2, <2>3, <2>4
  <1>4. Ordered(members)
    BY MembersOrdered
  <1>5. \A r \in I : Above(members, r) \subseteq I
    <2> SUFFICES ASSUME NEW r \in I, NEW s \in Above(members, r) PROVE s \in I
      OBVIOUS
    <2>1. s \in DOMAIN members /\ members[s] \in Nat /\ members[r] \in Nat /\ members[s] >= members[r]
      BY <1>4 DEF Above, Ordered
    <2>2. QED
      BY <1>2, <2>1
  <1>6. matching(w, NoFilter) = Newest(members, I, MAX_MEMBERS_FETCHED)
    <2>1. /\ window.moment = at /\ DOMAIN window.entries = fetched(members)
          /\ \A r \in fetched(members) : window.entries[r].score = members[r]
      BY FetchIs
    <2>2. matching(w, NoFilter) = {r \in fetched(members) : members[r] + w >= at}
      BY <1>1, <2>1 DEF matching
    <2>3. QED
      BY <2>2 DEF fetched, Newest
  <1>7. I \in SUBSET DOMAIN members /\ MAX_MEMBERS_FETCHED \in Nat
    BY WindowsAssumption
  <1> HIDE DEF I
  <1>8. /\ Cardinality(I) \in Nat
        /\ Cardinality(Newest(members, I, MAX_MEMBERS_FETCHED))
             = IF MAX_MEMBERS_FETCHED <= Cardinality(I) THEN MAX_MEMBERS_FETCHED
               ELSE Cardinality(I)
    BY <1>4, <1>5, <1>7, NewestCounted
  <1>9. QED
    BY <1>3, <1>6, <1>7, <1>8, MinOfTwo DEF count

LEMMA FetchedIsTrue == KeyInv /\ JustFetched => WindowInv
  <1> SUFFICES ASSUME KeyInv, JustFetched PROVE WindowInv
    OBVIOUS
  <1>1. PICK at \in Nat : now <= at + MaxLate /\ window = fetch(at, members, amounts, aggregates)
    BY DEF JustFetched
  <1>2. /\ window.moment = at /\ window.aggregates = aggregates
        /\ DOMAIN window.entries = fetched(members)
        /\ \A r \in fetched(members) :
              /\ r \in DOMAIN members
              /\ window.entries[r].score = members[r]
              /\ window.entries[r].amount = amounts[r].amount
              /\ window.entries[r].kind = amounts[r].kind
    BY <1>1, FetchIs
  <1>3. EntriesTrue
    BY <1>2 DEF EntriesTrue, KeyInv, Stored
  <1>4. EntriesComplete
    <2> SUFFICES ASSUME ~ window.truncated, NEW r \in DOMAIN seen, r \notin DOMAIN window.entries
                 PROVE  seen[r].at + LARGEST_WINDOW <= at + MaxLate
      BY <1>2 DEF EntriesComplete
    <2>1. Cardinality(DOMAIN members) <= MAX_MEMBERS_FETCHED
      BY <1>1, FetchIs
    <2>2. r \notin DOMAIN members
      BY <1>2, <2>1, AllFetched
    <2>3. seen[r].at + LARGEST_WINDOW <= now /\ seen[r].at \in Nat /\ now \in Nat
      BY <2>2 DEF KeyInv, Stored, SeenTyped, OnTime
    <2>4. QED
      BY <1>1, <2>3, LargestWindow, WindowsAssumption
  <1>5. CountUpToCap
    BY <1>1, FetchCounts DEF CountUpToCap
  <1>6. QED
    BY <1>3, <1>4, <1>5 DEF WindowInv
-----------------------------------------------------------------------------
(* The lifetime numbers.                                                   *)

\* What the customer's transactions amount to, each with its last attempt.
Attempted == [r \in DOMAIN seen |-> seen[r].amount]

LifetimeInv ==
    /\ aggregates.lifetime_count \in Nat
    /\ aggregates.lifetime_volume_minor \in Nat
    /\ Cardinality(DOMAIN seen) <= aggregates.lifetime_count
    /\ SumFunction(Attempted) <= aggregates.lifetime_volume_minor

LEMMA SeenFinite ==
  ASSUME SeenTyped
  PROVE  /\ IsFiniteSet(DOMAIN seen) /\ Cardinality(DOMAIN seen) \in Nat
         /\ Attempted \in [DOMAIN seen -> Nat]
         /\ SumFunction(Attempted) \in Nat
  <1>1. IsFiniteSet(DOMAIN seen)
    <2>1. DOMAIN seen \in SUBSET Refs
      BY DEF SeenTyped
    <2>2. QED
      BY <2>1, RefsAssumption, FS_Subset
  <1>2. Attempted \in [DOMAIN seen -> Nat]
    BY DEF SeenTyped, Attempted
  <1>3. QED
    BY <1>1, <1>2, FS_CardinalityType, SumNat

\* An attempt adds its amount to the lifetime volume, and to the sum over the
\* references at most that: a retry takes the place of what it repeats.
LEMMA RecordCounts ==
  ASSUME KeyInv, LifetimeInv, KeyInv',
         NEW p \in Deciders, NEW r \in Refs, NEW d \in Details, record_and_gather(p, r, d)
  PROVE  LifetimeInv'
  <1>1. PICK S, f, rec : /\ S = DOMAIN seen /\ f = Attempted
                         /\ rec = [at |-> moment[p], amount |-> d.amount, kind |-> d.kind]
    OBVIOUS
  <1>2. PICK g : g = Attempted'
    OBVIOUS
  <1>3. rec.amount = d.amount /\ d.amount \in Nat
    BY <1>1, DetailsAssumption
  <1>4. /\ IsFiniteSet(S) /\ Cardinality(S) \in Nat
        /\ f \in [S -> Nat] /\ SumFunction(f) \in Nat
    BY <1>1, SeenFinite DEF KeyInv
  <1>5. /\ DOMAIN seen' = S \cup {r} /\ seen'[r] = rec
        /\ \A x \in S : x # r => seen'[x] = seen[x]
    BY <1>1 DEF record_and_gather, put
  <1>6. /\ aggregates'.lifetime_count = aggregates.lifetime_count + 1
        /\ aggregates'.lifetime_volume_minor = aggregates.lifetime_volume_minor + d.amount
    BY DEF record_and_gather, aggregated
  <1>7. /\ IsFiniteSet(S \cup {r})
        /\ Cardinality(S \cup {r}) \in Nat
        /\ Cardinality(S \cup {r}) <= Cardinality(S) + 1
    <2>1. /\ IsFiniteSet(S \cup {r})
          /\ \/ Cardinality(S \cup {r}) = Cardinality(S)
             \/ Cardinality(S \cup {r}) = Cardinality(S) + 1
      BY <1>4, FS_AddElement
    <2> QED BY <1>4, <2>1
  <1>8. /\ g \in [S \cup {r} -> Nat] /\ g[r] = d.amount
        /\ \A x \in S : x # r => g[x] = f[x]
    <2>1. g = [x \in DOMAIN seen' |-> seen'[x].amount]
      BY <1>2 DEF Attempted
    <2>2. \A x \in S : f[x] = seen[x].amount /\ seen[x].amount \in Nat
      BY <1>1 DEF Attempted, KeyInv, SeenTyped
    <2>3. QED
      BY <1>3, <1>5, <2>1, <2>2
  <1>9. PICK e : e = [x \in (S \cup {r}) \ {r} |-> g[x]]
    OBVIOUS
  <1>10. SumFunction(g) = g[r] + SumFunction(e)
    <2>1. r \in S \cup {r}
      OBVIOUS
    <2>2. QED
      BY <1>7, <1>8, <1>9, <2>1, SumSplit
  <1>11. SumFunction(e) <= SumFunction(f)
    <2>1. (S \cup {r}) \ {r} = S \ {r} /\ S \ {r} \in SUBSET S
      OBVIOUS
    <2>2. e = [x \in S \ {r} |-> f[x]]
      BY <1>8, <1>9, <2>1
    <2>3. QED
      BY <1>4, <2>1, <2>2, SumMonotone
  <1>12. SumFunction(e) \in Nat
    <2>1. IsFiniteSet((S \cup {r}) \ {r})
      BY <1>7, FS_RemoveElement
    <2>2. e \in [(S \cup {r}) \ {r} -> Nat]
      BY <1>8, <1>9
    <2>3. QED
      BY <2>1, <2>2, SumNat
  <1>13. SumFunction(g) <= aggregates.lifetime_volume_minor + d.amount
    BY <1>1, <1>3, <1>4, <1>8, <1>10, <1>11, <1>12 DEF LifetimeInv
  <1>14. Cardinality(S \cup {r}) <= aggregates.lifetime_count + 1
    BY <1>1, <1>4, <1>7 DEF LifetimeInv
  <1>15. QED
    BY <1>2, <1>3, <1>5, <1>6, <1>13, <1>14 DEF LifetimeInv

-----------------------------------------------------------------------------
IInv == KeyInv /\ WindowInv /\ LifetimeInv

LEMMA InitHolds == Init => IInv
  <1> SUFFICES ASSUME Init PROVE IInv
    OBVIOUS
  <1>1. DOMAIN Empty = {}
    BY DEF Empty
  <1>2. /\ window.aggregates = aggregates /\ window.moment = 0
        /\ window.entries = Empty /\ DOMAIN seen = {}
    BY <1>1 DEF Init, NoWindow
  <1>3. EntriesTrue /\ EntriesComplete
    BY <1>1, <1>2 DEF EntriesTrue, EntriesComplete
  <1>4. CountUpToCap
    <2>1. \A w : matching(w, NoFilter) = {} /\ InWindow(w, NoFilter) = {}
      BY <1>1, <1>2 DEF matching, InWindow
    <2>2. Min({MAX_MEMBERS_FETCHED, 0}) = 0
      BY MinOfTwo, WindowsAssumption
    <2>3. QED
      BY <2>1, <2>2, FS_EmptySet DEF CountUpToCap, count
  <1>5. LifetimeInv
    <2>1. aggregates.lifetime_count = 0 /\ aggregates.lifetime_volume_minor = 0
      BY DEF Init, NoAggregates
    <2>2. DOMAIN Attempted = {}
      BY <1>2 DEF Attempted
    <2>3. PICK g : Adds(g, Attempted, {}) /\ SumFunction(Attempted) = g[{}]
      BY <2>2, SumIs, FS_EmptySet
    <2>4. SumFunction(Attempted) = 0
      BY <2>3 DEF Adds, SumStep
    <2>5. QED
      BY <1>2, <2>1, <2>4, FS_EmptySet DEF LifetimeInv
  <1>6. QED
    BY <1>3, <1>4, <1>5, InitKeeps DEF IInv, WindowInv

LEMMA NextHolds ==
  ASSUME IInv, [Next]_vars
  PROVE  IInv'
  <1>1. KeyInv'
    BY NextKeeps DEF IInv
  <1>2. (KeyInv /\ JustFetched => WindowInv)'
    BY FetchedIsTrue, PTL
  <1>3. ASSUME NEW p \in Deciders, NEW r \in Refs, NEW d \in Details, record_and_gather(p, r, d)
        PROVE  IInv'
    <2>1. PICK at : at = moment[p]
      OBVIOUS
    <2>2. at \in Nat /\ now' <= at + MaxLate
      BY <1>3, <2>1 DEF IInv, KeyInv, OnTime, record_and_gather
    <2>3. window' = fetch(at, members', amounts', aggregates')
      BY <1>3, <2>1 DEF record_and_gather
    <2>4. JustFetched'
      BY <2>2, <2>3 DEF JustFetched, fetch, fetched, Above, detail
    <2>5. QED
      BY <1>1, <1>2, <1>3, <2>4, RecordCounts DEF IInv
  <1>4. ASSUME UNCHANGED <<seen, aggregates>> PROVE LifetimeInv'
    <2>1. Attempted' = Attempted
      BY <1>4 DEF Attempted
    <2>2. QED
      BY <1>4, <2>1 DEF IInv, LifetimeInv
  <1>5. CASE gather
    <2>1. now \in Nat /\ now' = now /\ now <= now + MaxLate
      BY <1>5, WindowsAssumption DEF IInv, KeyInv, OnTime, gather
    <2>2. window' = fetch(now, members', amounts', aggregates')
      BY <1>5 DEF gather
    <2>3. JustFetched'
      BY <2>1, <2>2 DEF JustFetched, fetch, fetched, Above, detail
    <2>4. QED
      BY <1>1, <1>2, <1>4, <1>5, <2>3 DEF IInv, gather
  <1>6. ASSUME UNCHANGED <<window, seen, aggregates>> PROVE IInv'
    <2>1. EntriesTrue' /\ EntriesComplete'
      BY <1>6 DEF IInv, WindowInv, EntriesTrue, EntriesComplete
    <2>2. CountUpToCap'
      BY <1>6 DEF IInv, WindowInv, CountUpToCap, count, matching, InWindow, passes
    <2>3. QED
      BY <1>1, <1>4, <1>6, <2>1, <2>2 DEF IInv, WindowInv
  <1>7. CASE Tick
    BY <1>6, <1>7 DEF Tick
  <1>8. ASSUME NEW p \in Deciders, Start(p) \/ Abandon(p) PROVE IInv'
    BY <1>6, <1>8 DEF Start, Abandon
  <1>9. CASE UNCHANGED vars
    BY <1>6, <1>9 DEF vars
  <1>10. QED
    BY <1>3, <1>5, <1>7, <1>8, <1>9 DEF Next

\* What Redis holds, what the last fetch returned and what the lifetime hash
\* says agree with the attempts recorded, in every reachable state.
THEOREM Invariance == Spec => []IInv
  <1>1. IInv /\ [Next]_vars => IInv'
    BY NextHolds
  <1>2. QED
    BY InitHolds, <1>1, PTL DEF Spec

\* A customer above MAX_MEMBERS_FETCHED is counted up to it, in every window
\* that late decisions leave alone: members[-MAX_MEMBERS_FETCHED:] keeps the
\* newest.
THEOREM CapKeepsNewest == Spec => []CountUpToCap
  <1>1. IInv => CountUpToCap
    BY DEF IInv, WindowInv
  <1>2. QED
    BY Invariance, <1>1, PTL

\* A reference is fetched and passes exactly when its last attempt lies in the
\* window and passes.
LEMMA MatchingIsInWindow ==
  ASSUME IInv, ~ window.truncated, NEW w \in SafeWindows, NEW f
  PROVE  matching(w, f) = InWindow(w, f)
  <1>1. w \in Nat /\ w + MaxLate < LARGEST_WINDOW /\ LARGEST_WINDOW \in Nat /\ MaxLate \in Nat
    BY LargestWindow, WindowsAssumption DEF SafeWindows
  <1>2. ASSUME NEW r \in DOMAIN window.entries
        PROVE  /\ r \in DOMAIN seen /\ window.entries[r].score = seen[r].at
               /\ passes(f, window.entries[r]) <=> passes(f, seen[r])
    BY DEF IInv, WindowInv, EntriesTrue, passes
  <1>3. ASSUME NEW r \in DOMAIN seen, seen[r].at + w >= window.moment
        PROVE  r \in DOMAIN window.entries
    <2>1. seen[r].at \in Nat /\ window.moment \in Nat
      BY DEF IInv, KeyInv, SeenTyped, WindowInv, EntriesTrue
    <2>2. ~ (seen[r].at + LARGEST_WINDOW <= window.moment + MaxLate)
      BY <1>1, <1>3, <2>1
    <2>3. QED
      BY <2>2 DEF IInv, WindowInv, EntriesComplete
  <1>4. QED
    BY <1>2, <1>3 DEF matching, InWindow

\* Whatever was trimmed, expired, retried or late, the counts and sums a rule
\* reads are those of the distinct transactions attempted in the window, each
\* with what its last attempt said.
THEOREM WindowsExact == Spec => []WindowExact
  <1>1. ASSUME IInv, ~ window.truncated, NEW w \in SafeWindows, NEW f \in Filters
        PROVE  /\ count(w, f) = Cardinality(InWindow(w, f))
               /\ total(w, f) = SumFunction([r \in InWindow(w, f) |-> seen[r].amount])
    <2>1. PICK M : M = matching(w, f)
      OBVIOUS
    <2>2. M = InWindow(w, f)
      BY <1>1, <2>1, MatchingIsInWindow
    <2>3. \A r \in M : window.entries[r].amount = seen[r].amount
      BY <1>1, <2>1 DEF IInv, WindowInv, EntriesTrue, matching
    <2>4. [r \in M |-> window.entries[r].amount] = [r \in M |-> seen[r].amount]
      BY <2>3
    <2>5. total(w, f) = SumFunction([r \in M |-> window.entries[r].amount])
      BY <2>1 DEF total
    <2>6. QED
      BY <2>1, <2>2, <2>4, <2>5 DEF count
  <1>2. IInv => WindowExact
    BY <1>1 DEF WindowExact
  <1>3. QED
    BY Invariance, <1>2, PTL

\* The lifetime numbers that come with a window are never below what the window
\* counts and sums: the increments and the window are one MULTI/EXEC.
THEOREM LifetimeCovers == Spec => []LifetimeCoversWindow
  <1>1. ASSUME IInv, NEW w \in Windows
        PROVE  /\ window.aggregates.lifetime_count >= count(w, NoFilter)
               /\ window.aggregates.lifetime_volume_minor >= total(w, NoFilter)
    <2>1. PICK M, S, f : M = matching(w, NoFilter) /\ S = DOMAIN seen /\ f = Attempted
      OBVIOUS
    <2>2. /\ IsFiniteSet(S) /\ Cardinality(S) \in Nat
          /\ f \in [S -> Nat] /\ SumFunction(f) \in Nat
      BY <1>1, <2>1, SeenFinite DEF IInv, KeyInv
    <2>3. M \in SUBSET S
      BY <1>1, <2>1 DEF IInv, WindowInv, EntriesTrue, matching
    <2>4. IsFiniteSet(M) /\ Cardinality(M) <= Cardinality(S) /\ Cardinality(M) \in Nat
      BY <2>2, <2>3, FS_Subset, FS_CardinalityType
    <2>5. PICK e : e = [r \in M |-> f[r]]
      OBVIOUS
    <2>6. SumFunction(e) <= SumFunction(f)
      BY <2>2, <2>3, <2>5, SumMonotone
    <2>7. SumFunction(e) \in Nat
      <3>1. e \in [M -> Nat]
        BY <2>2, <2>3, <2>5
      <3>2. QED
        BY <2>4, <3>1, SumNat
    <2>8. total(w, NoFilter) = SumFunction(e)
      <3>1. \A r \in M : window.entries[r].amount = f[r]
        BY <1>1, <2>1, <2>3 DEF IInv, WindowInv, EntriesTrue, matching, Attempted
      <3>2. [r \in M |-> window.entries[r].amount] = e
        BY <2>5, <3>1
      <3>3. total(w, NoFilter) = SumFunction([r \in M |-> window.entries[r].amount])
        BY <2>1 DEF total
      <3>4. QED
        BY <3>2, <3>3
    <2>9. /\ window.aggregates = aggregates
          /\ aggregates.lifetime_count \in Nat /\ Cardinality(S) <= aggregates.lifetime_count
          /\ aggregates.lifetime_volume_minor \in Nat
          /\ SumFunction(f) <= aggregates.lifetime_volume_minor
      BY <1>1, <2>1 DEF IInv, WindowInv, EntriesTrue, LifetimeInv
    <2>10. QED
      BY <2>1, <2>2, <2>4, <2>6, <2>7, <2>8, <2>9 DEF count
  <1>2. IInv => LifetimeCoversWindow
    BY <1>1 DEF LifetimeCoversWindow
  <1>3. QED
    BY Invariance, <1>2, PTL
=============================================================================
