----------------------------- MODULE ListProofs -----------------------------
(***************************************************************************)
(* What Arranged, Picked and Selected make of any set and any list.        *)
(***************************************************************************)
EXTENDS Lists, FiniteSetTheorems, SequenceTheorems, WellFoundedInduction, TLAPS

-----------------------------------------------------------------------------
(* Finite sets and sets of numbers.                                         *)

(* A set of numbers that is not empty has a least one. *)
LEMMA LeastNumber ==
  ASSUME NEW S, S \subseteq Nat, S # {}
  PROVE  \E x \in S : \A y \in S : x <= y
<1>1. PICK x \in S : \A y \in S : ~(<<y, x>> \in OpToRel(<, Nat))
  BY NatLessThanWellFounded, WFMin
<1>2. ASSUME NEW y \in S PROVE x <= y
  <2>1. ~(y < x)
    BY <1>1 DEF OpToRel
  <2> QED BY <2>1
<1> QED BY <1>2

LEMMA FiniteImage ==
  ASSUME NEW S, IsFiniteSet(S), NEW f
  PROVE  IsFiniteSet({f[x] : x \in S})
<1> DEFINE T == {f[x] : x \in S}
           g == [x \in S |-> f[x]]
<1>1. g \in Surjection(S, T)
  BY DEF Surjection
<1> HIDE DEF g, T
<1>2. IsFiniteSet(T)
  BY <1>1, FS_Surjection
<1> QED BY <1>2 DEF T

-----------------------------------------------------------------------------
(* Arranging a set.                                                         *)

IsTotalOrder(order, S) ==
  /\ \A x \in S : <<x, x>> \notin order
  /\ \A x, y \in S : x = y \/ <<x, y>> \in order \/ <<y, x>> \in order
  /\ \A x, y, z \in S : <<x, y>> \in order /\ <<y, z>> \in order => <<x, z>> \in order

(* Arranged lists every element of the set once, in the order. *)
LEMMA ArrangedLists ==
  ASSUME NEW S, IsFiniteSet(S), NEW order, IsTotalOrder(order, S)
  PROVE  /\ Cardinality(S) \in Nat
         /\ DOMAIN Arranged(S, order) = 1 .. Cardinality(S)
         /\ \A i \in DOMAIN Arranged(S, order) : Arranged(S, order)[i] \in S
         /\ \A x \in S : \E i \in DOMAIN Arranged(S, order) : Arranged(S, order)[i] = x
         /\ \A i, j \in DOMAIN Arranged(S, order) :
              i < j => <<Arranged(S, order)[i], Arranged(S, order)[j]>> \in order
<1> DEFINE below(x) == {y \in S : <<y, x>> \in order}
           place(x) == Place(x, S, order)
           n == Cardinality(S)
           a == Arranged(S, order)
<1>1. n \in Nat
  BY FS_CardinalityType
<1>2. ASSUME NEW x \in S PROVE place(x) \in 1 .. n /\ IsFiniteSet(below(x))
  <2>0. place(x) = 1 + Cardinality(below(x))
    BY DEF Place
  <2>1. IsFiniteSet(S \ {x}) /\ Cardinality(S \ {x}) = n - 1
    BY FS_RemoveElement
  <2>2. below(x) \in SUBSET (S \ {x})
    BY DEF IsTotalOrder
  <2> HIDE DEF below
  <2>3. IsFiniteSet(below(x)) /\ Cardinality(below(x)) <= n - 1
    BY <2>1, <2>2, FS_Subset
  <2>4. Cardinality(below(x)) \in Nat
    BY <2>3, FS_CardinalityType
  <2> QED BY <1>1, <2>0, <2>3, <2>4
<1>3. ASSUME NEW x \in S, NEW y \in S, <<x, y>> \in order PROVE place(x) < place(y)
  <2>0. place(x) = 1 + Cardinality(below(x)) /\ place(y) = 1 + Cardinality(below(y))
    BY DEF Place
  <2>1. below(x) \in SUBSET below(y) /\ x \in below(y) /\ x \notin below(x)
    BY <1>3 DEF IsTotalOrder
  <2>2. IsFiniteSet(below(x)) /\ IsFiniteSet(below(y))
    BY <1>2
  <2> HIDE DEF below
  <2>3. /\ Cardinality(below(x)) <= Cardinality(below(y))
        /\ Cardinality(below(x)) # Cardinality(below(y))
    BY <2>1, <2>2, FS_Subset
  <2>4. Cardinality(below(x)) \in Nat /\ Cardinality(below(y)) \in Nat
    BY <2>2, FS_CardinalityType
  <2> HIDE DEF place
  <2> QED BY <2>0, <2>3, <2>4
<1> HIDE DEF place
<1>4. ASSUME NEW x \in S, NEW y \in S, place(x) = place(y) PROVE x = y
  <2>0. place(x) \in 1 .. n
    BY <1>2
  <2>1. ~(place(x) < place(y)) /\ ~(place(y) < place(x))
    BY <1>1, <1>4, <2>0
  <2>2. <<x, y>> \notin order /\ <<y, x>> \notin order
    BY <1>3, <2>1
  <2> QED BY <2>2 DEF IsTotalOrder
<1>5. \A i \in 1 .. n : \E x \in S : place(x) = i
  <2> DEFINE f == [x \in S |-> place(x)]
  <2>1. f \in Injection(S, 1 .. n)
    BY <1>2, <1>4 DEF Injection, IsInjective
  <2>2. IsFiniteSet(1 .. n) /\ Cardinality(1 .. n) = n
    BY <1>1, FS_Interval
  <2> HIDE DEF f, n
  <2>3. Cardinality(S) = Cardinality(1 .. n) <=> f \in Surjection(S, 1 .. n)
    BY <2>1, <2>2, FS_Injection
  <2>4. f \in Surjection(S, 1 .. n)
    BY <2>2, <2>3 DEF n
  <2> QED BY <2>4 DEF Surjection, f
<1>6. a = [i \in 1 .. n |-> CHOOSE x \in S : place(x) = i]
  BY DEF Arranged, place
<1>7. \A i \in 1 .. n : a[i] \in S /\ place(a[i]) = i
  BY <1>5, <1>6
<1>8. ASSUME NEW x \in S PROVE place(x) \in 1 .. n /\ a[place(x)] = x
  BY <1>2, <1>4, <1>7
<1>9. ASSUME NEW i \in 1 .. n, NEW j \in 1 .. n, i < j PROVE <<a[i], a[j]>> \in order
  <2>1. a[i] \in S /\ a[j] \in S /\ place(a[i]) = i /\ place(a[j]) = j
    BY <1>7
  <2>2. a[i] # a[j] /\ ~(place(a[j]) < place(a[i]))
    BY <1>9, <2>1
  <2> QED BY <1>3, <2>1, <2>2 DEF IsTotalOrder
<1>10. DOMAIN a = 1 .. n
  BY <1>6
<1> HIDE DEF a, n
<1>11. \A x \in S : \E i \in 1 .. n : a[i] = x
  BY <1>8
<1> QED BY <1>1, <1>7, <1>9, <1>10, <1>11 DEF a, n

-----------------------------------------------------------------------------
(* Lists.                                                                   *)

LEMMA ListParts ==
  ASSUME NEW s, IsList(s)
  PROVE  Len(s) \in Nat /\ DOMAIN s = 1 .. Len(s) /\ s = [i \in 1 .. Len(s) |-> s[i]]
BY LenProperties DEF IsList

LEMMA ListOf ==
  ASSUME NEW S, NEW s \in Seq(S)
  PROVE  IsList(s)
<1>1. Len(s) \in Nat /\ DOMAIN s = 1 .. Len(s) /\ s = [i \in 1 .. Len(s) |-> s[i]]
  BY LenProperties
<1>2. s \in [1 .. Len(s) -> {s[i] : i \in DOMAIN s}]
  BY <1>1
<1> QED BY <1>1, <1>2 DEF IsList

(* A function on the first numbers is a list. *)
LEMMA ListFrom ==
  ASSUME NEW n \in Nat, NEW s, s = [i \in 1 .. n |-> s[i]]
  PROVE  IsList(s) /\ Len(s) = n /\ DOMAIN s = 1 .. n
<1>1. s \in [1 .. n -> {s[i] : i \in DOMAIN s}]
  OBVIOUS
<1>2. s \in Seq({s[i] : i \in DOMAIN s})
  BY <1>1
<1> QED BY <1>2 DEF IsList

LEMMA EqualLists ==
  ASSUME NEW s, IsList(s), NEW t, IsList(t), Len(s) = Len(t),
         \A i \in DOMAIN s : s[i] = t[i]
  PROVE  s = t
BY ListParts

LEMMA ConcatLists ==
  ASSUME NEW s, IsList(s), NEW t, IsList(t)
  PROVE  /\ IsList(s \o t)
         /\ Len(s \o t) = Len(s) + Len(t)
         /\ \A i \in DOMAIN s : i \in DOMAIN (s \o t) /\ (s \o t)[i] = s[i]
         /\ \A i \in DOMAIN t : Len(s) + i \in DOMAIN (s \o t) /\ (s \o t)[Len(s) + i] = t[i]
         /\ \A k \in DOMAIN (s \o t) :
              k \in DOMAIN s \/ (k - Len(s) \in DOMAIN t /\ (s \o t)[k] = t[k - Len(s)])
<1> DEFINE S == {s[i] : i \in DOMAIN s} \cup {t[i] : i \in DOMAIN t}
<1>1. Len(s) \in Nat /\ DOMAIN s = 1 .. Len(s) /\ Len(t) \in Nat /\ DOMAIN t = 1 .. Len(t)
  BY ListParts
<1>2. s \in Seq(S) /\ t \in Seq(S)
  <2>1. s \in [1 .. Len(s) -> S] /\ t \in [1 .. Len(t) -> S]
    BY <1>1, ListParts
  <2> QED BY <1>1, <2>1
<1> HIDE DEF S
<1>3. /\ s \o t \in Seq(S)
      /\ Len(s \o t) = Len(s) + Len(t)
      /\ \A i \in 1 .. Len(s) + Len(t) : (s \o t)[i] = IF i <= Len(s) THEN s[i] ELSE t[i - Len(s)]
  BY <1>2, ConcatProperties
<1>4. IsList(s \o t) /\ DOMAIN (s \o t) = 1 .. Len(s) + Len(t)
  BY <1>3, ListOf, LenProperties
<1> QED BY <1>1, <1>3, <1>4

LEMMA FiniteListDomain ==
  ASSUME NEW s, IsList(s)
  PROVE  IsFiniteSet(DOMAIN s) /\ Cardinality(DOMAIN s) = Len(s)
<1>1. Len(s) \in Nat /\ DOMAIN s = 1 .. Len(s)
  BY ListParts
<1>2. IsFiniteSet(1 .. Len(s)) /\ Cardinality(1 .. Len(s)) = Len(s)
  <2> DEFINE n == Len(s)
  <2>1. n \in Int /\ n >= 0
    BY <1>1
  <2> HIDE DEF n
  <2>2. IsFiniteSet(1 .. n) /\ Cardinality(1 .. n) = IF 1 > n THEN 0 ELSE n - 1 + 1
    BY <2>1, FS_Interval
  <2> QED BY <2>1, <2>2 DEF n
<1> QED BY <1>1, <1>2

(* What Picked takes of a list, and in which order. *)
LEMMA PickedLists ==
  ASSUME NEW s, IsList(s), NEW K \in SUBSET (DOMAIN s)
  PROVE  /\ IsList(Picked(s, K))
         /\ \A k \in DOMAIN Picked(s, K) :
              Ascending(K)[k] \in K /\ Picked(s, K)[k] = s[Ascending(K)[k]]
         /\ \A i \in K : \E k \in DOMAIN Picked(s, K) : Ascending(K)[k] = i
         /\ \A k, l \in DOMAIN Picked(s, K) : k < l => Ascending(K)[k] < Ascending(K)[l]
<1> DEFINE order == {o \in K \X K : o[1] < o[2]}
           a == Ascending(K)
<1>1. DOMAIN s = 1 .. Len(s) /\ Len(s) \in Nat
  BY ListParts
<1>2. IsFiniteSet(K)
  BY FiniteListDomain, FS_Subset
<1>3. IsTotalOrder(order, K)
  BY <1>1 DEF IsTotalOrder
<1>4. a = Arranged(K, order)
  BY DEF Ascending
<1> HIDE DEF order, a
<1>5. /\ Cardinality(K) \in Nat
      /\ DOMAIN a = 1 .. Cardinality(K)
      /\ \A k \in DOMAIN a : a[k] \in K
      /\ \A i \in K : \E k \in DOMAIN a : a[k] = i
      /\ \A k, l \in DOMAIN a : k < l => <<a[k], a[l]>> \in order
  BY <1>2, <1>3, <1>4, ArrangedLists
<1>6. Picked(s, K) = [k \in 1 .. Cardinality(K) |-> s[a[k]]]
  BY <1>5 DEF Picked, a
<1>7. IsList(Picked(s, K)) /\ DOMAIN Picked(s, K) = DOMAIN a
  BY <1>5, <1>6, ListFrom
<1>8. \A k, l \in DOMAIN a : k < l => a[k] < a[l]
  BY <1>5 DEF order
<1> QED BY <1>5, <1>6, <1>7, <1>8 DEF a

(* All of a list is the list. *)
LEMMA PickedAll ==
  ASSUME NEW s, IsList(s)
  PROVE  Picked(s, DOMAIN s) = s
<1> DEFINE K == DOMAIN s
           n == Len(s)
           a == Ascending(K)
           order == {o \in K \X K : o[1] < o[2]}
<1>1. n \in Nat /\ K = 1 .. n /\ IsFiniteSet(K) /\ Cardinality(K) = n
  BY ListParts, FiniteListDomain
<1>2. ASSUME NEW x \in K PROVE Place(x, K, order) = x
  <2> DEFINE below == {y \in K : <<y, x>> \in order}
  <2>1. below = 1 .. x - 1
    BY <1>1
  <2>2. Place(x, K, order) = 1 + Cardinality(below)
    BY DEF Place
  <2>3. Cardinality(1 .. x - 1) = x - 1
    <3>1. x - 1 \in Nat
      BY <1>1
    <3> QED BY <3>1, FS_Interval
  <2> HIDE DEF below
  <2> QED BY <1>1, <2>1, <2>2, <2>3
<1>3. a = [i \in 1 .. n |-> CHOOSE x \in K : Place(x, K, order) = i]
  BY <1>1 DEF Ascending, Arranged
<1> HIDE DEF a, order
<1>4. a = [i \in 1 .. n |-> i]
  BY <1>1, <1>2, <1>3
<1>5. Picked(s, K) = [k \in 1 .. n |-> s[k]]
  BY <1>1, <1>4 DEF Picked, a
<1> HIDE DEF K
<1> QED BY <1>5, ListParts DEF K

LEMMA PickedNone ==
  ASSUME NEW s, IsList(s)
  PROVE  Picked(s, {}) = <<>>
<1>1. IsList(Picked(s, {}))
  BY PickedLists
<1>2. \A k \in DOMAIN Picked(s, {}) : Ascending({})[k] \in {}
  BY PickedLists
<1> DEFINE p == Picked(s, {})
<1>3. Len(p) \in Nat /\ DOMAIN p = 1 .. Len(p) /\ p = [i \in 1 .. Len(p) |-> p[i]]
  BY <1>1, ListParts
<1> HIDE DEF p
<1>4. DOMAIN p = {}
  BY <1>2 DEF p
<1>5. Len(p) = 0
  BY <1>3, <1>4
<1>6. p = <<>>
  BY <1>3, <1>5
<1> QED BY <1>6 DEF p

(* Listed lists elements of the set, each once. *)
LEMMA ListedOnce ==
  ASSUME NEW S, IsFiniteSet(S)
  PROVE  LET list == Listed(S)
         IN  /\ IsList(list)
             /\ \A i \in DOMAIN list : list[i] \in S
             /\ \A i, j \in DOMAIN list : list[i] = list[j] => i = j
             /\ S = {} => list = <<>>
<1> DEFINE n == Cardinality(S)
           list == Listed(S)
<1>1. n \in Nat /\ \E f \in [1 .. n -> S] : \A i, j \in DOMAIN f : f[i] = f[j] => i = j
  <2>1. Cardinality(S) \in Nat
    BY FS_CardinalityType
  <2>2. ExistsBijection(1 .. Cardinality(S), S)
    BY FS_CardinalityType
  <2> QED BY <2>1, <2>2 DEF ExistsBijection, Bijection, Injection, IsInjective
<1>2. list \in [1 .. n -> S] /\ \A i, j \in DOMAIN list : list[i] = list[j] => i = j
  BY <1>1 DEF Listed
<1> HIDE DEF list
<1>3. IsList(list) /\ DOMAIN list = 1 .. n
  <2>1. list = [i \in 1 .. n |-> list[i]]
    BY <1>2
  <2> QED BY <1>1, <2>1, ListFrom
<1>4. S = {} => list = <<>>
  <2>1. S = {} => DOMAIN list = {}
    BY <1>2
  <2>2. DOMAIN list = {} => list = <<>>
    BY <1>3 DEF IsList
  <2> QED BY <2>1, <2>2
<1> QED BY <1>2, <1>3, <1>4 DEF list

-----------------------------------------------------------------------------
(* Numbers in turn.                                                         *)

(* Induction up to a number: the hypothesis is a set, not a predicate. *)
LEMMA HoldsUpTo ==
  ASSUME NEW n \in Nat, NEW P, 0 \in P, \A m \in 0 .. n : m + 1 \in 0 .. n /\ m \in P => m + 1 \in P
  PROVE  0 .. n \subseteq P
<1> DEFINE bad == (0 .. n) \ P
<1>1. SUFFICES ASSUME bad # {} PROVE FALSE
  OBVIOUS
<1>2. bad \subseteq Nat
  OBVIOUS
<1> HIDE DEF bad
<1>3. PICK x \in bad : \A y \in bad : x <= y
  BY <1>1, <1>2, LeastNumber
<1>4. x \in 0 .. n /\ x \notin P /\ x # 0
  BY <1>3 DEF bad
<1>5. x - 1 \in 0 .. n /\ x - 1 \notin bad
  BY <1>3, <1>4
<1>6. x - 1 \in P
  BY <1>5 DEF bad
<1> QED BY <1>4, <1>5, <1>6

(* What a loop goes through: a state for each number of steps done. *)
AreSteps(step, n, S) == \A k \in 1 .. n, s \in S : step[k][s] \in S
IsRun(g, step, n, S, start) ==
  g \in [0 .. n -> S] /\ g[0] = start /\ \A k \in 1 .. n : g[k] = step[k][g[k - 1]]

LEMMA LoopStates ==
  ASSUME NEW S, NEW start \in S, NEW n \in Nat, NEW step, AreSteps(step, n, S)
  PROVE  \E g : IsRun(g, step, n, S, start)
<1> USE DEF AreSteps
<1> DEFINE Runs(m, g) == g \in [0 .. m -> S] /\ g[0] = start /\ \A k \in 1 .. m : g[k] = step[k][g[k - 1]]
           P == {m \in 0 .. n : \E g : Runs(m, g)}
<1>1. 0 \in P
  <2>1. Runs(0, [k \in 0 .. 0 |-> start])
    OBVIOUS
  <2>2. \E g : Runs(0, g)
    BY <2>1
  <2> HIDE DEF Runs
  <2> QED BY <2>2
<1>2. ASSUME NEW m \in 0 .. n, m + 1 \in 0 .. n, m \in P PROVE m + 1 \in P
  <2>1. PICK g : Runs(m, g)
    BY <1>2
  <2> DEFINE h == [k \in 0 .. m + 1 |-> IF k = m + 1 THEN step[m + 1][g[m]] ELSE g[k]]
  <2>2. m + 1 \in 1 .. n /\ g[m] \in S
    BY <1>2, <2>1
  <2>3. h \in [0 .. m + 1 -> S]
    BY <2>1, <2>2
  <2>4. h[0] = start
    BY <2>1, <2>2
  <2>5. ASSUME NEW k \in 1 .. m + 1 PROVE h[k] = step[k][h[k - 1]]
    <3>1. k - 1 \in 0 .. m /\ h[k - 1] = g[k - 1]
      OBVIOUS
    <3>2. CASE k = m + 1
      BY <3>1, <3>2
    <3>3. CASE k # m + 1
      BY <2>1, <3>1, <3>3
    <3> QED BY <3>2, <3>3
  <2> HIDE DEF h
  <2> QED BY <1>2, <2>3, <2>4, <2>5
<1>3. n \in P
  <2> HIDE DEF P
  <2>1. 0 .. n \subseteq P
    BY <1>1, <1>2, HoldsUpTo
  <2>2. n \in 0 .. n
    OBVIOUS
  <2> QED BY ONLY <2>1, <2>2
<1> QED BY <1>3 DEF IsRun

-----------------------------------------------------------------------------
(* Counting.                                                                *)

(* Where a list has a value. *)
At(s, x) == {i \in DOMAIN s : s[i] = x}
Count(s, x) == Cardinality(At(s, x))

LEMMA OneToOne ==
  ASSUME NEW S, IsFiniteSet(S), NEW T, NEW f \in [S -> T],
         \A x, y \in S : f[x] = f[y] => x = y, \A y \in T : \E x \in S : f[x] = y
  PROVE  IsFiniteSet(T) /\ Cardinality(T) = Cardinality(S)
<1>1. f \in Bijection(S, T)
  BY DEF Bijection, Injection, IsInjective, Surjection
<1>2. ExistsBijection(S, T)
  BY <1>1 DEF ExistsBijection
<1> QED BY <1>2, FS_Bijection

LEMMA CountIsNumber ==
  ASSUME NEW s, IsList(s), NEW x
  PROVE  IsFiniteSet(At(s, x)) /\ Count(s, x) \in Nat
<1>1. IsFiniteSet(DOMAIN s)
  BY FiniteListDomain
<1>2. At(s, x) \in SUBSET (DOMAIN s)
  BY DEF At
<1> HIDE DEF At
<1>3. IsFiniteSet(At(s, x))
  BY <1>1, <1>2, FS_Subset
<1> QED BY <1>3, FS_CardinalityType DEF Count

LEMMA PickedLength ==
  ASSUME NEW s, IsList(s), NEW K \in SUBSET (DOMAIN s)
  PROVE  IsFiniteSet(K) /\ Len(Picked(s, K)) = Cardinality(K)
<1> DEFINE p == Picked(s, K)
           a == Ascending(K)
<1>1. /\ IsList(p)
      /\ \A k \in DOMAIN p : a[k] \in K
      /\ \A i \in K : \E k \in DOMAIN p : a[k] = i
      /\ \A k, l \in DOMAIN p : k < l => a[k] < a[l]
  BY PickedLists
<1>2. DOMAIN s \subseteq Nat
  BY ListParts
<1> HIDE DEF p, a
<1>3. IsFiniteSet(DOMAIN p) /\ Cardinality(DOMAIN p) = Len(p) /\ DOMAIN p \subseteq Nat
  BY <1>1, FiniteListDomain, ListParts
<1> DEFINE f == [k \in DOMAIN p |-> a[k]]
<1>4. f \in [DOMAIN p -> K] /\ \A i \in K : \E k \in DOMAIN p : f[k] = i
  BY <1>1
<1>5. \A k, l \in DOMAIN p : f[k] = f[l] => k = l
  <2> SUFFICES ASSUME NEW k \in DOMAIN p, NEW l \in DOMAIN p, a[k] = a[l] PROVE k = l
    OBVIOUS
  <2>1. a[k] \in Nat
    BY <1>1, <1>2
  <2> QED BY <1>1, <1>3, <2>1
<1> HIDE DEF f
<1>6. IsFiniteSet(K) /\ Cardinality(K) = Cardinality(DOMAIN p)
  BY <1>3, <1>4, <1>5, OneToOne
<1> QED BY <1>3, <1>6 DEF p

LEMMA CountPicked ==
  ASSUME NEW s, IsList(s), NEW K \in SUBSET (DOMAIN s), NEW x
  PROVE  Count(Picked(s, K), x) = Cardinality({i \in K : s[i] = x})
<1> DEFINE p == Picked(s, K)
           a == Ascending(K)
           T == {i \in K : s[i] = x}
<1>1. /\ IsList(p)
      /\ \A k \in DOMAIN p : a[k] \in K /\ p[k] = s[a[k]]
      /\ \A i \in K : \E k \in DOMAIN p : a[k] = i
      /\ \A k, l \in DOMAIN p : k < l => a[k] < a[l]
  BY PickedLists
<1>2. DOMAIN s \subseteq Nat
  BY ListParts
<1> HIDE DEF p, a
<1>3. IsFiniteSet(At(p, x)) /\ DOMAIN p \subseteq Nat
  BY <1>1, CountIsNumber, ListParts
<1> DEFINE f == [k \in At(p, x) |-> a[k]]
<1>4. f \in [At(p, x) -> T] /\ \A i \in T : \E k \in At(p, x) : f[k] = i
  BY <1>1 DEF At
<1>5. \A k, l \in At(p, x) : f[k] = f[l] => k = l
  <2> SUFFICES ASSUME NEW k \in At(p, x), NEW l \in At(p, x), a[k] = a[l] PROVE k = l
    OBVIOUS
  <2>1. k \in DOMAIN p /\ l \in DOMAIN p /\ a[k] \in Nat
    BY <1>1, <1>2 DEF At
  <2> QED BY <1>1, <1>3, <2>1
<1> HIDE DEF f, T
<1>6. Cardinality(T) = Cardinality(At(p, x))
  BY <1>3, <1>4, <1>5, OneToOne
<1> QED BY <1>6 DEF p, T, Count

LEMMA CountConcat ==
  ASSUME NEW s, IsList(s), NEW t, IsList(t), NEW x
  PROVE  Count(s \o t, x) = Count(s, x) + Count(t, x)
<1> DEFINE c == s \o t
           n == Len(s)
           B == {i \in DOMAIN c : n < i /\ c[i] = x}
           f == [i \in At(t, x) |-> i + n]
<1>1. /\ n \in Nat /\ Len(t) \in Nat /\ DOMAIN s = 1 .. n /\ DOMAIN t = 1 .. Len(t)
      /\ DOMAIN c = 1 .. n + Len(t)
      /\ \A i \in 1 .. n : c[i] = s[i]
      /\ \A i \in 1 .. Len(t) : c[n + i] = t[i]
  <2>1. n \in Nat /\ DOMAIN s = 1 .. n
    BY ListParts
  <2>2. Len(t) \in Nat /\ DOMAIN t = 1 .. Len(t)
    BY ListParts
  <2>3. IsList(c) /\ Len(c) = n + Len(t)
    BY ConcatLists
  <2>4. DOMAIN c = 1 .. n + Len(t)
    BY <2>3, ListParts
  <2>5. \A i \in 1 .. n : c[i] = s[i]
    BY <2>1, ConcatLists
  <2>6. \A i \in 1 .. Len(t) : c[n + i] = t[i]
    BY <2>2, ConcatLists
  <2> QED BY <2>1, <2>2, <2>4, <2>5, <2>6
<1> HIDE DEF c, n
<1>2. At(c, x) = At(s, x) \cup B
  BY <1>1 DEF At
<1>3. At(s, x) \cap B = {}
  BY <1>1 DEF At
<1>4. f \in [At(t, x) -> B] /\ \A i, j \in At(t, x) : f[i] = f[j] => i = j
  BY <1>1 DEF At
<1>5. ASSUME NEW i \in B PROVE \E j \in At(t, x) : f[j] = i
  <2>1. i - n \in 1 .. Len(t) /\ n + (i - n) = i
    BY <1>1
  <2>2. t[i - n] = x
    BY <1>1, <2>1
  <2>3. i - n \in At(t, x)
    BY <1>1, <2>1, <2>2 DEF At
  <2>4. f[i - n] = i
    BY <1>1, <2>1, <2>3
  <2> QED BY <2>3, <2>4
<1>6. IsFiniteSet(At(s, x)) /\ IsFiniteSet(At(t, x)) /\ Count(s, x) \in Nat /\ Count(t, x) \in Nat
  BY CountIsNumber
<1> HIDE DEF B, f
<1>7. IsFiniteSet(B) /\ Cardinality(B) = Count(t, x)
  BY <1>4, <1>5, <1>6, OneToOne DEF Count
<1>8. Cardinality(At(s, x) \cup B) = Cardinality(At(s, x)) + Cardinality(B) - Cardinality(At(s, x) \cap B)
  BY <1>6, <1>7, FS_Union
<1>9. Cardinality(At(s, x) \cap B) = 0
  BY <1>3, FS_EmptySet
<1> QED BY <1>2, <1>6, <1>7, <1>8, <1>9 DEF c, Count

(* A list that is put in another order has the same elements, as often. *)
LEMMA CountReordered ==
  ASSUME NEW s, IsList(s), NEW order \in [DOMAIN s -> DOMAIN s],
         \A i, j \in DOMAIN s : order[i] = order[j] => i = j,
         \A i \in DOMAIN s : \E k \in DOMAIN s : order[k] = i,
         NEW t, t = [k \in DOMAIN s |-> s[order[k]]], NEW x
  PROVE  Count(t, x) = Count(s, x)
<1>1. IsFiniteSet(DOMAIN s) /\ At(t, x) \in SUBSET (DOMAIN s)
  BY FiniteListDomain DEF At
<1>2. IsFiniteSet(At(t, x))
  BY <1>1, FS_Subset
<1> DEFINE f == [k \in At(t, x) |-> order[k]]
<1>3. f \in [At(t, x) -> At(s, x)]
  BY DEF At
<1>4. \A i, j \in At(t, x) : f[i] = f[j] => i = j
  BY DEF At
<1>5. \A i \in At(s, x) : \E k \in At(t, x) : f[k] = i
  BY DEF At
<1> HIDE DEF f
<1> QED BY <1>2, <1>3, <1>4, <1>5, OneToOne DEF Count

(* A sum of which one term at most is not 0. *)
LEMMA OneTerm ==
  ASSUME NEW n \in Nat, NEW k \in 1 .. n, NEW c \in Nat, NEW g, g[0] = 0,
         \A m \in 1 .. n : g[m] = g[m - 1] + (IF m = k THEN c ELSE 0)
  PROVE  g[n] = c
<1> DEFINE P == {m \in 0 .. n : g[m] = IF m < k THEN 0 ELSE c}
<1>1. 0 \in P
  OBVIOUS
<1>2. ASSUME NEW m \in 0 .. n, m + 1 \in 0 .. n, m \in P PROVE m + 1 \in P
  <2>1. m + 1 \in 1 .. n /\ (m + 1) - 1 = m
    BY <1>2
  <2>2. g[m + 1] = g[m] + (IF m + 1 = k THEN c ELSE 0)
    BY <2>1
  <2> QED BY <1>2, <2>1, <2>2
<1> HIDE DEF P
<1>3. 0 .. n \subseteq P
  BY <1>1, <1>2, HoldsUpTo
<1>4. n \in P
  BY <1>3
<1> QED BY <1>4 DEF P

LEMMA NoTerm ==
  ASSUME NEW n \in Nat, NEW g, g[0] = 0, \A m \in 1 .. n : g[m] = g[m - 1] + 0
  PROVE  g[n] = 0
<1> DEFINE P == {m \in 0 .. n : g[m] = 0}
<1>1. 0 \in P
  OBVIOUS
<1>2. ASSUME NEW m \in 0 .. n, m + 1 \in 0 .. n, m \in P PROVE m + 1 \in P
  <2>1. m + 1 \in 1 .. n /\ (m + 1) - 1 = m
    BY <1>2
  <2> QED BY <1>2, <2>1
<1> HIDE DEF P
<1>3. 0 .. n \subseteq P
  BY <1>1, <1>2, HoldsUpTo
<1>4. n \in P
  BY <1>3
<1> QED BY <1>4 DEF P

(* The values of a list, each counted, make up its length. *)
LEMMA CountsMakeUp ==
  ASSUME NEW keys, IsList(keys), NEW seen, IsList(seen),
         \A i, j \in DOMAIN seen : seen[i] = seen[j] => i = j,
         \A i \in DOMAIN keys : \E k \in DOMAIN seen : seen[k] = keys[i],
         NEW g, g[0] = 0, \A k \in 1 .. Len(seen) : g[k] = g[k - 1] + Count(keys, seen[k])
  PROVE  g[Len(seen)] = Len(keys)
<1> DEFINE n == Len(seen)
           below(m) == {i \in DOMAIN keys : \E k \in 1 .. m : seen[k] = keys[i]}
           P == {m \in 0 .. n : g[m] = Cardinality(below(m))}
<1>1. n \in Nat /\ DOMAIN seen = 1 .. n
  BY ListParts
<1>2. IsFiniteSet(DOMAIN keys) /\ Cardinality(DOMAIN keys) = Len(keys)
  BY FiniteListDomain
<1>3. \A m : IsFiniteSet(below(m)) /\ Cardinality(below(m)) \in Nat
  <2> SUFFICES ASSUME NEW m PROVE IsFiniteSet(below(m)) /\ Cardinality(below(m)) \in Nat
    OBVIOUS
  <2>1. below(m) \in SUBSET (DOMAIN keys)
    OBVIOUS
  <2> HIDE DEF below
  <2>2. IsFiniteSet(below(m))
    BY <1>2, <2>1, FS_Subset
  <2> QED BY <2>2, FS_CardinalityType
<1>4. 0 \in P
  <2>1. below(0) = {}
    OBVIOUS
  <2> HIDE DEF below
  <2>2. g[0] = Cardinality(below(0))
    BY <2>1, FS_EmptySet
  <2> QED BY <1>1, <2>2
<1>5. ASSUME NEW m \in 0 .. n, m + 1 \in 0 .. n, m \in P PROVE m + 1 \in P
  <2>1. m + 1 \in 1 .. n /\ (m + 1) - 1 = m
    BY <1>1, <1>5
  <2> DEFINE new == At(keys, seen[m + 1])
  <2>2. below(m + 1) = below(m) \cup new
    BY <1>1, <2>1 DEF At
  <2>3. below(m) \cap new = {}
    BY <1>1, <2>1 DEF At
  <2>4. IsFiniteSet(new) /\ Cardinality(new) = Count(keys, seen[m + 1]) /\ Count(keys, seen[m + 1]) \in Nat
    BY CountIsNumber DEF Count
  <2>5. g[m + 1] = g[m] + Count(keys, seen[m + 1]) /\ g[m] = Cardinality(below(m))
    BY <1>5, <2>1
  <2>6. Cardinality(below(m)) \in Nat /\ IsFiniteSet(below(m))
    BY <1>3
  <2> HIDE DEF below, new
  <2>7. Cardinality(below(m) \cup new) = Cardinality(below(m)) + Cardinality(new) - Cardinality(below(m) \cap new)
    BY <2>4, <2>6, FS_Union
  <2>8. Cardinality(below(m) \cap new) = 0
    BY <2>3, FS_EmptySet
  <2>9. g[m + 1] = Cardinality(below(m + 1))
    <3>1. Cardinality(below(m + 1)) = Cardinality(below(m)) + Cardinality(new) - 0
      BY ONLY <2>2, <2>7, <2>8
    <3>2. g[m + 1] = Cardinality(below(m)) + Cardinality(new)
      BY ONLY <2>4, <2>5
    <3> QED BY <2>4, <2>6, <3>1, <3>2
  <2> QED BY <1>5, <2>9
<1> HIDE DEF P
<1>6. 0 .. n \subseteq P
  BY <1>1, <1>4, <1>5, HoldsUpTo
<1>7. n \in P
  BY <1>1, <1>6
<1>8. below(n) = DOMAIN keys
  <2> SUFFICES ASSUME NEW i \in DOMAIN keys PROVE \E k \in 1 .. n : seen[k] = keys[i]
    OBVIOUS
  <2> QED BY <1>1
<1> QED BY <1>2, <1>7, <1>8 DEF P


(* As many values as places: none is at two places. *)
LEMMA DistinctIfAsMany ==
  ASSUME NEW s, IsList(s), Cardinality({s[i] : i \in DOMAIN s}) = Len(s)
  PROVE  \A i, j \in DOMAIN s : s[i] = s[j] => i = j
<1> DEFINE values == {s[i] : i \in DOMAIN s}
<1>1. IsFiniteSet(DOMAIN s) /\ Cardinality(DOMAIN s) = Len(s) /\ Len(s) \in Nat
  BY ListParts, FiniteListDomain
<1> SUFFICES ASSUME NEW i \in DOMAIN s, NEW j \in DOMAIN s, s[i] = s[j], i # j PROVE FALSE
  OBVIOUS
<1> DEFINE others == (DOMAIN s) \ {i}
           f == [k \in others |-> s[k]]
<1>2. IsFiniteSet(others) /\ Cardinality(others) = Len(s) - 1
  BY <1>1, FS_RemoveElement
<1>3. f \in [others -> values] /\ \A y \in values : \E k \in others : f[k] = y
  OBVIOUS
<1> HIDE DEF f, others, values
<1>4. f \in Surjection(others, values)
  BY <1>3 DEF Surjection
<1>5. Cardinality(values) <= Cardinality(others)
  BY <1>2, <1>4, FS_Surjection
<1> QED BY <1>1, <1>2, <1>5 DEF values

=============================================================================
