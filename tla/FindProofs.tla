---------------------------- MODULE FindProofs ----------------------------
(***************************************************************************)
(* find() and its cursors.                                                 *)
(*                                                                         *)
(* Whichever index a plan reads, the list of record ids it yields holds     *)
(* every document that matches, and each once unless a range is asked of    *)
(* arrays (PlanLists, WholeIndexLists); from there on a cursor only moves    *)
(* forward over slots and lists that never lose a place.  FindInv says so   *)
(* of every open cursor, next to what StoreInv says of the indexes, and of  *)
(* the flag that lets an index give a sort order.  Then find() is compared  *)
(* with a sorted scan: both return a cut of an answer, which is all that    *)
(* matches, each once and in order, and two answers sort alike at every     *)
(* place (AnswersAgree).                                                    *)
(*                                                                         *)
(* The hypotheses, PlainWorkload and RangesOverValues, are in MemoryStore.  *)
(***************************************************************************)
EXTENDS StoreProofs, ListProofs

-----------------------------------------------------------------------------
(* The keys of a document.                                                  *)

LEMMA FieldValues ==
  ASSUME NEW f, IsField(f)
  PROVE  /\ ComponentValues(f) # {} /\ ComponentValues(f) \subseteq Nat
         /\ IsFiniteSet(ComponentValues(f))
         /\ f.of \subseteq ComponentValues(f)
         /\ f.kind # "array" => \E v \in Nat : ComponentValues(f) = {v}
         /\ f.kind = "one" => \E v \in Nat : f.of = {v} /\ ComponentValues(f) = {v}
         /\ f.kind = "absent" => ComponentValues(f) = {Nullish}
BY FS_Singleton DEF IsField, ComponentValues, Nullish

(* The index paths are one or two, and paths that documents have. *)
LEMMA PathsOfIndex ==
  ASSUME PlainIndexes, NEW paths \in KeyPaths
  PROVE  /\ paths \in Seq(UsedPaths) /\ Len(paths) \in {1, 2}
         /\ DOMAIN paths = 1 .. Len(paths)
         /\ 1 \in DOMAIN paths /\ \A i \in DOMAIN paths : i \in {1, 2} /\ paths[i] \in UsedPaths
<1>1. paths \in Seq(UsedPaths) /\ Len(paths) <= 2 /\ paths # <<>>
  BY IndexAssumption DEF PlainIndexes
<1>2. Len(paths) \in Nat /\ DOMAIN paths = 1 .. Len(paths)
  BY <1>1
<1>3. Len(paths) # 0
  BY <1>1
<1>4. Len(paths) \in {1, 2}
  BY <1>1, <1>2, <1>3
<1>5. \A i \in DOMAIN paths : paths[i] \in UsedPaths
  BY <1>1
<1> QED BY <1>1, <1>2, <1>4, <1>5

(* A key takes one value of each path, in every way. *)
LEMMA KeysAre ==
  ASSUME PlainDocuments, PlainIndexes, NEW d \in Docs, NEW paths \in KeyPaths
  PROVE  \A k : k \in KeysOf(d, paths) <=>
                  /\ k = [i \in DOMAIN paths |-> k[i]]
                  /\ \A i \in DOMAIN paths : k[i] \in ComponentValues(d[paths[i]])
<1> DEFINE values == [i \in DOMAIN paths |-> ComponentValues(d[paths[i]])]
           arrays == {i \in DOMAIN paths : d[paths[i]].kind = "array"}
           all == UNION {values[i] : i \in DOMAIN paths}
<1>1. ~(Cardinality(arrays) > 1)
  <2>1. CASE arrays = {}
    BY <2>1, FS_EmptySet
  <2>2. CASE arrays # {}
    <3>1. PICK i \in arrays : TRUE
      BY <2>2
    <3>2. arrays = {i}
      BY <3>1 DEF PlainDocuments
    <3> HIDE DEF arrays
    <3>3. Cardinality(arrays) = 1
      BY <3>2, FS_Singleton
    <3> QED BY <3>3
  <2> QED BY <2>1, <2>2
<1>2. KeysOf(d, paths) = {k \in [DOMAIN paths -> all] : \A i \in DOMAIN paths : k[i] \in values[i]}
  <2> HIDE DEF arrays
  <2> QED BY <1>1 DEF KeysOf, arrays
<1> HIDE DEF arrays
<1> QED BY <1>2

(* There is at least one, and one only if no array is among the values. *)
LEMMA KeysExist ==
  ASSUME PlainDocuments, PlainIndexes, NEW d \in Docs, NEW paths \in KeyPaths
  PROVE  /\ KeysOf(d, paths) # {}
         /\ ~HasArray(d, paths) => \A k, l \in KeysOf(d, paths) : k = l
<1>1. \A i \in DOMAIN paths : IsField(d[paths[i]])
  BY PathsOfIndex DEF PlainDocuments
<1>2. \A i \in DOMAIN paths : ComponentValues(d[paths[i]]) # {}
  BY <1>1, FieldValues
<1> DEFINE k == [i \in DOMAIN paths |-> CHOOSE v \in ComponentValues(d[paths[i]]) : TRUE]
<1>3. k \in KeysOf(d, paths)
  <2>1. k = [i \in DOMAIN paths |-> k[i]]
    OBVIOUS
  <2>2. \A i \in DOMAIN paths : k[i] \in ComponentValues(d[paths[i]])
    BY <1>2
  <2> HIDE DEF k
  <2> QED BY <2>1, <2>2, KeysAre
<1>4. ASSUME ~HasArray(d, paths), NEW l \in KeysOf(d, paths), NEW m \in KeysOf(d, paths)
      PROVE  l = m
  <2>1. \A i \in DOMAIN paths : \E v \in Nat : ComponentValues(d[paths[i]]) = {v}
    BY <1>1, <1>4, FieldValues DEF HasArray
  <2>2. ASSUME NEW i \in DOMAIN paths PROVE l[i] = m[i]
    <3>1. l[i] \in ComponentValues(d[paths[i]]) /\ m[i] \in ComponentValues(d[paths[i]])
      BY <1>4, KeysAre
    <3> QED BY <2>1, <3>1
  <2>3. l = [i \in DOMAIN paths |-> l[i]] /\ m = [i \in DOMAIN paths |-> m[i]]
    BY KeysAre
  <2> QED BY <2>2, <2>3
<1> QED BY <1>3, <1>4

(* There are finitely many. *)
LEMMA KeysFinite ==
  ASSUME PlainDocuments, PlainIndexes, NEW d \in Docs, NEW paths \in KeyPaths
  PROVE  IsFiniteSet(KeysOf(d, paths))
<1> DEFINE V(i) == ComponentValues(d[paths[i]])
           K == KeysOf(d, paths)
<1>1. \A i \in DOMAIN paths : IsFiniteSet(V(i))
  BY PathsOfIndex, FieldValues DEF PlainDocuments
<1>2. \A k \in K : k = [i \in DOMAIN paths |-> k[i]] /\ \A i \in DOMAIN paths : k[i] \in V(i)
  BY KeysAre
<1>3. CASE Len(paths) = 1
  <2> DEFINE f == [k \in K |-> k[1]]
  <2>1. DOMAIN paths = {1}
    BY <1>3, PathsOfIndex
  <2>2. f \in Injection(K, V(1))
    BY <1>2, <2>1 DEF Injection, IsInjective
  <2>3. IsFiniteSet(V(1))
    BY <1>1, <2>1
  <2> HIDE DEF f, K, V
  <2> QED BY <2>2, <2>3, FS_Injection DEF K
<1>4. CASE Len(paths) = 2
  <2> DEFINE f == [k \in K |-> <<k[1], k[2]>>]
  <2>1. DOMAIN paths = {1, 2}
    BY <1>4, PathsOfIndex
  <2>2. f \in Injection(K, V(1) \X V(2))
    BY <1>2, <2>1 DEF Injection, IsInjective
  <2>3. IsFiniteSet(V(1)) /\ IsFiniteSet(V(2))
    BY <1>1, <2>1
  <2> HIDE DEF f, K, V
  <2>4. IsFiniteSet(V(1) \X V(2))
    BY <2>3, FS_Product
  <2> QED BY <2>2, <2>4, FS_Injection DEF K
<1> QED BY <1>3, <1>4, PathsOfIndex

-----------------------------------------------------------------------------
(* Lists of an index.                                                       *)

(* Pairs of a key and a record id that the order tells apart. *)
IsPairs(pairs) ==
  /\ IsFiniteSet(pairs)
  /\ \A x \in pairs : x[1][1] \in Int /\ x[2] \in Nat
  /\ \A x, y \in pairs : x[1][1] = y[1][1] /\ x[2] = y[2] => x = y

LEMMA KeyOrderIs ==
  ASSUME NEW pairs, NEW descending
  PROVE  \A x, y \in pairs :
           <<x, y>> \in KeyOrder(pairs, descending) <=>
             \/ IF descending THEN x[1][1] > y[1][1] ELSE x[1][1] < y[1][1]
             \/ x[1][1] = y[1][1] /\ x[2] < y[2]
BY DEF KeyOrder

LEMMA KeyOrderIsTotal ==
  ASSUME NEW pairs, IsPairs(pairs), NEW descending
  PROVE  IsTotalOrder(KeyOrder(pairs, descending), pairs)
<1>1. \A x \in pairs : x[1][1] \in Int /\ x[2] \in Nat
  BY DEF IsPairs
<1>2. \A x \in pairs : <<x, x>> \notin KeyOrder(pairs, descending)
  BY <1>1, KeyOrderIs
<1>3. ASSUME NEW x \in pairs, NEW y \in pairs, x # y
      PROVE  <<x, y>> \in KeyOrder(pairs, descending) \/ <<y, x>> \in KeyOrder(pairs, descending)
  <2>1. x[1][1] # y[1][1] \/ x[2] # y[2]
    BY <1>3 DEF IsPairs
  <2> QED BY <1>1, <2>1, KeyOrderIs
<1>4. ASSUME NEW x \in pairs, NEW y \in pairs, NEW z \in pairs,
             <<x, y>> \in KeyOrder(pairs, descending), <<y, z>> \in KeyOrder(pairs, descending)
      PROVE  <<x, z>> \in KeyOrder(pairs, descending)
  <2>1. /\ x[1][1] \in Int /\ y[1][1] \in Int /\ z[1][1] \in Int
        /\ x[2] \in Nat /\ y[2] \in Nat /\ z[2] \in Nat
    BY <1>1
  <2> QED BY <1>4, <2>1, KeyOrderIs
<1> QED BY <1>2, <1>3, <1>4 DEF IsTotalOrder

(* The list has the record id of each pair, in the order of the pairs. *)
LEMMA InKeyOrderLists ==
  ASSUME NEW pairs, IsPairs(pairs), NEW descending
  PROVE  LET list == InKeyOrder(pairs, descending)
             sorted == Arranged(pairs, KeyOrder(pairs, descending))
         IN  /\ list \in Seq(Nat) /\ Len(list) = Cardinality(pairs)
             /\ DOMAIN list = 1 .. Len(list) /\ DOMAIN sorted = DOMAIN list
             /\ \A i \in DOMAIN list : sorted[i] \in pairs /\ list[i] = sorted[i][2]
             /\ \A x \in pairs : \E i \in DOMAIN list : sorted[i] = x
             /\ \A i, j \in DOMAIN list :
                  i < j => <<sorted[i], sorted[j]>> \in KeyOrder(pairs, descending)
<1> DEFINE list == InKeyOrder(pairs, descending)
           sorted == Arranged(pairs, KeyOrder(pairs, descending))
           n == Cardinality(pairs)
<1>1. IsTotalOrder(KeyOrder(pairs, descending), pairs) /\ IsFiniteSet(pairs)
  BY KeyOrderIsTotal DEF IsPairs
<1>2. /\ n \in Nat /\ DOMAIN sorted = 1 .. n
      /\ \A i \in DOMAIN sorted : sorted[i] \in pairs
      /\ \A x \in pairs : \E i \in DOMAIN sorted : sorted[i] = x
      /\ \A i, j \in DOMAIN sorted :
           i < j => <<sorted[i], sorted[j]>> \in KeyOrder(pairs, descending)
  BY <1>1, ArrangedLists
<1>3. list = [i \in DOMAIN sorted |-> sorted[i][2]]
  BY DEF InKeyOrder
<1> HIDE DEF list, sorted, n
<1>4. \A i \in 1 .. n : sorted[i][2] \in Nat
  BY <1>2 DEF IsPairs
<1>5. list \in Seq(Nat) /\ Len(list) = n /\ DOMAIN list = 1 .. n
  BY <1>2, <1>3, <1>4
<1>6. \A i \in 1 .. n : list[i] = sorted[i][2]
  BY <1>2, <1>3
<1> QED BY <1>2, <1>5, <1>6 DEF list, sorted, n

(* What the proofs ask of documents and indexes. *)
PlainIndexing == QueryLayer /\ PlainDocuments /\ PlainIndexes

(* The collection between two calls. *)
Settled == StoreInv /\ call = NoCall

(* The pairs of an index are those of the live documents. *)
LEMMA PairsAre ==
  ASSUME PlainIndexing, Settled, NEW n \in Existing(indexes)
  PROVE  LET paths == indexes[n].paths
         IN  /\ paths \in KeyPaths
             /\ IsFiniteSet(indexes[n].keys)
             /\ \A x \in indexes[n].keys :
                  /\ x = <<x[1], x[2]>> /\ x[1][1] \in Nat /\ x[2] \in Nat
                  /\ x[1] = [i \in DOMAIN paths |-> x[1][i]]
                  /\ \E p \in Live : x[2] = slots[p].rid /\ x[1] \in KeysOf(slots[p].doc, paths)
             /\ \A p \in Live : \A k \in KeysOf(slots[p].doc, paths) :
                  <<k, slots[p].rid>> \in indexes[n].keys
<1> DEFINE paths == indexes[n].paths
           keys(p) == KeysIn(indexes[n], slots[p].rid, slots[p].doc)
<1>1. TypeOK /\ IndexHoldsLiveKeys /\ Covered(n) = Live
  BY CoveredIdle DEF Settled, StoreInv, Filling, Running, NoCall
<1>2. n \in IndexNames /\ indexes[n] # NoEntry /\ indexes \in Indexes
  BY <1>1 DEF TypeOK, Existing, Indexes
<1>3. paths \in KeyPaths
  BY <1>2, ExistingEntry
<1> HIDE DEF paths
<1>4. \A p \in Live : slots[p].doc \in Docs /\ slots[p].rid \in Nat /\ p \in 1 .. Len(slots)
  BY <1>1, LiveSlot DEF Live, Slots, TypeOK
<1>5. \A p \in Live : keys(p) = {<<k, slots[p].rid>> : k \in KeysOf(slots[p].doc, paths)}
  BY <1>3, <1>4 DEF KeysIn, paths, PlainIndexing, QueryLayer
<1>6. indexes[n].keys = UNION {keys(p) : p \in Live}
  BY <1>1 DEF IndexHoldsLiveKeys
<1>7. \A p \in Live : IsFiniteSet(keys(p))
  <2> SUFFICES ASSUME NEW p \in Live PROVE IsFiniteSet(keys(p))
    OBVIOUS
  <2> DEFINE K == KeysOf(slots[p].doc, paths)
             f == [k \in K |-> <<k, slots[p].rid>>]
  <2>1. IsFiniteSet(K)
    BY <1>3, <1>4, KeysFinite DEF PlainIndexing
  <2> HIDE DEF K
  <2>2. IsFiniteSet({f[k] : k \in K})
    BY <2>1, FiniteImage
  <2>3. {f[k] : k \in K} = {<<k, slots[p].rid>> : k \in K}
    OBVIOUS
  <2> QED BY <1>5, <2>2, <2>3 DEF K
<1>8. IsFiniteSet(indexes[n].keys)
  <2> DEFINE f == [p \in Live |-> keys(p)]
  <2>1. IsFiniteSet(Live)
    <3>1. Len(slots) \in Nat /\ Live \in SUBSET (1 .. Len(slots))
      BY <1>1, <1>4 DEF TypeOK
    <3>2. IsFiniteSet(1 .. Len(slots))
      BY <3>1, FS_Interval
    <3> QED BY <3>1, <3>2, FS_Subset
  <2>2. {f[p] : p \in Live} = {keys(p) : p \in Live}
    OBVIOUS
  <2> HIDE DEF f
  <2>3. IsFiniteSet({f[p] : p \in Live})
    BY <2>1, FiniteImage
  <2> HIDE DEF keys
  <2>4. IsFiniteSet({keys(p) : p \in Live}) /\ \A T \in {keys(p) : p \in Live} : IsFiniteSet(T)
    BY <1>7, <2>2, <2>3
  <2> QED BY <1>6, <2>4, FS_UNION
<1>9. ASSUME NEW x \in indexes[n].keys
      PROVE  /\ x = <<x[1], x[2]>> /\ x[1][1] \in Nat /\ x[2] \in Nat
             /\ x[1] = [i \in DOMAIN paths |-> x[1][i]]
             /\ \E p \in Live : x[2] = slots[p].rid /\ x[1] \in KeysOf(slots[p].doc, paths)
  <2>1. PICK p \in Live : x \in keys(p)
    BY <1>6
  <2>2. PICK k \in KeysOf(slots[p].doc, paths) : x = <<k, slots[p].rid>>
    BY <1>5, <2>1
  <2>3. /\ k = [i \in DOMAIN paths |-> k[i]]
        /\ \A i \in DOMAIN paths : k[i] \in ComponentValues(slots[p].doc[paths[i]])
    BY <1>3, <1>4, KeysAre DEF PlainIndexing
  <2>4. 1 \in DOMAIN paths /\ paths[1] \in UsedPaths
    BY <1>3, PathsOfIndex DEF PlainIndexing
  <2>5. IsField(slots[p].doc[paths[1]])
    BY <1>4, <2>4 DEF PlainIndexing, PlainDocuments
  <2>6. k[1] \in Nat
    BY <2>3, <2>4, <2>5, FieldValues
  <2> QED BY <1>4, <2>2, <2>3, <2>6
<1>10. ASSUME NEW p \in Live, NEW k \in KeysOf(slots[p].doc, paths)
       PROVE  <<k, slots[p].rid>> \in indexes[n].keys
  BY <1>5, <1>6
<1> QED BY <1>3, <1>8, <1>9, <1>10 DEF paths

LEMMA SomePairs ==
  ASSUME PlainIndexing, Settled, NEW n \in Existing(indexes),
         NEW pairs, pairs \subseteq indexes[n].keys,
         Len(indexes[n].paths) = 1 \/ \A x, y \in pairs : x[1] = y[1]
  PROVE  IsPairs(pairs)
<1> DEFINE paths == indexes[n].paths
<1>1. /\ paths \in KeyPaths /\ IsFiniteSet(indexes[n].keys)
      /\ \A x \in indexes[n].keys :
           /\ x = <<x[1], x[2]>> /\ x[1][1] \in Nat /\ x[2] \in Nat
           /\ x[1] = [i \in DOMAIN paths |-> x[1][i]]
  BY PairsAre
<1>2. IsFiniteSet(pairs)
  BY <1>1, FS_Subset
<1>3. ASSUME NEW x \in pairs, NEW y \in pairs, x[1][1] = y[1][1], x[2] = y[2]
      PROVE  x = y
  <2>1. CASE x[1] = y[1]
    BY <1>1, <1>3, <2>1
  <2>2. CASE Len(paths) = 1
    <3>1. DOMAIN paths = {1}
      BY <1>1, <2>2, PathsOfIndex DEF PlainIndexing
    <3>2. /\ x[1] = [i \in DOMAIN paths |-> x[1][i]] /\ y[1] = [i \in DOMAIN paths |-> y[1][i]]
          /\ \A i \in DOMAIN paths : x[1][i] = y[1][i]
      BY <1>1, <1>3, <3>1
    <3>3. x[1] = y[1]
      BY <3>2
    <3> QED BY <2>1, <3>3
  <2> QED BY <2>1, <2>2
<1>4. ASSUME NEW x \in pairs PROVE x[1][1] \in Int /\ x[2] \in Nat
  <2>1. x[1][1] \in Nat /\ x[2] \in Nat
    BY <1>1
  <2> QED BY <2>1
<1> QED BY <1>2, <1>3, <1>4 DEF IsPairs

-----------------------------------------------------------------------------
(* Plans.                                                                   *)

(* A plan reads an index that exists, at the key its equalities give or in  *)
(* the range of a clause.                                                   *)
ReadsClauses(plan, f) ==
  /\ ByPaths(indexes, plan.paths) # {}
  /\ \/ /\ plan.exact # NoKey
        /\ \A i \in DOMAIN plan.paths : plan.paths[i] \in DOMAIN f /\ f[plan.paths[i]].op = "eq"
        /\ plan.exact = [i \in DOMAIN plan.paths |-> f[plan.paths[i]].key]
     \/ /\ plan.exact = NoKey
        /\ \E p \in DOMAIN f :
             /\ plan.paths = <<p>> /\ f[p].op = "range"
             /\ plan.low = f[p].low /\ plan.high = f[p].high

LEMMA ExistingIs ==
  ASSUME Settled, NEW n \in Existing(indexes)
  PROVE  n \in IndexNames /\ indexes[n] # NoEntry /\ indexes[n].paths \in KeyPaths
<1>1. indexes \in Indexes /\ n \in IndexNames /\ indexes[n] # NoEntry
  BY DEF Settled, StoreInv, TypeOK, Indexes, Existing
<1> QED BY <1>1, ExistingEntry

(* A prefix of two paths is the whole index. *)
LEMMA PrefixIsWhole ==
  ASSUME PlainIndexes, NEW entry, entry.paths \in KeyPaths, NEW fixed,
         PrefixLength(entry, fixed) >= 2
  PROVE  /\ PrefixLength(entry, fixed) = Len(entry.paths)
         /\ SubSeq(entry.paths, 1, PrefixLength(entry, fixed)) = entry.paths
         /\ \A i \in DOMAIN entry.paths : entry.paths[i] \in fixed
<1> DEFINE paths == entry.paths
           T == {k \in DOMAIN paths : \A i \in 1 .. k : paths[i] \in fixed}
           n == Len(paths)
<1>1. paths \in Seq(UsedPaths) /\ n \in {1, 2} /\ DOMAIN paths = 1 .. n
  BY PathsOfIndex
<1>2. PrefixLength(entry, fixed) = Cardinality(T)
  BY DEF PrefixLength
<1>3. T \in SUBSET (1 .. n)
  BY <1>1
<1> HIDE DEF T, n
<1>4. IsFiniteSet(1 .. n) /\ Cardinality(1 .. n) = n
  <2>1. IsFiniteSet(1 .. n) /\ Cardinality(1 .. n) = IF 1 > n THEN 0 ELSE n - 1 + 1
    BY <1>1, FS_Interval
  <2> QED BY <1>1, <2>1
<1>5. Cardinality(T) <= n /\ (Cardinality(1 .. n) = Cardinality(T) => 1 .. n = T) /\ IsFiniteSet(T)
  BY <1>3, <1>4, FS_Subset
<1>6. Cardinality(T) \in Nat
  BY <1>5, FS_CardinalityType
<1>7. n = 2 /\ Cardinality(T) = 2 /\ T = 1 .. 2
  BY <1>1, <1>2, <1>4, <1>5, <1>6
<1>8. \A i \in 1 .. 2 : paths[i] \in fixed
  BY <1>7 DEF T
<1>9. SubSeq(paths, 1, 2) = paths
  BY <1>1, <1>7 DEF n
<1> QED BY <1>1, <1>2, <1>7, <1>8, <1>9 DEF n

LEMMA PlanReadsClauses ==
  ASSUME PlainIndexing, PlainQueries, Settled, NEW q \in Queries,
         NEW plan \in LookupPlans(indexes, q.filter)
  PROVE  plan = NoPlan \/ ReadsClauses(plan, q.filter)
<1> DEFINE f == q.filter
<1>1. \A p \in DOMAIN f : f[p].op \in {"eq", "ne", "range"}
  BY DEF PlainQueries
<1>2. CASE plan \in CompoundPlans(indexes, f)
  <2> DEFINE prefix(n) == SubSeq(indexes[n].paths, 1, PrefixLength(indexes[n], DOMAIN f))
             key(n) == [i \in DOMAIN prefix(n) |-> f[prefix(n)[i]].key]
  <2>1. PICK n \in BestCompound(indexes, DOMAIN f) :
          /\ plan = [NoPlan EXCEPT !.paths = prefix(n), !.exact = key(n)]
          /\ \A p \in DOMAIN f : IsEquality(f[p])
          /\ PrefixLength(indexes[n], DOMAIN f) >= 2
    BY <1>2 DEF CompoundPlans
  <2>2. n \in Existing(indexes)
    BY DEF BestCompound
  <2> DEFINE paths == indexes[n].paths
  <2>3. paths \in KeyPaths
    BY <2>2, ExistingIs
  <2>4. prefix(n) = paths /\ \A i \in DOMAIN paths : paths[i] \in DOMAIN f
    BY <2>1, <2>3, PrefixIsWhole DEF PlainIndexing
  <2> HIDE DEF prefix
  <2>5. key(n) = [i \in DOMAIN paths |-> f[paths[i]].key]
    BY <2>4
  <2> HIDE DEF key
  <2>6. plan.paths = paths /\ plan.exact = key(n)
    BY <2>1, <2>4 DEF NoPlan
  <2>7. 1 \in DOMAIN paths
    BY <2>3, PathsOfIndex DEF PlainIndexing
  <2>8. plan.exact # NoKey
    BY <2>5, <2>6, <2>7 DEF NoKey
  <2>9. \A i \in DOMAIN paths : f[paths[i]].op = "eq"
    BY <1>1, <2>1, <2>4 DEF IsEquality
  <2>10. ByPaths(indexes, plan.paths) # {}
    BY <2>2, <2>6 DEF ByPaths
  <2> QED BY <2>4, <2>5, <2>6, <2>8, <2>9, <2>10 DEF ReadsClauses
<1>3. CASE plan = SinglePlan(indexes, f) /\ plan # NoPlan
  <2> DEFINE indexable == {p \in DOMAIN f : /\ ByPaths(indexes, <<p>>) # {}
                                            /\ IsEquality(f[p]) \/ IsRangePlan(f[p])}
             p == CHOOSE p \in indexable : TRUE
  <2>1. Cardinality(indexable) = 1 /\ plan = SingleClause(p, f[p])
    BY <1>3 DEF SinglePlan
  <2>2. p \in indexable
    <3>1. indexable # {}
      <4> HIDE DEF indexable
      <4> QED BY <2>1, FS_EmptySet
    <3> QED BY <3>1
  <2>3. p \in DOMAIN f /\ ByPaths(indexes, <<p>>) # {} /\ (IsEquality(f[p]) \/ IsRangePlan(f[p]))
    BY <2>2
  <2> HIDE DEF p, indexable
  <2>4. CASE IsEquality(f[p])
    <3>1. f[p].op = "eq"
      BY <1>1, <2>3, <2>4 DEF IsEquality
    <3>2. plan.paths = <<p>> /\ plan.exact = <<f[p].key>>
      BY <2>1, <2>4 DEF SingleClause, NoPlan
    <3>3. plan.exact # NoKey /\ plan.exact = [i \in DOMAIN plan.paths |-> f[plan.paths[i]].key]
      BY <3>2 DEF NoKey
    <3>4. \A i \in DOMAIN plan.paths : plan.paths[i] = p
      BY <3>2
    <3> QED BY <2>3, <3>1, <3>2, <3>3, <3>4 DEF ReadsClauses
  <2>5. CASE ~IsEquality(f[p])
    <3>1. f[p].op = "range"
      BY <2>3, <2>5 DEF IsRangePlan
    <3>2. plan.paths = <<p>> /\ plan.exact = NoKey /\ plan.low = f[p].low /\ plan.high = f[p].high
      BY <2>1, <2>5 DEF SingleClause, NoPlan
    <3> QED BY <2>3, <3>1, <3>2 DEF ReadsClauses
  <2> QED BY <2>4, <2>5
<1> QED BY <1>2, <1>3 DEF LookupPlans

-----------------------------------------------------------------------------
(* What a lookup returns.                                                   *)

Distinct(list) == \A i, j \in DOMAIN list : list[i] = list[j] => i = j

(* Every document that matches is in the list. *)
HoldsMatches(list, f) ==
  \A p \in Live : Matches(slots[p].doc, f) => \E i \in DOMAIN list : list[i] = slots[p].rid

(* No document of the index has an array under its paths. *)
OneKeyEach(n) == \A p \in Live : ~HasArray(slots[p].doc, indexes[n].paths)

LEMMA ListOfPairs ==
  ASSUME NEW pairs, IsPairs(pairs), NEW descending
  PROVE  LET list == InKeyOrder(pairs, descending)
         IN  /\ list \in Seq(Nat)
             /\ \A x \in pairs : \E i \in DOMAIN list : list[i] = x[2]
             /\ \A i \in DOMAIN list : \E x \in pairs : list[i] = x[2]
             /\ (\A x, y \in pairs : x[2] = y[2] => x = y) => Distinct(list)
<1> DEFINE list == InKeyOrder(pairs, descending)
           sorted == Arranged(pairs, KeyOrder(pairs, descending))
<1>1. /\ list \in Seq(Nat) /\ Len(list) \in Nat /\ DOMAIN list = 1 .. Len(list)
      /\ \A i \in DOMAIN list : sorted[i] \in pairs /\ list[i] = sorted[i][2]
      /\ \A x \in pairs : \E i \in DOMAIN list : sorted[i] = x
      /\ \A i, j \in DOMAIN list :
           i < j => <<sorted[i], sorted[j]>> \in KeyOrder(pairs, descending)
  BY InKeyOrderLists
<1>2. \A x \in pairs : <<x, x>> \notin KeyOrder(pairs, descending)
  BY KeyOrderIsTotal DEF IsTotalOrder
<1> HIDE DEF list, sorted
<1>3. ASSUME \A x, y \in pairs : x[2] = y[2] => x = y
      PROVE  Distinct(list)
  <2> SUFFICES ASSUME NEW i \in DOMAIN list, NEW j \in DOMAIN list, list[i] = list[j], i # j
               PROVE  FALSE
    BY DEF Distinct
  <2>1. sorted[i] = sorted[j] /\ sorted[i] \in pairs
    BY <1>1, <1>3
  <2>2. i < j \/ j < i
    BY <1>1
  <2> QED BY <1>1, <1>2, <2>1, <2>2
<1> QED BY <1>1, <1>3 DEF list

(* A record id belongs to one document. *)
LEMMA RidIsOwn ==
  ASSUME Settled, NEW p \in Live, NEW q \in Live, slots[p].rid = slots[q].rid
  PROVE  p = q
<1>1. p \in DOMAIN slots /\ q \in DOMAIN slots
  BY DEF Live
<1> QED BY <1>1, RidsDiffer DEF Settled, StoreInv

LEMMA ExactLists ==
  ASSUME PlainIndexing, Settled, NEW n \in Existing(indexes), NEW key
  PROVE  LET list == LookupExact(indexes[n], key)
         IN  /\ list \in Seq(Nat) /\ Distinct(list)
             /\ \A p \in Live : key \in KeysOf(slots[p].doc, indexes[n].paths) =>
                  \E i \in DOMAIN list : list[i] = slots[p].rid
<1> DEFINE pairs == {x \in indexes[n].keys : x[1] = key}
           descending == FALSE
           list == LookupExact(indexes[n], key)
<1>1. list = InKeyOrder(pairs, descending)
  BY DEF LookupExact
<1>2. IsPairs(pairs)
  BY SomePairs
<1>3. ASSUME NEW x \in pairs, NEW y \in pairs, x[2] = y[2] PROVE x = y
  <2>1. x = <<x[1], x[2]>> /\ y = <<y[1], y[2]>>
    BY PairsAre
  <2> QED BY <1>3, <2>1
<1>4. ASSUME NEW p \in Live, key \in KeysOf(slots[p].doc, indexes[n].paths)
      PROVE  <<key, slots[p].rid>> \in pairs
  BY <1>4, PairsAre
<1> HIDE DEF pairs, list, descending
<1>5. /\ list \in Seq(Nat) /\ Distinct(list)
      /\ \A x \in pairs : \E i \in DOMAIN list : list[i] = x[2]
  <2>1. /\ InKeyOrder(pairs, descending) \in Seq(Nat)
        /\ \A x \in pairs : \E i \in DOMAIN InKeyOrder(pairs, descending) : InKeyOrder(pairs, descending)[i] = x[2]
        /\ (\A x, y \in pairs : x[2] = y[2] => x = y) => Distinct(InKeyOrder(pairs, descending))
    BY <1>2, ListOfPairs
  <2>2. \A x, y \in pairs : x[2] = y[2] => x = y
    BY <1>3
  <2> QED BY <1>1, <2>1, <2>2
<1>6. \A p \in Live : key \in KeysOf(slots[p].doc, indexes[n].paths) =>
        \E i \in DOMAIN list : list[i] = slots[p].rid
  BY <1>4, <1>5
<1> QED BY <1>5, <1>6 DEF list

(* What a list of the record ids between two bounds of an index is to hold. *)
HasRange(list, n, low, high) ==
  \A p \in Live : \A k \in KeysOf(slots[p].doc, indexes[n].paths) :
    /\ low # NoBound => AboveLow(k[1], low)
    /\ high # NoBound => BelowHigh(k[1], high)
    => \E i \in DOMAIN list : list[i] = slots[p].rid

LEMMA RangeLists ==
  ASSUME PlainIndexing, Settled, NEW n \in Existing(indexes), Len(indexes[n].paths) = 1,
         NEW low, NEW high, NEW descending
  PROVE  LET list == LookupRange(indexes[n], low, high, descending)
         IN  /\ list \in Seq(Nat)
             /\ OneKeyEach(n) => Distinct(list)
             /\ HasRange(list, n, low, high)
<1> DEFINE paths == indexes[n].paths
           pairs == {x \in indexes[n].keys : /\ low # NoBound => AboveLow(x[1][1], low)
                                             /\ high # NoBound => BelowHigh(x[1][1], high)}
           list == LookupRange(indexes[n], low, high, descending)
<1>1. list = InKeyOrder(pairs, descending)
  BY DEF LookupRange
<1>2. IsPairs(pairs)
  BY SomePairs
<1>3. ASSUME OneKeyEach(n), NEW x \in pairs, NEW y \in pairs, x[2] = y[2] PROVE x = y
  <2>1. paths \in KeyPaths /\ x = <<x[1], x[2]>> /\ y = <<y[1], y[2]>>
    BY PairsAre
  <2>2. PICK p \in Live : x[2] = slots[p].rid /\ x[1] \in KeysOf(slots[p].doc, paths)
    BY PairsAre
  <2>3. PICK q \in Live : y[2] = slots[q].rid /\ y[1] \in KeysOf(slots[q].doc, paths)
    BY PairsAre
  <2>4. p = q
    BY <1>3, <2>2, <2>3, RidIsOwn
  <2>5. slots[p].doc \in Docs
    BY LiveSlot DEF Live, Slots, Settled, StoreInv
  <2>6. x[1] = y[1]
    BY <1>3, <2>1, <2>2, <2>3, <2>4, <2>5, KeysExist DEF OneKeyEach, PlainIndexing
  <2> QED BY <1>3, <2>1, <2>6
<1>4. ASSUME NEW p \in Live, NEW k \in KeysOf(slots[p].doc, paths),
             low # NoBound => AboveLow(k[1], low), high # NoBound => BelowHigh(k[1], high)
      PROVE  <<k, slots[p].rid>> \in pairs
  BY <1>4, PairsAre
<1> HIDE DEF pairs, list
<1>5. /\ list \in Seq(Nat) /\ (OneKeyEach(n) => Distinct(list))
      /\ \A x \in pairs : \E i \in DOMAIN list : list[i] = x[2]
  <2>1. /\ list \in Seq(Nat)
        /\ \A x \in pairs : \E i \in DOMAIN list : list[i] = x[2]
        /\ (\A x, y \in pairs : x[2] = y[2] => x = y) => Distinct(list)
    <3>1. /\ InKeyOrder(pairs, descending) \in Seq(Nat)
          /\ \A x \in pairs : \E i \in DOMAIN InKeyOrder(pairs, descending) : InKeyOrder(pairs, descending)[i] = x[2]
          /\ (\A x, y \in pairs : x[2] = y[2] => x = y) => Distinct(InKeyOrder(pairs, descending))
      BY <1>2, ListOfPairs
    <3> QED BY <1>1, <3>1
  <2>2. OneKeyEach(n) => \A x, y \in pairs : x[2] = y[2] => x = y
    BY <1>3
  <2> QED BY <2>1, <2>2
<1>6. ASSUME NEW p \in Live, NEW k \in KeysOf(slots[p].doc, paths),
             low # NoBound => AboveLow(k[1], low), high # NoBound => BelowHigh(k[1], high)
      PROVE  \E i \in DOMAIN list : list[i] = slots[p].rid
  <2>1. PICK i \in DOMAIN list : list[i] = <<k, slots[p].rid>>[2]
    BY <1>4, <1>5, <1>6
  <2> QED BY <2>1
<1> QED BY <1>5, <1>6 DEF list, HasRange

(* A document of the collection. *)
LEMMA LiveDoc ==
  ASSUME Settled, NEW p \in Live
  PROVE  slots[p].doc \in Docs /\ slots[p].rid \in Nat /\ p \in DOMAIN slots /\ p \in 1 .. Len(slots)
BY LiveSlot DEF Live, Slots, Settled, StoreInv

(* A document that matches equalities on the paths of an index has their    *)
(* key in it.                                                               *)
LEMMA MatchHasKey ==
  ASSUME PlainIndexing, NEW d \in Docs, NEW q \in Queries, Matches(d, q.filter),
         NEW paths \in KeyPaths,
         \A i \in DOMAIN paths : paths[i] \in DOMAIN q.filter /\ q.filter[paths[i]].op = "eq"
  PROVE  [i \in DOMAIN paths |-> q.filter[paths[i]].key] \in KeysOf(d, paths)
<1> DEFINE key == [i \in DOMAIN paths |-> q.filter[paths[i]].key]
<1>1. ASSUME NEW i \in DOMAIN paths PROVE key[i] \in ComponentValues(d[paths[i]])
  <2>1. EvalField(q.filter[paths[i]], d[paths[i]])
    BY DEF PlainIndexing, QueryLayer, MatchesFilter
  <2>2. key[i] \in d[paths[i]].of
    BY <2>1 DEF EvalField
  <2>3. IsField(d[paths[i]])
    BY PathsOfIndex DEF PlainIndexing, PlainDocuments
  <2> QED BY <2>2, <2>3, FieldValues
<1>2. key = [i \in DOMAIN paths |-> key[i]]
  OBVIOUS
<1> HIDE DEF key
<1>3. key \in KeysOf(d, paths)
  BY <1>1, <1>2, KeysAre DEF PlainIndexing
<1> QED BY <1>3 DEF key

(* A document that matches a range on the path of an index has a key in it. *)
LEMMA MatchInRange ==
  ASSUME PlainIndexing, NEW d \in Docs, NEW q \in Queries, Matches(d, q.filter),
         NEW paths \in KeyPaths, NEW p \in DOMAIN q.filter, paths = <<p>>,
         q.filter[p].op = "range"
  PROVE  \E k \in KeysOf(d, paths) :
           /\ q.filter[p].low # NoBound => AboveLow(k[1], q.filter[p].low)
           /\ q.filter[p].high # NoBound => BelowHigh(k[1], q.filter[p].high)
<1>1. EvalField(q.filter[p], d[p])
  BY DEF PlainIndexing, QueryLayer, MatchesFilter
<1>2. /\ d[p].kind = "one"
      /\ \A v \in d[p].of :
           /\ q.filter[p].low # NoBound => AboveLow(v, q.filter[p].low)
           /\ q.filter[p].high # NoBound => BelowHigh(v, q.filter[p].high)
  BY <1>1 DEF EvalField
<1>3. 1 \in DOMAIN paths /\ paths[1] = p /\ IsField(d[p])
  BY PathsOfIndex DEF PlainIndexing, PlainDocuments
<1>4. PICK v \in Nat : d[p].of = {v} /\ ComponentValues(d[p]) = {v}
  BY <1>2, <1>3, FieldValues
<1>5. PICK k \in KeysOf(d, paths) : TRUE
  BY KeysExist DEF PlainIndexing
<1>6. k[1] \in ComponentValues(d[p])
  BY <1>3, KeysAre DEF PlainIndexing
<1>7. k[1] \in d[p].of
  BY <1>4, <1>6
<1> QED BY <1>2, <1>7

LEMMA PlanLists ==
  ASSUME PlainIndexing, Settled, NEW q \in Queries, NEW plan, ReadsClauses(plan, q.filter),
         NEW n \in ByPaths(indexes, plan.paths), NEW descending
  PROVE  LET list == ReadPlan(indexes[n], plan, descending)
         IN  /\ list \in Seq(Nat) /\ HoldsMatches(list, q.filter)
             /\ RangesOverValues \/ OneKeyEach(n) => Distinct(list)
<1> DEFINE paths == indexes[n].paths
           list == ReadPlan(indexes[n], plan, descending)
           f == q.filter
<1>1. n \in Existing(indexes) /\ paths = plan.paths /\ paths \in KeyPaths
  BY ExistingIs DEF ByPaths
<1>2. CASE plan.exact # NoKey
  <2>1. /\ \A i \in DOMAIN paths : paths[i] \in DOMAIN f /\ f[paths[i]].op = "eq"
        /\ plan.exact = [i \in DOMAIN paths |-> f[paths[i]].key]
    BY <1>1, <1>2 DEF ReadsClauses
  <2>2. list = LookupExact(indexes[n], plan.exact)
    BY <1>2 DEF ReadPlan
  <2> HIDE DEF list
  <2>3. /\ list \in Seq(Nat) /\ Distinct(list)
        /\ \A p \in Live : plan.exact \in KeysOf(slots[p].doc, paths) =>
             \E i \in DOMAIN list : list[i] = slots[p].rid
    BY <1>1, <2>2, ExactLists
  <2>4. ASSUME NEW p \in Live, Matches(slots[p].doc, f)
        PROVE  plan.exact \in KeysOf(slots[p].doc, paths)
    BY <1>1, <2>1, <2>4, LiveDoc, MatchHasKey
  <2> QED BY <2>3, <2>4 DEF HoldsMatches, list
<1>3. CASE plan.exact = NoKey
  <2>1. PICK c \in DOMAIN f : /\ paths = <<c>> /\ f[c].op = "range"
                              /\ plan.low = f[c].low /\ plan.high = f[c].high
    BY <1>1, <1>3 DEF ReadsClauses
  <2>2. list = LookupRange(indexes[n], plan.low, plan.high, descending)
    BY <1>3 DEF ReadPlan
  <2>3. Len(paths) = 1
    BY <2>1
  <2> HIDE DEF list
  <2>4. /\ list \in Seq(Nat)
        /\ OneKeyEach(n) => Distinct(list)
        /\ \A p \in Live : \A k \in KeysOf(slots[p].doc, paths) :
             /\ plan.low # NoBound => AboveLow(k[1], plan.low)
             /\ plan.high # NoBound => BelowHigh(k[1], plan.high)
             => \E i \in DOMAIN list : list[i] = slots[p].rid
    <3> DEFINE read == LookupRange(indexes[n], plan.low, plan.high, descending)
    <3>1. /\ read \in Seq(Nat)
          /\ OneKeyEach(n) => Distinct(read)
          /\ HasRange(read, n, plan.low, plan.high)
      BY <1>1, <2>3, RangeLists
    <3>2. list = read
      BY <2>2
    <3> HIDE DEF read
    <3> QED BY <3>1, <3>2 DEF HasRange
  <2>5. ASSUME NEW p \in Live, Matches(slots[p].doc, f)
        PROVE  \E i \in DOMAIN list : list[i] = slots[p].rid
    <3>1. slots[p].doc \in Docs
      BY LiveDoc
    <3>2. PICK k \in KeysOf(slots[p].doc, paths) :
            /\ f[c].low # NoBound => AboveLow(k[1], f[c].low)
            /\ f[c].high # NoBound => BelowHigh(k[1], f[c].high)
      BY <1>1, <2>1, <2>5, <3>1, MatchInRange
    <3> QED BY <2>1, <2>4, <3>2
  <2>6. RangesOverValues => OneKeyEach(n)
    <3> SUFFICES ASSUME RangesOverValues, NEW p \in Live, HasArray(slots[p].doc, paths) PROVE FALSE
      BY DEF OneKeyEach
    <3>1. slots[p].doc \in Docs /\ slots[p].doc[c].kind # "array"
      BY <2>1, LiveDoc DEF RangesOverValues
    <3>2. \A i \in DOMAIN paths : paths[i] = c
      BY <2>1
    <3> QED BY <3>1, <3>2 DEF HasArray
  <2> QED BY <2>4, <2>5, <2>6 DEF HoldsMatches, list
<1> QED BY <1>2, <1>3

(* An index read from end to end has every document. *)
LEMMA WholeIndexLists ==
  ASSUME PlainIndexing, Settled, NEW n \in Existing(indexes), Len(indexes[n].paths) = 1,
         NEW descending
  PROVE  LET list == ReadPlan(indexes[n], NoPlan, descending)
         IN  /\ list \in Seq(Nat)
             /\ \A p \in Live : \E i \in DOMAIN list : list[i] = slots[p].rid
             /\ OneKeyEach(n) => Distinct(list)
<1> DEFINE paths == indexes[n].paths
           list == ReadPlan(indexes[n], NoPlan, descending)
<1>1. list = LookupRange(indexes[n], NoBound, NoBound, descending)
  BY DEF ReadPlan, NoPlan, NoKey
<1> HIDE DEF list
<1>2. /\ list \in Seq(Nat)
      /\ OneKeyEach(n) => Distinct(list)
      /\ \A p \in Live : \A k \in KeysOf(slots[p].doc, paths) :
           \E i \in DOMAIN list : list[i] = slots[p].rid
  <2> DEFINE read == LookupRange(indexes[n], NoBound, NoBound, descending)
  <2>1. /\ read \in Seq(Nat)
        /\ OneKeyEach(n) => Distinct(read)
        /\ HasRange(read, n, NoBound, NoBound)
    BY RangeLists
  <2>2. list = read
    BY <1>1
  <2> HIDE DEF read
  <2> QED BY <2>1, <2>2 DEF HasRange
<1>3. ASSUME NEW p \in Live PROVE \E i \in DOMAIN list : list[i] = slots[p].rid
  <2>1. PICK k \in KeysOf(slots[p].doc, paths) : TRUE
    BY LiveDoc, ExistingIs, KeysExist DEF PlainIndexing
  <2> QED BY <1>2, <2>1
<1> QED BY <1>2, <1>3 DEF list

(* The documents of a list follow each other by their keys in the index n.  *)
ByKey(list, n, descending) ==
  \A i, j \in DOMAIN list, p, q \in Live :
    i < j /\ list[i] = slots[p].rid /\ list[j] = slots[q].rid =>
      \A k \in KeysOf(slots[p].doc, indexes[n].paths), l \in KeysOf(slots[q].doc, indexes[n].paths) :
        IF descending THEN k[1] >= l[1] ELSE k[1] <= l[1]

LEMMA PairsByKey ==
  ASSUME PlainIndexing, Settled, NEW n \in Existing(indexes), OneKeyEach(n),
         NEW pairs, pairs \subseteq indexes[n].keys, IsPairs(pairs),
         NEW descending, NEW wanted, descending = wanted \/ \A x, y \in pairs : x[1] = y[1]
  PROVE  ByKey(InKeyOrder(pairs, descending), n, wanted)
<1> DEFINE paths == indexes[n].paths
           list == InKeyOrder(pairs, descending)
           sorted == Arranged(pairs, KeyOrder(pairs, descending))
<1>1. /\ \A i \in DOMAIN list : sorted[i] \in pairs /\ list[i] = sorted[i][2]
      /\ \A i, j \in DOMAIN list :
           i < j => <<sorted[i], sorted[j]>> \in KeyOrder(pairs, descending)
  BY InKeyOrderLists
<1>2. ASSUME NEW x \in pairs, NEW p \in Live, x[2] = slots[p].rid,
             NEW k \in KeysOf(slots[p].doc, paths)
      PROVE  k = x[1] /\ x[1][1] \in Int /\ x[2] \in Int
  <2>1. paths \in KeyPaths /\ x[1][1] \in Nat /\ x[2] \in Nat
    BY PairsAre
  <2>2. PICK q \in Live : x[2] = slots[q].rid /\ x[1] \in KeysOf(slots[q].doc, paths)
    BY PairsAre
  <2>3. q = p
    BY <1>2, <2>2, RidIsOwn
  <2> QED BY <1>2, <2>1, <2>2, <2>3, LiveDoc, KeysExist DEF OneKeyEach, PlainIndexing
<1> HIDE DEF list, sorted
<1> SUFFICES ASSUME NEW i \in DOMAIN list, NEW j \in DOMAIN list, NEW p \in Live, NEW q \in Live,
                    i < j, list[i] = slots[p].rid, list[j] = slots[q].rid,
                    NEW k \in KeysOf(slots[p].doc, paths), NEW l \in KeysOf(slots[q].doc, paths)
             PROVE  IF wanted THEN k[1] >= l[1] ELSE k[1] <= l[1]
  BY DEF ByKey, list
<1>3. sorted[i] \in pairs /\ sorted[j] \in pairs /\ sorted[i][2] = slots[p].rid /\ sorted[j][2] = slots[q].rid
  BY <1>1
<1>4. k = sorted[i][1] /\ l = sorted[j][1] /\ k[1] \in Int /\ l[1] \in Int
  BY <1>2, <1>3
<1>5. \/ IF descending THEN k[1] > l[1] ELSE k[1] < l[1]
      \/ k[1] = l[1]
  <2>1. PICK x \in pairs, y \in pairs : x = sorted[i] /\ y = sorted[j]
    BY <1>3
  <2>2. <<x, y>> \in KeyOrder(pairs, descending)
    BY <1>1, <2>1
  <2>3. \/ IF descending THEN x[1][1] > y[1][1] ELSE x[1][1] < y[1][1]
        \/ x[1][1] = y[1][1] /\ x[2] < y[2]
    BY <2>2, KeyOrderIs
  <2> QED BY <1>4, <2>1, <2>3
<1>6. CASE descending = wanted
  BY <1>4, <1>5, <1>6
<1>7. CASE \A x, y \in pairs : x[1] = y[1]
  <2>1. k[1] = l[1]
    BY <1>3, <1>4, <1>7
  <2> QED BY <1>4, <2>1
<1> QED BY <1>6, <1>7

(* An index on one path, read along a plan. *)
LEMMA ReadByKey ==
  ASSUME PlainIndexing, Settled, NEW n \in Existing(indexes), Len(indexes[n].paths) = 1,
         OneKeyEach(n), NEW plan, NEW descending
  PROVE  ByKey(ReadPlan(indexes[n], plan, descending), n, descending)
<1>1. CASE plan.exact # NoKey
  <2> DEFINE pairs == {x \in indexes[n].keys : x[1] = plan.exact}
             upward == FALSE
  <2>1. ReadPlan(indexes[n], plan, descending) = InKeyOrder(pairs, upward)
    BY <1>1 DEF ReadPlan, LookupExact
  <2>2. IsPairs(pairs) /\ pairs \subseteq indexes[n].keys /\ \A x, y \in pairs : x[1] = y[1]
    BY SomePairs
  <2> HIDE DEF pairs, upward
  <2> QED BY <2>1, <2>2, PairsByKey
<1>2. CASE plan.exact = NoKey
  <2> DEFINE pairs == {x \in indexes[n].keys : /\ plan.low # NoBound => AboveLow(x[1][1], plan.low)
                                               /\ plan.high # NoBound => BelowHigh(x[1][1], plan.high)}
  <2>1. ReadPlan(indexes[n], plan, descending) = InKeyOrder(pairs, descending)
    BY <1>2 DEF ReadPlan, LookupRange
  <2>2. IsPairs(pairs) /\ pairs \subseteq indexes[n].keys
    BY SomePairs
  <2> HIDE DEF pairs
  <2> QED BY <2>1, <2>2, PairsByKey
<1> QED BY <1>1, <1>2

-----------------------------------------------------------------------------
(* Sorting.                                                                 *)

IsSort(sort) == sort \in Seq([path : UsedPaths, ascending : BOOLEAN])

(* The order of SortLess, on the values the documents sort by. *)
ValuesLess(v, w, sort) ==
  \E i \in DOMAIN sort :
    /\ \A j \in 1 .. i - 1 : v[j] = w[j]
    /\ IF sort[i].ascending THEN v[i] < w[i] ELSE v[i] > w[i]

LEMMA SortValuesAre ==
  ASSUME PlainDocuments, NEW sort, IsSort(sort), NEW d \in Docs
  PROVE  SortValues(d, sort) \in [DOMAIN sort -> Int]
<1> SUFFICES ASSUME NEW i \in DOMAIN sort PROVE SortValue(d, sort[i].path) \in Int
  BY DEF SortValues
<1>1. sort[i].path \in UsedPaths
  <2> DEFINE R == [path : UsedPaths, ascending : BOOLEAN]
  <2>1. sort[i] \in R
    <3>1. sort \in Seq(R)
      BY DEF IsSort
    <3> HIDE DEF R
    <3> QED BY <3>1
  <2> QED BY <2>1
<1> DEFINE f == d[sort[i].path]
<1>2. IsField(f)
  BY <1>1 DEF PlainDocuments
<1>3. CASE f.kind = "absent"
  BY <1>3 DEF SortValue, Nullish
<1>4. CASE f.kind = "array"
  BY <1>4 DEF SortValue, ArrayRank
<1>5. CASE f.kind = "one"
  <2>1. SortValue(d, sort[i].path) = CHOOSE v \in f.of : TRUE
    BY <1>5 DEF SortValue
  <2>2. f.of # {} /\ f.of \subseteq Nat
    BY <1>2, <1>5 DEF IsField
  <2> QED BY <2>1, <2>2
<1> QED BY <1>2, <1>3, <1>4, <1>5 DEF IsField

LEMMA ValuesLessIsOrder ==
  ASSUME NEW sort, IsSort(sort)
  PROVE  LET V == [DOMAIN sort -> Int]
         IN  /\ \A v \in V : ~ValuesLess(v, v, sort)
             /\ \A u, v, w \in V :
                  ValuesLess(u, v, sort) /\ ValuesLess(v, w, sort) => ValuesLess(u, w, sort)
             /\ \A v, w \in V : v = w \/ ValuesLess(v, w, sort) \/ ValuesLess(w, v, sort)
<1> DEFINE V == [DOMAIN sort -> Int]
<1>1. DOMAIN sort = 1 .. Len(sort) /\ Len(sort) \in Nat
  BY DEF IsSort
<1>2. ASSUME NEW v \in V PROVE ~ValuesLess(v, v, sort)
  BY <1>1 DEF ValuesLess
<1>3. ASSUME NEW u \in V, NEW v \in V, NEW w \in V,
             ValuesLess(u, v, sort), ValuesLess(v, w, sort)
      PROVE  ValuesLess(u, w, sort)
  <2>1. PICK i \in DOMAIN sort :
          /\ \A k \in 1 .. i - 1 : u[k] = v[k]
          /\ IF sort[i].ascending THEN u[i] < v[i] ELSE u[i] > v[i]
    BY <1>3 DEF ValuesLess
  <2>2. PICK j \in DOMAIN sort :
          /\ \A k \in 1 .. j - 1 : v[k] = w[k]
          /\ IF sort[j].ascending THEN v[j] < w[j] ELSE v[j] > w[j]
    BY <1>3 DEF ValuesLess
  <2>3. CASE i <= j
    <3>1. \A k \in 1 .. i - 1 : u[k] = w[k]
      BY <1>1, <2>1, <2>2, <2>3
    <3>2. u[i] \in Int /\ v[i] \in Int /\ w[i] \in Int
      OBVIOUS
    <3>3. v[i] = w[i] \/ IF sort[i].ascending THEN v[i] < w[i] ELSE v[i] > w[i]
      BY <1>1, <2>2, <2>3
    <3> QED BY <2>1, <3>1, <3>2, <3>3 DEF ValuesLess
  <2>4. CASE j < i
    <3>1. \A k \in 1 .. j - 1 : u[k] = w[k]
      BY <1>1, <2>1, <2>2, <2>4
    <3>2. u[j] = v[j]
      BY <1>1, <2>1, <2>4
    <3> QED BY <2>2, <3>1, <3>2 DEF ValuesLess
  <2> QED BY <1>1, <2>3, <2>4
<1>4. ASSUME NEW v \in V, NEW w \in V, v # w
      PROVE  ValuesLess(v, w, sort) \/ ValuesLess(w, v, sort)
  <2> DEFINE D == {i \in DOMAIN sort : v[i] # w[i]}
  <2>1. D # {} /\ D \subseteq Nat
    BY <1>1, <1>4
  <2>2. PICK i \in D : \A j \in D : i <= j
    BY <2>1, LeastNumber
  <2>3. i \in DOMAIN sort /\ v[i] # w[i] /\ v[i] \in Int /\ w[i] \in Int
    OBVIOUS
  <2>4. \A j \in 1 .. i - 1 : v[j] = w[j]
    <3> SUFFICES ASSUME NEW j \in 1 .. i - 1, v[j] # w[j] PROVE FALSE
      OBVIOUS
    <3>1. j \in DOMAIN sort /\ ~(i <= j)
      BY <1>1, <2>3
    <3> QED BY <2>2, <3>1
  <2> QED BY <2>3, <2>4 DEF ValuesLess
<1> QED BY <1>2, <1>3, <1>4

LEMMA SortLessIs ==
  ASSUME NEW d, NEW e, NEW sort
  PROVE  SortLess(d, e, sort) <=> ValuesLess(SortValues(d, sort), SortValues(e, sort), sort)
BY DEF SortLess, ValuesLess

(* A list of record ids of documents in the collection. *)
IsListed(rids) == rids \in Seq(Nat) /\ \A i \in DOMAIN rids : slots[SlotOf(rids[i])].doc \in Docs

(* What the document of a record id sorts by, and the order of a sorted list. *)
SortsBefore(r, s, sort) == ValuesLess(SortKey(r, sort), SortKey(s, sort), sort)

IsSorted(list, sort) ==
  \A i, j \in DOMAIN list : i < j => ~SortsBefore(list[j], list[i], sort)

LEMMA SortOrderIsTotal ==
  ASSUME PlainDocuments, NEW sort, IsSort(sort), NEW rids, IsListed(rids)
  PROVE  /\ IsTotalOrder(SortOrder(rids, sort), DOMAIN rids)
         /\ \A i, j \in DOMAIN rids :
              <<i, j>> \in SortOrder(rids, sort) => ~SortsBefore(rids[j], rids[i], sort)
<1> DEFINE v(i) == SortKey(rids[i], sort)
           order == SortOrder(rids, sort)
           less(i, j) == ValuesLess(v(i), v(j), sort)
<1>1. \A i \in DOMAIN rids : v(i) \in [DOMAIN sort -> Int]
  BY SortValuesAre DEF IsListed, SortKey
<1>2. \A i, j \in DOMAIN rids :
        <<i, j>> \in order <=> less(i, j) \/ (~less(j, i) /\ i < j)
  BY SortLessIs DEF SortOrder, SortKey
<1>3. /\ \A i \in DOMAIN rids : ~less(i, i)
      /\ \A i, j, k \in DOMAIN rids : less(i, j) /\ less(j, k) => less(i, k)
      /\ \A i, j \in DOMAIN rids : v(i) = v(j) \/ less(i, j) \/ less(j, i)
      /\ \A i, j, k \in DOMAIN rids : v(i) = v(j) => (less(i, k) <=> less(j, k)) /\ (less(k, i) <=> less(k, j))
  <2> HIDE DEF v
  <2> QED BY <1>1, ValuesLessIsOrder
<1>4. DOMAIN rids = 1 .. Len(rids) /\ Len(rids) \in Nat
  BY DEF IsListed
<1> HIDE DEF v, order, less
<1>5. \A i, j \in DOMAIN rids : <<i, j>> \in order => ~less(j, i)
  BY <1>2, <1>3
<1>6. IsTotalOrder(order, DOMAIN rids)
  <2>1. \A i \in DOMAIN rids : <<i, i>> \notin order
    BY <1>2, <1>3, <1>4
  <2>2. ASSUME NEW i \in DOMAIN rids, NEW j \in DOMAIN rids
        PROVE  i = j \/ <<i, j>> \in order \/ <<j, i>> \in order
    <3>1. CASE v(i) = v(j)
      <4>1. ~less(i, j) /\ ~less(j, i)
        BY <1>3, <3>1
      <4> QED BY <1>2, <1>4, <4>1
    <3>2. CASE less(i, j) \/ less(j, i)
      BY <1>2, <3>2
    <3> QED BY <1>3, <3>1, <3>2
  <2>3. ASSUME NEW i \in DOMAIN rids, NEW j \in DOMAIN rids, NEW k \in DOMAIN rids,
               <<i, j>> \in order, <<j, k>> \in order
        PROVE  <<i, k>> \in order
    <3>1. /\ less(i, j) \/ (v(i) = v(j) /\ i < j)
          /\ less(j, k) \/ (v(j) = v(k) /\ j < k)
      BY <1>2, <1>3, <2>3
    <3>2. less(i, k) \/ (v(i) = v(k) /\ i < k)
      BY <1>3, <1>4, <3>1
    <3> QED BY <1>2, <1>3, <3>2
  <2> QED BY <2>1, <2>2, <2>3 DEF IsTotalOrder
<1> QED BY <1>5, <1>6 DEF order, less, v, SortsBefore

(* StableSort rearranges, and what it returns is in order. *)
LEMMA StableSortIs ==
  ASSUME PlainDocuments, NEW sort, IsSort(sort), NEW rids, IsListed(rids)
  PROVE  LET list == StableSort(rids, sort)
         IN  /\ list \in Seq(Nat) /\ Len(list) = Len(rids)
             /\ \A i \in DOMAIN list : \E j \in DOMAIN rids : list[i] = rids[j]
             /\ \A j \in DOMAIN rids : \E i \in DOMAIN list : list[i] = rids[j]
             /\ Distinct(rids) => Distinct(list)
             /\ IsSorted(list, sort)
<1> DEFINE S == DOMAIN rids
           list == StableSort(rids, sort)
           order == Arranged(S, SortOrder(rids, sort))
<1>1. S = 1 .. Len(rids) /\ Len(rids) \in Nat /\ \A i \in S : rids[i] \in Nat
  BY DEF IsListed
<1>2. IsFiniteSet(S) /\ Cardinality(S) = Len(rids)
  <2>1. /\ IsFiniteSet(1 .. Len(rids))
        /\ Cardinality(1 .. Len(rids)) = IF 1 > Len(rids) THEN 0 ELSE Len(rids) - 1 + 1
    BY <1>1, FS_Interval
  <2> QED BY <1>1, <2>1
<1>3. IsTotalOrder(SortOrder(rids, sort), S)
  BY SortOrderIsTotal
<1>4. /\ DOMAIN order = 1 .. Len(rids)
      /\ \A i \in DOMAIN order : order[i] \in S
      /\ \A x \in S : \E i \in DOMAIN order : order[i] = x
      /\ \A i, j \in DOMAIN order : i < j => <<order[i], order[j]>> \in SortOrder(rids, sort)
  <2> HIDE DEF S
  <2> QED BY <1>2, <1>3, ArrangedLists
<1>5. list = [i \in DOMAIN order |-> rids[order[i]]]
  BY DEF StableSort
<1>6. ASSUME NEW i \in DOMAIN order, NEW j \in DOMAIN order, order[i] = order[j] PROVE i = j
  <2>1. <<order[i], order[j]>> \notin SortOrder(rids, sort) /\ <<order[j], order[i]>> \notin SortOrder(rids, sort)
    BY <1>3, <1>4, <1>6 DEF IsTotalOrder
  <2>2. i = j \/ i < j \/ j < i
    BY <1>1, <1>4
  <2> HIDE DEF order
  <2> QED BY <1>4, <2>1, <2>2
<1> HIDE DEF order, list
<1>7. /\ DOMAIN list = 1 .. Len(rids) /\ list \in Seq(Nat) /\ Len(list) = Len(rids)
      /\ \A i \in DOMAIN list : list[i] = rids[order[i]]
  BY <1>1, <1>4, <1>5
<1>8. Distinct(rids) => Distinct(list)
  BY <1>4, <1>6, <1>7 DEF Distinct
<1>9. IsSorted(list, sort)
  <2> SUFFICES ASSUME NEW i \in DOMAIN list, NEW j \in DOMAIN list, i < j
               PROVE  ~SortsBefore(list[j], list[i], sort)
    BY DEF IsSorted
  <2>1. order[i] \in S /\ order[j] \in S /\ <<order[i], order[j]>> \in SortOrder(rids, sort)
    BY <1>4, <1>7
  <2>2. ~SortsBefore(rids[order[j]], rids[order[i]], sort)
    BY <2>1, SortOrderIsTotal
  <2> QED BY <1>7, <2>2
<1> QED BY <1>4, <1>7, <1>8, <1>9 DEF list

-----------------------------------------------------------------------------
(* Reading a cursor to its end.                                             *)

Walk(cur) == Arranged(Ahead(cur), {o \in Ahead(cur) \X Ahead(cur) : o[1] < o[2]})
Total(cur) == Cardinality(Ahead(cur))

(* How many of n documents are left between skip and limit. *)
CutLength(n, skip, left) ==
  LET last == IF left = Unlimited THEN n ELSE skip + left
      stop == IF last < n THEN last ELSE n
  IN  IF skip < stop THEN stop - skip ELSE 0

(* What is known of every cursor that Find opens. *)
IsWalk(cur) ==
  /\ cur.at \in Nat /\ cur.end \in Nat /\ cur.skip \in Nat /\ cur.left \in Nat \cup {Unlimited}
  /\ \A p \in cur.at .. cur.end : RidAt(cur, p) \in Nat

LEMMA WalkIs ==
  ASSUME NEW cur, IsWalk(cur)
  PROVE  /\ Total(cur) \in Nat /\ IsFiniteSet(Ahead(cur)) /\ Ahead(cur) \subseteq cur.at .. cur.end
         /\ Walk(cur) \in Seq(Int) /\ Len(Walk(cur)) = Total(cur)
         /\ DOMAIN Walk(cur) = 1 .. Total(cur)
         /\ \A i \in 1 .. Total(cur) : Walk(cur)[i] \in Ahead(cur)
         /\ \A p \in Ahead(cur) : \E i \in 1 .. Total(cur) : Walk(cur)[i] = p
         /\ \A i, j \in 1 .. Total(cur) : i < j => Walk(cur)[i] < Walk(cur)[j]
<1> DEFINE S == Ahead(cur)
           order == {o \in S \X S : o[1] < o[2]}
<1>1. S \subseteq cur.at .. cur.end /\ cur.at \in Nat /\ cur.end \in Nat
  BY DEF Ahead, IsWalk
<1>2. IsFiniteSet(S) /\ \A x \in S : x \in Int
  <2> HIDE DEF S
  <2>1. IsFiniteSet(cur.at .. cur.end)
    BY <1>1, FS_Interval
  <2>2. S \in SUBSET (cur.at .. cur.end) /\ \A x \in S : x \in Int
    BY <1>1
  <2>3. IsFiniteSet(S)
    BY <2>1, <2>2, FS_Subset
  <2> QED BY <2>2, <2>3
<1>3. IsTotalOrder(order, S)
  <2> HIDE DEF S
  <2>1. \A x, y \in S : <<x, y>> \in order <=> x < y
    OBVIOUS
  <2> HIDE DEF order
  <2> QED BY <1>2, <2>1 DEF IsTotalOrder
<1>4. Walk(cur) = Arranged(S, order)
  BY DEF Walk
<1>5. \A x, y \in S : <<x, y>> \in order => x < y
  OBVIOUS
<1> HIDE DEF S, order
<1>6. /\ Cardinality(S) \in Nat
      /\ DOMAIN Walk(cur) = 1 .. Cardinality(S)
      /\ \A i \in DOMAIN Walk(cur) : Walk(cur)[i] \in S
      /\ \A x \in S : \E i \in DOMAIN Walk(cur) : Walk(cur)[i] = x
      /\ \A i, j \in DOMAIN Walk(cur) : i < j => <<Walk(cur)[i], Walk(cur)[j]>> \in order
  BY <1>2, <1>3, <1>4, ArrangedLists
<1>7. Walk(cur) = [i \in 1 .. Cardinality(S) |-> Walk(cur)[i]]
  BY <1>4, <1>6 DEF Arranged
<1>8. Walk(cur) \in Seq(Int) /\ Len(Walk(cur)) = Cardinality(S)
  BY <1>2, <1>6, <1>7
<1>9. \A i, j \in DOMAIN Walk(cur) : i < j => Walk(cur)[i] < Walk(cur)[j]
  BY <1>5, <1>6
<1> QED BY <1>1, <1>2, <1>6, <1>8, <1>9 DEF S, Total

(* Drained cuts the walk between skip and limit. *)
LEMMA DrainedIs ==
  ASSUME NEW cur, IsWalk(cur)
  PROVE  LET n == CutLength(Total(cur), cur.skip, cur.left)
         IN  /\ Drained(cur) \in Seq(Nat) /\ Len(Drained(cur)) = n
             /\ n \in Nat /\ n <= Total(cur) /\ (n > 0 => n + cur.skip <= Total(cur))
             /\ \A i \in 1 .. n : Drained(cur)[i] = RidAt(cur, Walk(cur)[i + cur.skip])
<1> DEFINE all == Walk(cur)
           total == Total(cur)
           last == IF cur.left = Unlimited THEN Len(all) ELSE cur.skip + cur.left
           stop == IF last < Len(all) THEN last ELSE Len(all)
           kept == SubSeq(all, cur.skip + 1, stop)
           n == CutLength(total, cur.skip, cur.left)
<1>1. /\ total \in Nat /\ all \in Seq(Int) /\ Len(all) = total
      /\ \A i \in 1 .. total : all[i] \in cur.at .. cur.end
  BY WalkIs
<1>2. cur.skip \in Nat /\ cur.left \in Nat \cup {Unlimited} /\ \A p \in cur.at .. cur.end : RidAt(cur, p) \in Nat
  BY DEF IsWalk
<1>3. Drained(cur) = [i \in DOMAIN kept |-> RidAt(cur, kept[i])]
  BY DEF Drained, Walk
<1> HIDE DEF all, total
<1>4. stop \in Nat /\ stop <= total
  BY <1>1, <1>2
<1>5. n = IF cur.skip < stop THEN stop - cur.skip ELSE 0
  BY <1>1 DEF CutLength
<1> HIDE DEF stop, n
<1>6. n \in Nat /\ n <= total /\ (n > 0 => n + cur.skip <= total)
  BY <1>1, <1>2, <1>4, <1>5
<1>7. DOMAIN kept = 1 .. n /\ \A i \in 1 .. n : kept[i] = all[i + cur.skip]
  <2>1. \A i \in cur.skip + 1 .. stop : all[i] \in Int
    BY <1>1, <1>2, <1>4
  <2>2. cur.skip + 1 \in Int /\ stop \in Int
    BY <1>2, <1>4
  <2> DEFINE first == cur.skip + 1
  <2> HIDE DEF first
  <2>3. /\ SubSeq(all, first, stop) \in Seq(Int)
        /\ Len(SubSeq(all, first, stop)) = IF first <= stop THEN stop - first + 1 ELSE 0
        /\ \A i \in 1 .. stop - first + 1 : SubSeq(all, first, stop)[i] = all[first + i - 1]
    BY <2>1, <2>2, SubSeqProperties DEF first
  <2>4. kept = SubSeq(all, first, stop)
    BY DEF first
  <2> HIDE DEF kept
  <2>5. Len(kept) = n /\ kept \in Seq(Int)
    BY <1>2, <1>4, <1>5, <2>3, <2>4 DEF first
  <2>6. ASSUME NEW i \in 1 .. n PROVE kept[i] = all[i + cur.skip]
    <3>1. i \in 1 .. stop - first + 1 /\ first + i - 1 = i + cur.skip
      BY <1>2, <1>4, <1>5 DEF first
    <3> QED BY <2>3, <2>4, <3>1
  <2> QED BY <2>5, <2>6
<1> HIDE DEF kept
<1>8. Drained(cur) = [i \in 1 .. n |-> RidAt(cur, all[i + cur.skip])]
  BY <1>3, <1>7
<1>9. \A i \in 1 .. n : RidAt(cur, all[i + cur.skip]) \in Nat
  <2> SUFFICES ASSUME NEW i \in 1 .. n PROVE RidAt(cur, all[i + cur.skip]) \in Nat
    OBVIOUS
  <2>1. i + cur.skip \in 1 .. total
    BY <1>1, <1>2, <1>6
  <2> QED BY <1>1, <1>2, <2>1
<1> QED BY <1>6, <1>8, <1>9 DEF n, all, total

(* No record id comes at two places ahead. *)
WalksOnce(cur) ==
  \A p, q \in cur.at .. cur.end : RidAt(cur, p) = RidAt(cur, q) => p = q

LEMMA DrainedOnce ==
  ASSUME NEW cur, IsWalk(cur), WalksOnce(cur)
  PROVE  Distinct(Drained(cur))
<1> DEFINE n == CutLength(Total(cur), cur.skip, cur.left)
           d == Drained(cur)
<1>1. /\ d \in Seq(Nat) /\ Len(d) = n /\ n \in Nat /\ (n > 0 => n + cur.skip <= Total(cur))
      /\ \A i \in 1 .. n : d[i] = RidAt(cur, Walk(cur)[i + cur.skip])
  BY DrainedIs
<1>2. /\ Total(cur) \in Nat /\ Ahead(cur) \subseteq cur.at .. cur.end
      /\ \A i \in 1 .. Total(cur) : Walk(cur)[i] \in Ahead(cur)
      /\ \A i, j \in 1 .. Total(cur) : i < j => Walk(cur)[i] < Walk(cur)[j]
      /\ cur.skip \in Nat /\ cur.at \in Nat /\ cur.end \in Nat
  BY WalkIs DEF IsWalk
<1> HIDE DEF n, d
<1> SUFFICES ASSUME NEW i \in DOMAIN d, NEW j \in DOMAIN d, d[i] = d[j] PROVE i = j
  BY DEF Distinct, d
<1>3. i \in 1 .. n /\ j \in 1 .. n
  BY <1>1
<1>4. i + cur.skip \in 1 .. Total(cur) /\ j + cur.skip \in 1 .. Total(cur)
  BY <1>1, <1>2, <1>3
<1> DEFINE v == Walk(cur)[i + cur.skip]
           w == Walk(cur)[j + cur.skip]
<1>5. v \in cur.at .. cur.end /\ w \in cur.at .. cur.end
  BY <1>2, <1>4
<1>6. v = w
  BY <1>1, <1>3, <1>5 DEF WalksOnce
<1>7. /\ i + cur.skip < j + cur.skip => v < w
      /\ j + cur.skip < i + cur.skip => w < v
  BY <1>2, <1>4
<1>8. v \in Int
  BY <1>2, <1>5
<1> HIDE DEF v, w
<1> QED BY <1>2, <1>3, <1>6, <1>7, <1>8

(* A cursor without skip and limit gives everything ahead. *)
LEMMA DrainedAll ==
  ASSUME NEW cur, IsWalk(cur), cur.skip = 0, cur.left = Unlimited
  PROVE  /\ Len(Drained(cur)) = Total(cur)
         /\ \A p \in Ahead(cur) : \E i \in DOMAIN Drained(cur) : Drained(cur)[i] = RidAt(cur, p)
<1> DEFINE n == CutLength(Total(cur), cur.skip, cur.left)
<1>1. Total(cur) \in Nat
  BY WalkIs
<1>2. n = Total(cur)
  BY <1>1 DEF CutLength
<1>3. /\ Drained(cur) \in Seq(Nat) /\ Len(Drained(cur)) = n
      /\ \A i \in 1 .. n : Drained(cur)[i] = RidAt(cur, Walk(cur)[i + cur.skip])
  BY DrainedIs
<1> HIDE DEF n
<1>4. \A i \in 1 .. Total(cur) : i \in DOMAIN Drained(cur) /\ Drained(cur)[i] = RidAt(cur, Walk(cur)[i])
  BY <1>1, <1>2, <1>3
<1>5. \A p \in Ahead(cur) : \E i \in 1 .. Total(cur) : Walk(cur)[i] = p
  BY WalkIs
<1>6. ASSUME NEW p \in Ahead(cur) PROVE \E i \in DOMAIN Drained(cur) : Drained(cur)[i] = RidAt(cur, p)
  <2>1. PICK i \in 1 .. Total(cur) : Walk(cur)[i] = p
    BY <1>5
  <2>2. i \in DOMAIN Drained(cur) /\ Drained(cur)[i] = RidAt(cur, p)
    BY <1>4, <2>1
  <2> QED BY <2>2
<1> QED BY <1>2, <1>3, <1>6

(* Everything a cursor gives is ahead of it. *)
LEMMA DrainedAhead ==
  ASSUME NEW cur, IsWalk(cur), NEW i \in DOMAIN Drained(cur)
  PROVE  \E p \in Ahead(cur) : Drained(cur)[i] = RidAt(cur, p)
<1> DEFINE n == CutLength(Total(cur), cur.skip, cur.left)
<1>1. /\ Drained(cur) \in Seq(Nat) /\ Len(Drained(cur)) = n /\ n \in Nat
      /\ (n > 0 => n + cur.skip <= Total(cur))
      /\ \A k \in 1 .. n : Drained(cur)[k] = RidAt(cur, Walk(cur)[k + cur.skip])
  BY DrainedIs
<1>2. /\ Total(cur) \in Nat /\ cur.skip \in Nat
      /\ \A k \in 1 .. Total(cur) : Walk(cur)[k] \in Ahead(cur)
  BY WalkIs DEF IsWalk
<1> HIDE DEF n
<1>3. i \in 1 .. n /\ i + cur.skip \in 1 .. Total(cur)
  BY <1>1, <1>2
<1> QED BY <1>1, <1>2, <1>3

-----------------------------------------------------------------------------
(* An index gives an order only as long as none of its documents has an     *)
(* array under its paths.                                                   *)

OrderedInv ==
  \A n \in IndexNames : indexes[n] # NoEntry /\ indexes[n].ordered =>
    \A p \in Covered(n) : ~ClearsOrder(slots[p].doc, indexes[n].paths)

LEMMA WritesOrder ==
  ASSUME NEW ix \in Indexes, NEW rid, NEW doc, NEW n \in IndexNames, ix[n] # NoEntry
  PROVE  /\ OnInsert(ix, rid, doc)[n].ordered => ix[n].ordered /\ ~ClearsOrder(doc, ix[n].paths)
         /\ OnErase(ix, rid, doc)[n].ordered = ix[n].ordered
<1>1. ix[n] \in [paths : KeyPaths, unique : BOOLEAN, ordered : BOOLEAN, keys : SUBSET (Keys \X Nat)]
  BY ExistingEntry
<1>2. OnInsert(ix, rid, doc)[n] = [ix[n] EXCEPT !.keys = @ \cup KeysIn(ix[n], rid, doc),
                                                !.ordered = @ /\ ~ClearsOrder(doc, ix[n].paths)]
  BY DEF OnInsert
<1>3. OnErase(ix, rid, doc)[n] = [ix[n] EXCEPT !.keys = @ \ KeysIn(ix[n], rid, doc)]
  BY DEF OnErase
<1>4. OnInsert(ix, rid, doc)[n].ordered = (ix[n].ordered /\ ~ClearsOrder(doc, ix[n].paths))
  BY <1>1, <1>2
<1>5. OnErase(ix, rid, doc)[n].ordered = ix[n].ordered
  BY <1>1, <1>3
<1> QED BY <1>4, <1>5

(* What every index may go through in a step. *)
LEMMA OrderStays ==
  ASSUME OrderedInv,
         \A n \in IndexNames : indexes'[n] # NoEntry =>
           \/ Covered(n)' = {}
           \/ /\ indexes[n] # NoEntry /\ indexes'[n].paths = indexes[n].paths
              /\ indexes'[n].ordered => indexes[n].ordered
              /\ \A p \in Covered(n)' :
                   \/ p \in Covered(n) /\ slots'[p].doc = slots[p].doc
                   \/ indexes'[n].ordered => ~ClearsOrder(slots'[p].doc, indexes[n].paths)
  PROVE  OrderedInv'
BY DEF OrderedInv

(* The steps that fill no index: what they leave to show is about live slots. *)
LEMMA FillsNothing ==
  ASSUME StoreInv, TypeOK',
         \/ \E w \in Calls : Begin(w)
         \/ InsertOne \/ InsertRefused \/ InsertEnds
         \/ \E p \in DOMAIN slots : UpdateOne(p) \/ UpdateRefused(p) \/ EraseOne(p)
         \/ UpdateEnds \/ EraseEnds \/ DropOne \/ Return
         \/ \E oid \in Oids : Upsert(oid)
  PROVE  \A n : Covered(n) = Live /\ Covered(n)' = Live'
<1> SUFFICES ~Filling /\ ~Filling'
  BY DEF Covered
<1>1. CASE \E w \in Calls : Begin(w)
  BY <1>1 DEF Begin, Filling, Running, NoCall, Start
<1>2. CASE Return
  BY <1>2 DEF Return, Filling, Running, NoCall
<1>3. ASSUME CallOK, call.op # "createIndex",
             \/ call' = [call EXCEPT !.at = @ + 1]
             \/ \E p : call' = [call EXCEPT !.at = p]
             \/ \E p : call' = [call EXCEPT !.at = p, !.hit = TRUE]
             \/ \E err : Finish(err)
      PROVE  ~Filling /\ ~Filling'
  <2>1. call'.op = call.op
    BY <1>3 DEF CallOK, Finish
  <2> QED BY <1>3, <2>1 DEF Filling, Running
<1>4. ASSUME NEW op \in {"insert", "update", "erase", "dropIndex"}, Running(op)
      PROVE  CallOK /\ call.op # "createIndex"
  BY <1>4, RunningCall DEF StoreInv
<1>5. CASE InsertOne \/ InsertRefused \/ InsertEnds
  BY <1>3, <1>4, <1>5 DEF InsertOne, InsertRefused, InsertEnds
<1>6. ASSUME NEW p \in DOMAIN slots, UpdateOne(p) PROVE ~Filling /\ ~Filling'
  BY <1>3, <1>4, <1>6 DEF UpdateOne
<1>7. ASSUME NEW p \in DOMAIN slots, UpdateRefused(p) PROVE ~Filling /\ ~Filling'
  BY <1>3, <1>4, <1>7 DEF UpdateRefused
<1>8. ASSUME NEW p \in DOMAIN slots, EraseOne(p) PROVE ~Filling /\ ~Filling'
  BY <1>3, <1>4, <1>8 DEF EraseOne
<1>9. CASE UpdateEnds \/ EraseEnds \/ DropOne
  BY <1>3, <1>4, <1>9 DEF UpdateEnds, EraseEnds, DropOne
<1>10. ASSUME NEW oid \in Oids, Upsert(oid) PROVE ~Filling /\ ~Filling'
  <2>1. \E err : Finish(err)
    BY <1>10 DEF Upsert
  <2>2. Running("update")
    BY <1>10 DEF Upsert
  <2> QED BY <1>3, <1>4, <2>1, <2>2
<1> QED BY <1>1, <1>2, <1>5, <1>6, <1>7, <1>8, <1>9, <1>10

(* A document that comes in, at the end or in the place of another. *)
LEMMA OrderOnInsert ==
  ASSUME StoreInv, OrderedInv, NEW rid \in Nat, NEW doc \in Docs, NEW ix \in Indexes,
         indexes' = OnInsert(ix, rid, doc),
         \A n \in IndexNames :
           /\ ix[n] = NoEntry <=> indexes[n] = NoEntry
           /\ ix[n] # NoEntry => ix[n].paths = indexes[n].paths /\ ix[n].ordered = indexes[n].ordered,
         \A n \in IndexNames : \A p \in Covered(n)' :
           \/ p \in Covered(n) /\ slots'[p].doc = slots[p].doc
           \/ slots'[p].doc = doc
  PROVE  OrderedInv'
<1> SUFFICES ASSUME NEW n \in IndexNames, indexes'[n] # NoEntry
             PROVE  /\ indexes[n] # NoEntry /\ indexes'[n].paths = indexes[n].paths
                    /\ indexes'[n].ordered => indexes[n].ordered
                    /\ \A p \in Covered(n)' :
                         \/ p \in Covered(n) /\ slots'[p].doc = slots[p].doc
                         \/ indexes'[n].ordered => ~ClearsOrder(slots'[p].doc, indexes[n].paths)
  BY OrderStays
<1>1. ix[n] # NoEntry /\ indexes[n] # NoEntry /\ indexes'[n].paths = ix[n].paths
  BY OnInsertAdds
<1>2. indexes'[n].ordered => ix[n].ordered /\ ~ClearsOrder(doc, ix[n].paths)
  BY <1>1, WritesOrder
<1> QED BY <1>1, <1>2

LEMMA AppendKeepsOrder ==
  ASSUME StoreInv, OrderedInv, NEW doc \in Docs, AppendDoc(doc),
         \A n : Covered(n) = Live /\ Covered(n)' = Live'
  PROVE  OrderedInv'
<1>1. slots \in Seq(Slots) /\ nextRid \in Nat /\ indexes \in Indexes
  BY DEF StoreInv, TypeOK
<1> DEFINE new == [rid |-> nextRid, doc |-> doc, deleted |-> FALSE]
<1>2. slots' = Append(slots, new) /\ indexes' = OnInsert(indexes, nextRid, doc)
  BY DEF AppendDoc
<1>3. \A p \in Live' : (p \in Live /\ slots'[p] = slots[p]) \/ slots'[p] = new
  BY <1>1, <1>2 DEF Live
<1>4. \A n \in IndexNames : \A p \in Covered(n)' :
        (p \in Covered(n) /\ slots'[p].doc = slots[p].doc) \/ slots'[p].doc = doc
  BY <1>3
<1> QED BY <1>1, <1>2, <1>4, OrderOnInsert

LEMMA UpdateKeepsOrder ==
  ASSUME StoreInv, OrderedInv, NEW p \in DOMAIN slots, UpdateOne(p),
         \A n : Covered(n) = Live /\ Covered(n)' = Live'
  PROVE  OrderedInv'
<1> DEFINE slot == slots[p]
           doc == ApplyUpdate(slot.doc, call.req.spec).doc
           ix == OnErase(indexes, slot.rid, slot.doc)
<1>1. slots \in Seq(Slots) /\ indexes \in Indexes /\ slot \in Slots /\ slot.rid \in Nat /\ slot.doc \in Docs
  BY LiveSlot DEF StoreInv, TypeOK
<1>2. doc \in Docs
  <2>1. CallOK /\ call.op = "update"
    BY RunningCall DEF UpdateOne, StoreInv
  <2>2. ApplyUpdate(slot.doc, call.req.spec) \in [err : Nat, doc : Docs]
    BY <1>1, <2>1, RequestParts, QueryAssumption
  <2> QED BY <2>2
<1>3. slots' = [slots EXCEPT ![p].doc = doc]
  BY DEF UpdateOne
<1>4. \A q \in Live' : q \in Live /\ (slots'[q] = slots[q] \/ slots'[q].doc = doc)
  <2> HIDE DEF doc
  <2> QED BY <1>1, <1>3 DEF Live, Slots
<1>5. CASE doc = slot.doc
  <2>1. UNCHANGED indexes
    BY <1>5 DEF UpdateOne
  <2>2. \A q \in Live' : slots'[q].doc = slots[q].doc
    BY <1>1, <1>3, <1>5, <1>4 DEF Slots
  <2> HIDE DEF doc
  <2> QED BY <1>4, <2>1, <2>2, OrderStays
<1>6. CASE doc # slot.doc
  <2>1. indexes' = OnInsert(ix, slot.rid, doc)
    BY <1>6 DEF UpdateOne
  <2>2. ix \in Indexes /\ \A n \in IndexNames :
           /\ ix[n] = NoEntry <=> indexes[n] = NoEntry
           /\ ix[n] # NoEntry => ix[n].paths = indexes[n].paths /\ ix[n].ordered = indexes[n].ordered
    BY <1>1, OnEraseRemoves, WritesOrder
  <2>3. \A n \in IndexNames : \A q \in Covered(n)' :
          (q \in Covered(n) /\ slots'[q].doc = slots[q].doc) \/ slots'[q].doc = doc
    BY <1>4
  <2> HIDE DEF doc, ix
  <2> QED BY <1>1, <1>2, <2>1, <2>2, <2>3, OrderOnInsert
<1> QED BY <1>5, <1>6

LEMMA EraseKeepsOrder ==
  ASSUME StoreInv, OrderedInv, NEW p \in DOMAIN slots, EraseOne(p),
         \A n : Covered(n) = Live /\ Covered(n)' = Live'
  PROVE  OrderedInv'
<1>1. slots \in Seq(Slots) /\ indexes \in Indexes /\ slots[p].rid \in Nat /\ slots[p].doc \in Docs
  BY LiveSlot DEF StoreInv, TypeOK
<1>2. slots' = [slots EXCEPT ![p].deleted = TRUE] /\ indexes' = OnErase(indexes, slots[p].rid, slots[p].doc)
  BY DEF EraseOne, Bury
<1>3. \A q \in Live' : q \in Live /\ slots'[q].doc = slots[q].doc
  BY <1>1, <1>2 DEF Live, Slots
<1>4. \A n \in IndexNames : indexes'[n] # NoEntry =>
        /\ indexes[n] # NoEntry /\ indexes'[n].paths = indexes[n].paths
        /\ indexes'[n].ordered = indexes[n].ordered
  BY <1>1, <1>2, OnEraseRemoves, WritesOrder
<1> QED BY <1>3, <1>4, OrderStays

(* createIndex: nothing is covered when the index is registered, and then   *)
(* one slot after the other.                                                *)
LEMMA RegisterKeepsOrder ==
  ASSUME StoreInv, OrderedInv, RegisterIndex
  PROVE  OrderedInv'
<1>1. /\ CallOK /\ call.op = "createIndex" /\ call.hit = FALSE /\ call.done = FALSE
      /\ call.req.name \in IndexNames /\ call.at = 1
      /\ UNCHANGED <<slots, nextRid>> /\ indexes \in Indexes /\ ~Filling /\ Live' = Live
  BY RunningCall, RequestParts DEF RegisterIndex, StoreInv, CallOK, FillingInOrder, Filling, TypeOK, Live
<1>2. CASE UNCHANGED indexes /\ \E err : Finish(err)
  <2>1. ~Filling'
    BY <1>1, <1>2 DEF Finish, CallOK, Filling, Running
  <2>2. \A n : Covered(n) = Live /\ Covered(n)' = Live
    BY <1>1, <2>1 DEF Covered
  <2> QED BY <1>1, <1>2, <2>2, OrderStays
<1>3. CASE /\ call' = [call EXCEPT !.hit = TRUE]
           /\ indexes' = [indexes EXCEPT ![call.req.name] =
                            [NoEntry EXCEPT !.paths = call.req.paths, !.unique = call.req.unique]]
  <2>1. call'.req = call.req /\ call'.at = 1 /\ Filling'
    BY <1>1, <1>3 DEF CallOK, Filling, Running
  <2>2. \A n : n # call.req.name => Covered(n) = Live /\ Covered(n)' = Live
    BY <1>1, <2>1 DEF Covered
  <2>3. Covered(call.req.name)' = {}
    <3>1. \A p \in Live : 1 <= p
      BY LiveSlot DEF Live, StoreInv
    <3> QED BY <1>1, <2>1, <3>1 DEF Covered, Unfilled
  <2>4. \A n \in IndexNames : n # call.req.name => indexes'[n] = indexes[n]
    BY <1>1, <1>3 DEF Indexes
  <2> SUFFICES ASSUME NEW n \in IndexNames, indexes'[n] # NoEntry
               PROVE  \/ Covered(n)' = {}
                      \/ /\ indexes[n] # NoEntry /\ indexes'[n] = indexes[n]
                         /\ \A p \in Covered(n)' : p \in Covered(n) /\ slots'[p].doc = slots[p].doc
    BY OrderStays
  <2> QED BY <1>1, <2>1, <2>2, <2>3, <2>4
<1> QED BY <1>1, <1>2, <1>3 DEF RegisterIndex

LEMMA FillKeepsOrder ==
  ASSUME StoreInv, OrderedInv, NEW p \in DOMAIN slots, FillOne(p)
  PROVE  OrderedInv'
<1>1. /\ CallOK /\ call.op = "createIndex" /\ call.done = FALSE /\ Filling
      /\ UNCHANGED slots /\ Live' = Live /\ indexes \in Indexes
      /\ indexes' = OnInsert(indexes, slots[p].rid, slots[p].doc)
  BY RunningCall DEF FillOne, Filling, StoreInv, TypeOK, Live
<1>2. /\ slots[p].rid \in Nat /\ slots[p].doc \in Docs /\ p \in Nat
      /\ \A q \in Live : call.at <= q => p <= q
  BY LiveSlot DEF FillOne, IsNextUnfilled, Unfilled, StoreInv
<1>3. call'.at = p + 1 /\ call'.req = call.req /\ Filling' /\ call.at \in Nat
  BY <1>1 DEF FillOne, CallOK, Filling, Running
<1>4. \A n : \A q \in Covered(n)' : q \in Covered(n) \/ q = p
  <2> SUFFICES ASSUME NEW n, NEW q \in Covered(n)', q \notin Covered(n), q # p PROVE FALSE
    OBVIOUS
  <2>1. n = call.req.name /\ q \in Live /\ call.at <= q /\ ~(p + 1 <= q)
    BY <1>1, <1>3 DEF Covered, Unfilled
  <2>2. q \in Nat /\ p <= q
    BY <1>2, <2>1, LiveSlot DEF Live, StoreInv
  <2> QED BY <1>2, <2>1, <2>2
<1>5. \A n \in IndexNames : \A q \in Covered(n)' :
        (q \in Covered(n) /\ slots'[q].doc = slots[q].doc) \/ slots'[q].doc = slots[p].doc
  BY <1>1, <1>4
<1> QED BY <1>1, <1>2, <1>5, OrderOnInsert

(* An entry that is taken out, and an index that is full. *)
LEMMA FillStopsKeepsOrder ==
  ASSUME StoreInv, OrderedInv,
         FillEnds \/ \E p \in DOMAIN slots : FillRefused(p)
  PROVE  OrderedInv'
<1>1. /\ CallOK /\ call.op = "createIndex" /\ call.done = FALSE /\ Filling
      /\ UNCHANGED slots /\ Live' = Live /\ indexes \in Indexes
  BY RunningCall DEF FillEnds, FillRefused, Filling, StoreInv, TypeOK, Live
<1>2. ~Filling'
  BY <1>1 DEF FillEnds, FillRefused, Finish, CallOK, Filling, Running
<1>3. \A n : Covered(n)' = Live
  BY <1>1, <1>2 DEF Covered
<1>4. CASE FillEnds
  <2>1. \A n : Covered(n) = Live /\ UNCHANGED indexes
    BY <1>4 DEF FillEnds, Covered
  <2> QED BY <1>1, <1>3, <2>1, OrderStays
<1>5. CASE \E p \in DOMAIN slots : FillRefused(p)
  <2>1. indexes' = [indexes EXCEPT ![call.req.name] = NoEntry]
    BY <1>5 DEF FillRefused
  <2>2. \A n \in IndexNames : indexes'[n] # NoEntry => n # call.req.name /\ indexes'[n] = indexes[n]
    BY <1>1, <2>1 DEF Indexes
  <2>3. \A n : n # call.req.name => Covered(n) = Live
    BY DEF Covered
  <2> QED BY <1>1, <1>3, <2>2, <2>3, OrderStays
<1> QED BY <1>4, <1>5

LEMMA DropKeepsOrder ==
  ASSUME StoreInv, OrderedInv, DropOne, \A n : Covered(n) = Live /\ Covered(n)' = Live'
  PROVE  OrderedInv'
<1>1. indexes \in Indexes /\ UNCHANGED slots /\ Live' = Live
  BY DEF DropOne, StoreInv, TypeOK, Live
<1>2. UNCHANGED indexes \/ indexes' = [indexes EXCEPT ![call.req.name] = NoEntry]
  BY DEF DropOne
<1>3. \A n \in IndexNames : indexes'[n] # NoEntry => indexes'[n] = indexes[n]
  BY <1>1, <1>2 DEF Indexes
<1> QED BY <1>1, <1>3, OrderStays

LEMMA SameKeepsOrder ==
  ASSUME OrderedInv, UNCHANGED <<slots, indexes>>, \A n : Covered(n)' = Covered(n)
  PROVE  OrderedInv'
BY OrderStays

LEMMA NextKeepsOrder == StoreInv /\ OrderedInv /\ [Next]_vars => OrderedInv'
<1> SUFFICES ASSUME StoreInv, OrderedInv, [Next]_vars PROVE OrderedInv'
  OBVIOUS
<1>1. TypeOK'
  BY NextKeepsInv DEF StoreInv
<1>2. ASSUME NEW w \in Calls, Begin(w) PROVE OrderedInv'
  <2>1. \A n : Covered(n) = Live /\ Covered(n)' = Live'
    BY <1>1, <1>2, FillsNothing
  <2>2. UNCHANGED <<slots, indexes>> /\ Live' = Live
    BY <1>2 DEF Begin, Live
  <2> QED BY <2>1, <2>2, SameKeepsOrder
<1>3. CASE InsertOne
  <2>1. \A n : Covered(n) = Live /\ Covered(n)' = Live'
    BY <1>1, <1>3, FillsNothing
  <2>2. call.req.docs[call.at] \in Docs
    <3>1. CallOK /\ call.op = "insert"
      BY <1>3, RunningCall DEF InsertOne, StoreInv
    <3>2. call.req.docs \in Seq(Docs) /\ call.at \in 1 .. Len(call.req.docs)
      BY <1>3, <3>1, RequestParts DEF InsertOne, CallOK
    <3> QED BY <3>2
  <2>3. AppendDoc(call.req.docs[call.at])
    BY <1>3 DEF InsertOne
  <2> QED BY <2>1, <2>2, <2>3, AppendKeepsOrder
<1>4. CASE \/ InsertRefused \/ InsertEnds \/ UpdateEnds \/ EraseEnds \/ Return
           \/ \E p \in DOMAIN slots : UpdateRefused(p)
  <2>1. \A n : Covered(n) = Live /\ Covered(n)' = Live'
    BY <1>1, <1>4, FillsNothing
  <2>2. UNCHANGED <<slots, indexes>> /\ Live' = Live
    BY <1>4 DEF InsertRefused, InsertEnds, UpdateEnds, EraseEnds, Return, UpdateRefused, Live
  <2> QED BY <2>1, <2>2, SameKeepsOrder
<1>5. ASSUME NEW p \in DOMAIN slots, UpdateOne(p) \/ EraseOne(p) PROVE OrderedInv'
  <2>1. \A n : Covered(n) = Live /\ Covered(n)' = Live'
    BY <1>1, <1>5, FillsNothing
  <2> QED BY <1>5, <2>1, UpdateKeepsOrder, EraseKeepsOrder
<1>6. ASSUME NEW oid \in Oids, Upsert(oid) PROVE OrderedInv'
  <2> DEFINE seed == SeedUpsert(call.req.filter, call.req.spec, oid)
  <2>1. \A n : Covered(n) = Live /\ Covered(n)' = Live'
    BY <1>1, <1>6, FillsNothing
  <2>2. seed.doc \in Docs
    <3>1. CallOK /\ call.op = "update"
      BY <1>6, RunningCall DEF Upsert, StoreInv
    <3>2. seed \in [err : Nat, doc : Docs]
      BY <3>1, RequestParts, QueryAssumption
    <3> QED BY <3>2
  <2>3. UNCHANGED <<slots, indexes>> \/ AppendDoc(seed.doc)
    BY <1>6 DEF Upsert
  <2>4. CASE UNCHANGED <<slots, indexes>>
    <3>1. Live' = Live
      BY <2>4 DEF Live
    <3> QED BY <2>1, <2>4, <3>1, SameKeepsOrder
  <2> HIDE DEF seed
  <2> QED BY <2>1, <2>2, <2>3, <2>4, AppendKeepsOrder
<1>7. CASE RegisterIndex \/ FillEnds \/ DropOne
  <2>1. DropOne => \A n : Covered(n) = Live /\ Covered(n)' = Live'
    BY <1>1, FillsNothing
  <2> QED BY <1>7, <2>1, RegisterKeepsOrder, FillStopsKeepsOrder, DropKeepsOrder
<1>8. ASSUME NEW p \in DOMAIN slots, FillOne(p) \/ FillRefused(p) PROVE OrderedInv'
  BY <1>8, FillKeepsOrder, FillStopsKeepsOrder
<1>9. CASE \/ \E c \in Cursors : (\E q \in Queries : OpenCursor(c, q)) \/ Fetch(c) \/ CloseCursor(c)
           \/ UNCHANGED vars
  <2>1. UNCHANGED <<slots, indexes, call>>
    BY <1>9 DEF OpenCursor, Fetch, CloseCursor, vars
  <2>2. \A n : Covered(n)' = Covered(n)
    BY <2>1 DEF Covered, Live, Filling, Running, Unfilled
  <2> QED BY <2>1, <2>2, SameKeepsOrder
<1> QED BY <1>2, <1>3, <1>4, <1>5, <1>6, <1>7, <1>8, <1>9 DEF Next

LEMMA InitOrder == Init => OrderedInv
<1> SUFFICES ASSUME Init PROVE OrderedInv
  OBVIOUS
<1>1. slots = <<>>
  BY DEF Init
<1>2. \A n : Covered(n) = {}
  BY <1>1 DEF Covered, Live
<1> QED BY <1>2 DEF OrderedInv

-----------------------------------------------------------------------------
(* The cursors find() opens.                                                *)

(* The record ids a filter finds. *)
Found(f) == {slots[p].rid : p \in {p \in Live : Matches(slots[p].doc, f)}}

(* What find() reads: all slots, or a list that holds every match.          *)
IsSource(kind, list, end, f) ==
  /\ list \in Seq(Nat) /\ end \in Nat
  /\ \/ kind = "scan" /\ end = Len(slots)
     \/ /\ kind = "lookup" /\ end = Len(list)
        /\ HoldsMatches(list, f) /\ (RangesOverValues => Distinct(list))

LEMMA FoundIs ==
  ASSUME NEW f, NEW r
  PROVE  r \in Found(f) <=> \E p \in Live : slots[p].rid = r /\ Matches(slots[p].doc, f)
BY DEF Found

LEMMA CursorIs ==
  ASSUME NEW kind, NEW list, NEW end, NEW q, NEW skip, NEW limit
  PROVE  LET cur == Cursor(kind, list, end, q, skip, limit)
         IN  /\ cur.kind = kind /\ cur.list = list /\ cur.at = 1 /\ cur.end = end
             /\ cur.query = q /\ cur.skip = skip /\ cur.seen = <<>> /\ cur.steady = Found(q.filter)
             /\ cur.left = IF limit = 0 THEN Unlimited ELSE limit
BY DEF Cursor, Found

(* The cursors that do not sort. *)
LEMMA UnsortedIs ==
  ASSUME PlainIndexing, PlainQueries, Settled, NEW q \in Queries, NEW skip, NEW limit,
         NEW cur \in Unsorted(q, skip, limit)
  PROVE  \E kind, list, end :
           /\ IsSource(kind, list, end, q.filter)
           /\ cur = Cursor(kind, list, end, q, skip, limit)
<1>1. PICK plan \in LookupPlans(indexes, q.filter) :
        cur \in IF plan = NoPlan THEN {Scan(q, skip, limit)}
                ELSE {Lookup(list, q, skip, limit) : list \in PlanResults(indexes, plan)}
  BY DEF Unsorted
<1>2. CASE plan = NoPlan
  <2>1. cur = Cursor("scan", <<>>, Len(slots), q, skip, limit)
    BY <1>1, <1>2 DEF Scan
  <2>2. Len(slots) \in Nat
    BY DEF Settled, StoreInv, TypeOK
  <2>3. IsSource("scan", <<>>, Len(slots), q.filter)
    BY <2>2 DEF IsSource
  <2> QED BY <2>1, <2>3
<1>3. CASE plan # NoPlan
  <2>1. ReadsClauses(plan, q.filter)
    BY <1>3, PlanReadsClauses
  <2>2. ByPaths(indexes, plan.paths) # {}
    BY <2>1 DEF ReadsClauses
  <2>3. PICK list \in PlanResults(indexes, plan) : cur = Lookup(list, q, skip, limit)
    BY <1>1, <1>3
  <2> DEFINE descending == FALSE
  <2>4. PICK n \in ByPaths(indexes, plan.paths) : list = ReadPlan(indexes[n], plan, descending)
    BY <2>2, <2>3 DEF PlanResults
  <2> HIDE DEF descending
  <2>5. /\ list \in Seq(Nat) /\ HoldsMatches(list, q.filter)
        /\ RangesOverValues => Distinct(list)
    <3> DEFINE read == ReadPlan(indexes[n], plan, descending)
    <3>1. /\ read \in Seq(Nat) /\ HoldsMatches(read, q.filter)
          /\ RangesOverValues \/ OneKeyEach(n) => Distinct(read)
      BY <2>1, PlanLists
    <3> HIDE DEF read
    <3> QED BY <2>4, <3>1 DEF read
  <2>6. IsSource("lookup", list, Len(list), q.filter)
    BY <2>5 DEF IsSource
  <2>7. cur = Cursor("lookup", list, Len(list), q, skip, limit)
    BY <2>3 DEF Lookup
  <2> QED BY <2>6, <2>7
<1> QED BY <1>2, <1>3

(* Between calls an ordered index has one key for each document. *)
LEMMA OrderedHasOneKey ==
  ASSUME PlainIndexing, Settled, OrderedInv, NEW n \in Existing(indexes), indexes[n].ordered
  PROVE  OneKeyEach(n)
<1>1. n \in IndexNames /\ indexes[n] # NoEntry /\ indexes[n].paths \in KeyPaths
  BY ExistingIs
<1>2. Covered(n) = Live
  BY DEF Settled, Covered, Filling, Running, NoCall
<1>3. ASSUME NEW p \in Live PROVE ~HasArray(slots[p].doc, indexes[n].paths)
  <2>1. slots[p].doc \in Docs
    BY LiveDoc
  <2>2. ClearsOrder(slots[p].doc, indexes[n].paths) = HasArray(slots[p].doc, indexes[n].paths)
    BY <1>1, <2>1 DEF PlainIndexing, QueryLayer
  <2> QED BY <1>1, <1>2, <2>2 DEF OrderedInv
<1> QED BY <1>3 DEF OneKeyEach

(* Those that read an index in its order. *)
LEMMA BySortIndexIs ==
  ASSUME PlainIndexing, PlainQueries, Settled, OrderedInv, NEW q \in Queries,
         NEW n \in SortIndexes(indexes, q.sort), indexes[n].ordered,
         NEW cur \in BySortIndex(n, q)
  PROVE  \E list : /\ IsSource("lookup", list, Len(list), q.filter)
                   /\ ByKey(list, n, ~q.sort[1].ascending)
                   /\ cur = Cursor("lookup", list, Len(list), q, q.skip, q.limit)
<1>1. PICK plan \in LookupPlans(indexes, q.filter) :
        cur = Lookup(SortedResults(indexes[n], plan, q.sort), q, q.skip, q.limit)
  BY DEF BySortIndex
<1> DEFINE paths == <<q.sort[1].path>>
           descending == ~q.sort[1].ascending
           read == IF plan.paths = paths THEN plan ELSE NoPlan
           list == ReadPlan(indexes[n], read, descending)
<1>2. n \in ByPaths(indexes, paths) /\ n \in Existing(indexes) /\ indexes[n].paths = paths
  BY DEF SortIndexes, ByPaths
<1>3. OneKeyEach(n)
  BY <1>2, OrderedHasOneKey
<1>4. cur = Cursor("lookup", list, Len(list), q, q.skip, q.limit)
  BY <1>1 DEF Lookup, SortedResults
<1> HIDE DEF descending
<1>0. ByKey(list, n, descending)
  <2>1. Len(indexes[n].paths) = 1
    BY <1>2
  <2> HIDE DEF read
  <2> QED BY <1>2, <1>3, <2>1, ReadByKey
<1>5. CASE plan.paths = paths
  <2>1. plan # NoPlan
    <3>1. NoPlan.paths = <<>>
      BY DEF NoPlan
    <3>2. paths # <<>>
      OBVIOUS
    <3> HIDE DEF paths
    <3> QED BY <1>5, <3>1, <3>2
  <2>2. ReadsClauses(plan, q.filter)
    BY <2>1, PlanReadsClauses
  <2> DEFINE direct == ReadPlan(indexes[n], plan, descending)
  <2>3. /\ direct \in Seq(Nat) /\ HoldsMatches(direct, q.filter)
        /\ RangesOverValues \/ OneKeyEach(n) => Distinct(direct)
    BY <1>2, <1>5, <2>2, PlanLists
  <2>4. list = direct
    BY <1>5
  <2> HIDE DEF list, direct
  <2> QED BY <1>0, <1>3, <1>4, <2>3, <2>4 DEF IsSource, descending
<1>6. CASE plan.paths # paths
  <2> DEFINE whole == ReadPlan(indexes[n], NoPlan, descending)
  <2>1. Len(indexes[n].paths) = 1
    BY <1>2
  <2>2. /\ whole \in Seq(Nat)
        /\ \A p \in Live : \E i \in DOMAIN whole : whole[i] = slots[p].rid
        /\ OneKeyEach(n) => Distinct(whole)
    BY <1>2, <2>1, WholeIndexLists
  <2>3. list = whole
    BY <1>6
  <2> HIDE DEF list, whole
  <2> QED BY <1>0, <1>3, <1>4, <2>2, <2>3 DEF IsSource, HoldsMatches, descending
<1> QED BY <1>5, <1>6

Gives(cur, f) == {RidAt(cur, p) : p \in Ahead(cur)} = Found(f)

(* A source gives the documents the filter finds, and each of them once.    *)
LEMMA SourceGives ==
  ASSUME Settled, NEW q \in Queries, NEW kind, NEW list, NEW end, IsSource(kind, list, end, q.filter),
         NEW skip \in Nat, NEW limit \in Nat, NEW cur, cur = Cursor(kind, list, end, q, skip, limit)
  PROVE  /\ IsWalk(cur)
         /\ Gives(cur, q.filter)
         /\ RangesOverValues => WalksOnce(cur)
<1>1. /\ cur.kind = kind /\ cur.list = list /\ cur.at = 1 /\ cur.end = end
      /\ cur.query = q /\ cur.skip = skip
      /\ cur.left = IF limit = 0 THEN Unlimited ELSE limit
  BY CursorIs
<1>2. list \in Seq(Nat) /\ end \in Nat
  BY DEF IsSource
<1>3. cur.left \in Nat \cup {Unlimited}
  BY <1>1
<1>4. CASE kind = "scan"
  <2>1. end = Len(slots) /\ slots \in Seq(Slots) /\ DOMAIN slots = 1 .. end
    BY <1>4 DEF IsSource, Settled, StoreInv, TypeOK
  <2>2. \A p \in 1 .. end : RidAt(cur, p) = slots[p].rid /\ slots[p].rid \in Nat
    BY <1>1, <1>4, <2>1, LiveSlot DEF RidAt, Settled, StoreInv
  <2>3. Ahead(cur) = {p \in Live : Matches(slots[p].doc, q.filter)}
    BY <1>1, <1>4, <2>1 DEF Ahead, Yields, Live
  <2>4. \A p \in Ahead(cur) : RidAt(cur, p) = slots[p].rid
    BY <2>1, <2>2, <2>3 DEF Live
  <2>5. Gives(cur, q.filter)
    BY <2>3, <2>4 DEF Found, Gives
  <2>6. IsWalk(cur)
    BY <1>1, <1>2, <1>3, <2>2 DEF IsWalk
  <2>7. WalksOnce(cur)
    BY <1>1, <2>1, <2>2, RidsDiffer DEF WalksOnce, Settled, StoreInv
  <2> QED BY <2>5, <2>6, <2>7
<1>5. CASE kind = "lookup"
  <2>1. /\ end = Len(list) /\ DOMAIN list = 1 .. end
        /\ HoldsMatches(list, q.filter) /\ (RangesOverValues => Distinct(list))
    BY <1>5, <1>2 DEF IsSource
  <2>2. \A p \in 1 .. end : RidAt(cur, p) = list[p] /\ list[p] \in Nat
    BY <1>1, <1>2, <1>5, <2>1 DEF RidAt
  <2>3. \A p \in 1 .. end : Yields(cur, p) <=> list[p] \in Found(q.filter)
    BY <1>1, <1>5, FoundIs DEF Yields
  <2>4. Ahead(cur) = {p \in 1 .. end : list[p] \in Found(q.filter)}
    BY <1>1, <2>3 DEF Ahead
  <2>5. \A r \in Found(q.filter) : \E p \in 1 .. end : list[p] = r
    BY <2>1 DEF HoldsMatches, Found
  <2>6. Gives(cur, q.filter)
    BY <2>2, <2>4, <2>5 DEF Gives
  <2>7. IsWalk(cur)
    BY <1>1, <1>2, <1>3, <2>2 DEF IsWalk
  <2>8. RangesOverValues => WalksOnce(cur)
    BY <1>1, <2>1, <2>2 DEF WalksOnce, Distinct
  <2> QED BY <2>6, <2>7, <2>8
<1> QED BY <1>4, <1>5 DEF IsSource

Elements(list) == {list[i] : i \in DOMAIN list}

(* What is drained from a source before it is cut. *)
LEMMA SourceDrained ==
  ASSUME Settled, NEW q \in Queries, NEW kind, NEW list, NEW end, IsSource(kind, list, end, q.filter),
         NEW cur, cur = Cursor(kind, list, end, q, 0, 0)
  PROVE  LET rids == Drained(cur)
         IN  /\ IsListed(rids)
             /\ Elements(rids) = Found(q.filter)
             /\ RangesOverValues => Distinct(rids)
<1> DEFINE rids == Drained(cur)
<1>1. /\ IsWalk(cur) /\ Gives(cur, q.filter)
      /\ RangesOverValues => WalksOnce(cur)
  <2> DEFINE none == 0
  <2>1. none \in Nat /\ cur = Cursor(kind, list, end, q, none, none)
    OBVIOUS
  <2> HIDE DEF none
  <2> QED BY <2>1, SourceGives
<1>2. cur.skip = 0 /\ cur.left = Unlimited
  BY CursorIs
<1>3. rids \in Seq(Nat)
  BY <1>1, DrainedIs
<1>4. \A p \in Ahead(cur) : \E i \in DOMAIN rids : rids[i] = RidAt(cur, p)
  BY <1>1, <1>2, DrainedAll
<1>5. \A i \in DOMAIN rids : \E p \in Ahead(cur) : rids[i] = RidAt(cur, p)
  BY <1>1, DrainedAhead
<1>6. RangesOverValues => Distinct(rids)
  BY <1>1, DrainedOnce
<1> HIDE DEF rids
<1>7. Elements(rids) = Found(q.filter)
  BY <1>1, <1>4, <1>5 DEF Gives, Elements
<1>8. ASSUME NEW i \in DOMAIN rids PROVE slots[SlotOf(rids[i])].doc \in Docs
  <2>1. PICK p \in Live : slots[p].rid = rids[i]
    BY <1>7 DEF Found, Elements
  <2>2. SlotOf(rids[i]) \in DOMAIN slots
    BY <2>1 DEF SlotOf, Live
  <2> QED BY <2>2, LiveSlot DEF Settled, StoreInv
<1> QED BY <1>3, <1>6, <1>7, <1>8 DEF IsListed, rids

(* A list that is read as it is. *)
LEMMA SortedWalk ==
  ASSUME NEW list \in Seq(Nat), NEW q, NEW skip \in Nat, NEW limit \in Nat,
         NEW cur, cur = Cursor("sorted", list, Len(list), q, skip, limit)
  PROVE  /\ IsWalk(cur) /\ Total(cur) = Len(list) /\ Ahead(cur) = 1 .. Len(list)
         /\ \A i \in 1 .. Len(list) : RidAt(cur, Walk(cur)[i]) = list[i]
<1> DEFINE n == Len(list)
           S == 1 .. n
           order == {o \in S \X S : o[1] < o[2]}
<1>1. /\ cur.kind = "sorted" /\ cur.list = list /\ cur.at = 1 /\ cur.end = n /\ cur.skip = skip
      /\ cur.left = IF limit = 0 THEN Unlimited ELSE limit
  BY CursorIs
<1>2. n \in Nat /\ \A i \in S : list[i] \in Nat
  OBVIOUS
<1>3. Ahead(cur) = S /\ \A p : RidAt(cur, p) = list[p]
  BY <1>1 DEF Ahead, Yields, RidAt
<1>4. IsWalk(cur)
  BY <1>1, <1>2, <1>3 DEF IsWalk
<1>5. Cardinality(S) = n
  <2>1. 1 \in Int /\ n \in Int
    BY <1>2
  <2> HIDE DEF n
  <2>2. Cardinality(1 .. n) = IF 1 > n THEN 0 ELSE n - 1 + 1
    BY <2>1, FS_Interval
  <2> QED BY <1>2, <2>2
<1>6. ASSUME NEW x \in S PROVE Place(x, S, order) = x
  <2> DEFINE below == {y \in S : <<y, x>> \in order}
             m == x - 1
  <2>1. below = 1 .. m
    BY <1>2
  <2>2. 1 \in Int /\ m \in Int /\ x = m + 1 /\ m \in Nat
    BY <1>2
  <2>3. Place(x, S, order) = 1 + Cardinality(below)
    BY DEF Place
  <2> HIDE DEF m, below
  <2>4. Cardinality(1 .. m) = IF 1 > m THEN 0 ELSE m - 1 + 1
    BY <2>2, FS_Interval
  <2> QED BY <2>1, <2>2, <2>3, <2>4
<1>7. Walk(cur) = Arranged(S, order)
  BY <1>3 DEF Walk
<1> DEFINE place(x) == Place(x, S, order)
<1>8. Arranged(S, order) = [i \in 1 .. n |-> CHOOSE x \in S : place(x) = i]
  BY <1>5 DEF Arranged
<1>9. \A x \in S : place(x) = x
  BY <1>6
<1> HIDE DEF place, order, n
<1>10. \A i \in S : Walk(cur)[i] = i
  BY <1>7, <1>8, <1>9
<1> QED BY <1>3, <1>4, <1>5, <1>10 DEF Total, n

(* All that a query finds, each once and in its order; and its cut.         *)
IsAnswer(all, q) ==
  /\ all \in Seq(Nat) /\ Elements(all) = Found(q.filter)
  /\ RangesOverValues => Distinct(all)
  /\ IsSorted(all, q.sort)

Cuts(list, all, q) ==
  LET n == CutLength(Len(all), q.skip, IF q.limit = 0 THEN Unlimited ELSE q.limit)
  IN  /\ list \in Seq(Nat) /\ Len(list) = n
      /\ n \in Nat /\ n <= Len(all) /\ (n > 0 => n + q.skip <= Len(all))
      /\ \A i \in 1 .. n : list[i] = all[i + q.skip]

LEMMA ListIsCut ==
  ASSUME NEW q, q.skip \in Nat, q.limit \in Nat, NEW all \in Seq(Nat),
         NEW cur, cur = Cursor("sorted", all, Len(all), q, q.skip, q.limit)
  PROVE  Cuts(Drained(cur), all, q)
<1>1. /\ IsWalk(cur) /\ Total(cur) = Len(all)
      /\ \A i \in 1 .. Len(all) : RidAt(cur, Walk(cur)[i]) = all[i]
  BY SortedWalk
<1>2. cur.skip = q.skip /\ cur.left = IF q.limit = 0 THEN Unlimited ELSE q.limit
  BY CursorIs
<1> DEFINE n == CutLength(Total(cur), cur.skip, cur.left)
<1>3. /\ Drained(cur) \in Seq(Nat) /\ Len(Drained(cur)) = n
      /\ n \in Nat /\ n <= Total(cur) /\ (n > 0 => n + cur.skip <= Total(cur))
      /\ \A i \in 1 .. n : Drained(cur)[i] = RidAt(cur, Walk(cur)[i + cur.skip])
  BY <1>1, DrainedIs
<1>4. n = CutLength(Len(all), q.skip, IF q.limit = 0 THEN Unlimited ELSE q.limit)
  BY <1>1, <1>2
<1> HIDE DEF n
<1>5. ASSUME NEW i \in 1 .. n PROVE Drained(cur)[i] = all[i + q.skip]
  <2>1. i + q.skip \in 1 .. Len(all) /\ Len(all) \in Nat
    BY <1>1, <1>2, <1>3
  <2> QED BY <1>1, <1>2, <1>3, <2>1
<1> QED BY <1>1, <1>2, <1>3, <1>4, <1>5 DEF Cuts

(* Sorting what a source gives. *)
LEMMA SortedSource ==
  ASSUME PlainDocuments, PlainQueries, Settled, NEW q \in Queries,
         NEW kind, NEW list, NEW end, IsSource(kind, list, end, q.filter),
         NEW base, base = Cursor(kind, list, end, q, 0, 0),
         NEW all, all = StableSort(Drained(base), q.sort)
  PROVE  IsAnswer(all, q) /\ Cuts(Drained(Cursor("sorted", all, Len(all), q, q.skip, q.limit)), all, q)
<1> DEFINE rids == Drained(base)
<1>1. IsListed(rids) /\ Elements(rids) = Found(q.filter) /\ (RangesOverValues => Distinct(rids))
  BY SourceDrained
<1>2. IsSort(q.sort) /\ q.skip \in Nat /\ q.limit \in Nat
  BY DEF PlainQueries, IsSort
<1> DEFINE sorted == StableSort(rids, q.sort)
<1> HIDE DEF rids
<1>3. /\ sorted \in Seq(Nat)
      /\ \A i \in DOMAIN sorted : \E j \in DOMAIN rids : sorted[i] = rids[j]
      /\ \A j \in DOMAIN rids : \E i \in DOMAIN sorted : sorted[i] = rids[j]
      /\ Distinct(rids) => Distinct(sorted)
      /\ IsSorted(sorted, q.sort)
  BY <1>1, <1>2, StableSortIs
<1>4. all = sorted
  BY DEF rids
<1> HIDE DEF sorted
<1>5. Elements(sorted) = Elements(rids)
  BY <1>3 DEF Elements
<1>6. IsAnswer(all, q)
  BY <1>1, <1>3, <1>4, <1>5 DEF IsAnswer
<1>7. all \in Seq(Nat)
  BY <1>3, <1>4
<1> QED BY <1>2, <1>6, <1>7, ListIsCut

LEMMA BySortingIs ==
  ASSUME PlainIndexing, PlainQueries, Settled, NEW q \in Queries, NEW cur \in BySorting(q)
  PROVE  \E all, list : /\ IsAnswer(all, q) /\ Cuts(list, all, q)
                        /\ cur = Cursor("sorted", list, Len(list), q, 0, 0)
<1> DEFINE none == 0
<1>1. PICK base \in Unsorted(q, none, none) :
        cur = LET all == StableSort(Drained(base), q.sort)
                  list == Drained(Cursor("sorted", all, Len(all), q, q.skip, q.limit))
              IN  Cursor("sorted", list, Len(list), q, 0, 0)
  BY DEF BySorting
<1>2. PICK kind, list, end : IsSource(kind, list, end, q.filter) /\ base = Cursor(kind, list, end, q, none, none)
  <2> HIDE DEF none
  <2> QED BY UnsortedIs
<1> DEFINE all == StableSort(Drained(base), q.sort)
           cut == Drained(Cursor("sorted", all, Len(all), q, q.skip, q.limit))
<1>3. cur = Cursor("sorted", cut, Len(cut), q, 0, 0)
  BY <1>1
<1>4. PlainDocuments
  BY DEF PlainIndexing
<1> HIDE DEF all
<1>5. IsAnswer(all, q) /\ Cuts(cut, all, q)
  BY <1>2, <1>4, SortedSource DEF all
<1> HIDE DEF cut
<1> QED BY <1>3, <1>5

(* What is known of a cursor of find() when it is opened.                   *)
Whole(q) == q.skip = 0 /\ q.limit = 0

Opens(kind, list, end, q, skip, limit) ==
  /\ kind \in {"scan", "lookup", "sorted"} /\ list \in Seq(Nat) /\ end \in Nat
  /\ skip \in Nat /\ limit \in Nat
  /\ Whole(q) => skip = 0 /\ limit = 0
  /\ kind = "scan" => end = Len(slots)
  /\ kind # "scan" => /\ end = Len(list) /\ (RangesOverValues => Distinct(list))
                      /\ Whole(q) => HoldsMatches(list, q.filter)

LEMMA CutKeeps ==
  ASSUME NEW q \in Queries, q.skip \in Nat, NEW all, NEW list, IsAnswer(all, q), Cuts(list, all, q)
  PROVE  /\ list \in Seq(Nat) /\ (RangesOverValues => Distinct(list))
         /\ Whole(q) => HoldsMatches(list, q.filter)
<1> DEFINE n == CutLength(Len(all), q.skip, IF q.limit = 0 THEN Unlimited ELSE q.limit)
<1>1. /\ list \in Seq(Nat) /\ Len(list) = n /\ DOMAIN list = 1 .. n
      /\ n \in Nat /\ n <= Len(all) /\ (n > 0 => n + q.skip <= Len(all))
      /\ \A i \in 1 .. n : list[i] = all[i + q.skip]
  BY DEF Cuts
<1>2. all \in Seq(Nat) /\ Elements(all) = Found(q.filter) /\ (RangesOverValues => Distinct(all))
  BY DEF IsAnswer
<1>3. Whole(q) => n = Len(all)
  <2>1. Len(all) \in Nat
    BY <1>2
  <2> QED BY <2>1 DEF Whole, CutLength
<1> HIDE DEF n
<1>4. \A i \in 1 .. n : i + q.skip \in DOMAIN all
  BY <1>1, <1>2
<1>5. ASSUME RangesOverValues, NEW i \in DOMAIN list, NEW j \in DOMAIN list, list[i] = list[j]
      PROVE  i = j
  <2>1. i \in 1 .. n /\ j \in 1 .. n
    BY <1>1
  <2>2. all[i + q.skip] = all[j + q.skip]
    BY <1>1, <1>5, <2>1
  <2>3. i + q.skip = j + q.skip
    BY <1>2, <1>4, <1>5, <2>1, <2>2 DEF Distinct
  <2> QED BY <1>1, <2>1, <2>3
<1>6. ASSUME Whole(q), NEW p \in Live, Matches(slots[p].doc, q.filter)
      PROVE  \E i \in DOMAIN list : list[i] = slots[p].rid
  <2>1. slots[p].rid \in Found(q.filter)
    BY <1>6 DEF Found
  <2>2. PICK i \in DOMAIN all : all[i] = slots[p].rid
    BY <1>2, <2>1 DEF Elements
  <2>3. i \in 1 .. n /\ q.skip = 0 /\ i + q.skip = i
    BY <1>2, <1>3, <1>6, <2>2 DEF Whole
  <2> QED BY <1>1, <2>2, <2>3
<1> QED BY <1>1, <1>5, <1>6 DEF HoldsMatches, Distinct

LEMMA FindCases ==
  ASSUME NEW q \in Queries, NEW cur \in Find(q)
  PROVE  \/ q.sort = <<>> /\ cur \in Unsorted(q, q.skip, q.limit)
         \/ cur \in BySorting(q)
         \/ \E n \in SortIndexes(indexes, q.sort) : indexes[n].ordered /\ cur \in BySortIndex(n, q)
<1> DEFINE sortable == {n \in SortIndexes(indexes, q.sort) : indexes[n].ordered}
           mixed == SortIndexes(indexes, q.sort) \ sortable
           indexed == UNION {BySortIndex(n, q) : n \in sortable}
           either == IF mixed # {} \/ sortable = {} THEN BySorting(q) ELSE {}
<1>0. Find(q) = IF q.sort = <<>> THEN Unsorted(q, q.skip, q.limit) ELSE indexed \cup either
  BY DEF Find
<1> HIDE DEF either, indexed, mixed, sortable
<1>1. CASE q.sort = <<>>
  BY <1>0, <1>1
<1>2. CASE q.sort # <<>>
  <2>1. cur \in indexed \/ cur \in either
    BY <1>0, <1>2
  <2>2. cur \in indexed \/ cur \in BySorting(q)
    BY <2>1 DEF either
  <2>3. cur \in indexed => \E n \in sortable : cur \in BySortIndex(n, q)
    BY DEF indexed
  <2> QED BY <2>2, <2>3 DEF sortable
<1> QED BY <1>1, <1>2

LEMMA FindOpens ==
  ASSUME PlainWorkload, Settled, OrderedInv, NEW q \in Queries, NEW cur \in Find(q)
  PROVE  \E kind, list, end, skip, limit :
           Opens(kind, list, end, q, skip, limit) /\ cur = Cursor(kind, list, end, q, skip, limit)
<1>1. PlainIndexing /\ PlainQueries /\ q.skip \in Nat /\ q.limit \in Nat
  BY DEF PlainWorkload, PlainIndexing, PlainQueries
<1>2. ASSUME NEW kind, NEW list, NEW end, IsSource(kind, list, end, q.filter)
      PROVE  Opens(kind, list, end, q, q.skip, q.limit)
  BY <1>1, <1>2 DEF IsSource, Opens, Whole
<1>3. CASE cur \in Unsorted(q, q.skip, q.limit)
  <2>1. PICK kind, list, end : /\ IsSource(kind, list, end, q.filter)
                               /\ cur = Cursor(kind, list, end, q, q.skip, q.limit)
    BY <1>1, <1>3, UnsortedIs
  <2> QED BY <1>2, <2>1
<1>4. ASSUME NEW n \in SortIndexes(indexes, q.sort), indexes[n].ordered, cur \in BySortIndex(n, q)
      PROVE  \E kind, list, end, skip, limit :
               Opens(kind, list, end, q, skip, limit) /\ cur = Cursor(kind, list, end, q, skip, limit)
  <2>1. PICK list : /\ IsSource("lookup", list, Len(list), q.filter)
                    /\ cur = Cursor("lookup", list, Len(list), q, q.skip, q.limit)
    BY <1>1, <1>4, BySortIndexIs
  <2> QED BY <1>2, <2>1
<1>5. CASE cur \in BySorting(q)
  <2>1. PICK all, list : /\ IsAnswer(all, q) /\ Cuts(list, all, q)
                         /\ cur = Cursor("sorted", list, Len(list), q, 0, 0)
    BY <1>1, <1>5, BySortingIs
  <2>2. /\ list \in Seq(Nat) /\ (RangesOverValues => Distinct(list))
        /\ Whole(q) => HoldsMatches(list, q.filter)
    BY <1>1, <2>1, CutKeeps
  <2>3. Opens("sorted", list, Len(list), q, 0, 0)
    BY <2>2 DEF Opens
  <2> QED BY <2>1, <2>3
<1> QED BY <1>3, <1>4, <1>5, FindCases

-----------------------------------------------------------------------------
(* Open cursors.                                                            *)

IsCursor(cur) ==
  /\ cur = [kind |-> cur.kind, query |-> cur.query, list |-> cur.list, at |-> cur.at,
            end |-> cur.end, skip |-> cur.skip, left |-> cur.left, seen |-> cur.seen,
            steady |-> cur.steady]
  /\ cur.kind \in {"scan", "lookup", "sorted", "ended"} /\ cur.query \in Queries
  /\ cur.at \in Nat \ {0} /\ cur.end \in Nat /\ cur.skip \in Nat
  /\ cur.left \in Nat \cup {Unlimited} /\ cur.seen \in Seq(Nat)
  /\ cur.kind = "scan" => cur.end <= Len(slots)
  /\ cur.kind \in {"lookup", "sorted"} => cur.list \in Seq(Nat) /\ cur.end = Len(cur.list)

(* What it returned it has passed, and nothing comes at two places.         *)
ReturnsOnce(cur) ==
  /\ Distinct(cur.seen)
  /\ cur.kind # "ended" =>
       /\ \A p, q \in 1 .. cur.end : RidAt(cur, p) = RidAt(cur, q) => p = q
       /\ \A i \in DOMAIN cur.seen : \E p \in 1 .. cur.end : p < cur.at /\ RidAt(cur, p) = cur.seen[i]

(* What it has to return it has returned or has ahead.                      *)
MissesNothing(cur) ==
  Whole(cur.query) =>
    /\ cur.kind # "ended" => cur.skip = 0 /\ cur.left = Unlimited
    /\ \A r \in cur.steady :
         \/ \E i \in DOMAIN cur.seen : cur.seen[i] = r
         \/ cur.kind # "ended" /\ \E p \in cur.at .. cur.end : RidAt(cur, p) = r

GoodCursor(cur) ==
  /\ IsCursor(cur) /\ cur.steady \subseteq Found(cur.query.filter)
  /\ RangesOverValues => ReturnsOnce(cur)
  /\ MissesNothing(cur)

CursorInv ==
  /\ cursors = [c \in Cursors |-> cursors[c]]
  /\ \A c \in Cursors : cursors[c] = NoCursor \/ GoodCursor(cursors[c])

FindInv == StoreInv /\ OrderedInv /\ CursorInv

LEMMA OpensGood ==
  ASSUME Settled, NEW q \in Queries, NEW kind, NEW list, NEW end, NEW skip, NEW limit,
         Opens(kind, list, end, q, skip, limit),
         NEW cur, cur = Cursor(kind, list, end, q, skip, limit)
  PROVE  GoodCursor(cur) /\ cur.kind # "ended"
<1>1. /\ cur.kind = kind /\ cur.list = list /\ cur.at = 1 /\ cur.end = end
      /\ cur.query = q /\ cur.skip = skip /\ cur.seen = <<>> /\ cur.steady = Found(q.filter)
      /\ cur.left = IF limit = 0 THEN Unlimited ELSE limit
  BY CursorIs
<1>2. /\ kind \in {"scan", "lookup", "sorted"} /\ list \in Seq(Nat) /\ end \in Nat
      /\ skip \in Nat /\ limit \in Nat
      /\ kind = "scan" => end = Len(slots)
      /\ kind # "scan" => end = Len(list)
  BY DEF Opens
<1>3. slots \in Seq(Slots) /\ Len(slots) \in Nat /\ DOMAIN slots = 1 .. Len(slots)
  BY DEF Settled, StoreInv, TypeOK
<1>4. cur = [kind |-> cur.kind, query |-> cur.query, list |-> cur.list, at |-> cur.at,
             end |-> cur.end, skip |-> cur.skip, left |-> cur.left, seen |-> cur.seen,
             steady |-> cur.steady]
  BY DEF Cursor
<1>5. IsCursor(cur)
  BY <1>1, <1>2, <1>3, <1>4 DEF IsCursor
<1>6. \A p \in 1 .. end : RidAt(cur, p) = IF kind = "scan" THEN slots[p].rid ELSE list[p]
  BY <1>1 DEF RidAt
<1>7. RangesOverValues => ReturnsOnce(cur)
  <2> SUFFICES ASSUME RangesOverValues PROVE ReturnsOnce(cur)
    OBVIOUS
  <2>1. \A p, r \in 1 .. end : RidAt(cur, p) = RidAt(cur, r) => p = r
    <3>1. CASE kind = "scan"
      <4> SUFFICES ASSUME NEW p \in 1 .. end, NEW r \in 1 .. end, RidAt(cur, p) = RidAt(cur, r), p # r
                   PROVE  FALSE
        OBVIOUS
      <4>1. p \in DOMAIN slots /\ r \in DOMAIN slots /\ slots[p].rid = slots[r].rid
        BY <1>2, <1>3, <1>6, <3>1
      <4> QED BY <4>1, RidsDiffer DEF Settled, StoreInv
    <3>2. CASE kind # "scan"
      <4>1. Distinct(list) /\ DOMAIN list = 1 .. end
        BY <1>2, <3>2 DEF Opens
      <4> QED BY <1>6, <3>2, <4>1 DEF Distinct
    <3> QED BY <3>1, <3>2
  <2> QED BY <1>1, <2>1 DEF ReturnsOnce, Distinct
<1>8. MissesNothing(cur)
  <2> SUFFICES ASSUME Whole(q)
               PROVE  /\ cur.skip = 0 /\ cur.left = Unlimited
                      /\ \A r \in Found(q.filter) : \E p \in 1 .. end : RidAt(cur, p) = r
    BY <1>1, <1>2 DEF MissesNothing
  <2>1. cur.skip = 0 /\ cur.left = Unlimited
    BY <1>1 DEF Opens
  <2>2. ASSUME NEW r \in Found(q.filter) PROVE \E p \in 1 .. end : RidAt(cur, p) = r
    <3>1. PICK p \in Live : slots[p].rid = r /\ Matches(slots[p].doc, q.filter)
      BY FoundIs
    <3>2. CASE kind = "scan"
      BY <1>2, <1>3, <1>6, <3>1, <3>2 DEF Live
    <3>3. CASE kind # "scan"
      <4>1. HoldsMatches(list, q.filter) /\ DOMAIN list = 1 .. end
        BY <1>2, <3>3 DEF Opens
      <4> QED BY <1>6, <3>1, <3>3, <4>1 DEF HoldsMatches
    <3> QED BY <3>2, <3>3
  <2> QED BY <2>1, <2>2
<1> QED BY <1>1, <1>2, <1>5, <1>7, <1>8 DEF GoodCursor

(* A document the cursor has ahead and must return is one it would return.  *)
LEMMA SteadyIsAhead ==
  ASSUME Settled, NEW cur, GoodCursor(cur), cur.kind # "ended",
         NEW p \in cur.at .. cur.end, RidAt(cur, p) \in cur.steady
  PROVE  p \in Ahead(cur)
<1>1. PICK i \in Live : slots[i].rid = RidAt(cur, p) /\ Matches(slots[i].doc, cur.query.filter)
  BY FoundIs DEF GoodCursor
<1>2. cur.kind \in {"scan", "lookup", "sorted"} /\ cur.at \in Nat \ {0} /\ cur.end \in Nat
  BY DEF GoodCursor, IsCursor
<1>3. CASE cur.kind = "scan"
  <2>1. cur.end <= Len(slots) /\ slots \in Seq(Slots)
    BY <1>3 DEF GoodCursor, IsCursor, Settled, StoreInv, TypeOK
  <2>2. p \in DOMAIN slots /\ i \in DOMAIN slots /\ slots[i].rid = slots[p].rid
    BY <1>1, <1>2, <1>3, <2>1 DEF RidAt, Live
  <2>3. p = i
    BY <2>2, RidsDiffer DEF Settled, StoreInv
  <2> QED BY <1>1, <1>3, <2>3 DEF Ahead, Yields, Live
<1>4. CASE cur.kind = "lookup"
  BY <1>1, <1>4 DEF Ahead, Yields, RidAt
<1>5. CASE cur.kind = "sorted"
  BY <1>5 DEF Ahead, Yields
<1> QED BY <1>2, <1>3, <1>4, <1>5

(* Without skip, the next document is the first ahead. *)
LEMMA NextIsFirst ==
  ASSUME NEW cur, IsCursor(cur), cur.skip = 0, cur.left = Unlimited
  PROVE  /\ \A p : IsNext(cur, p) <=> p \in Ahead(cur) /\ \A q \in Ahead(cur) : p <= q
         /\ Ahead(cur) # {} => \E p \in Ahead(cur) : IsNext(cur, p)
<1>1. cur.at \in Nat /\ cur.end \in Nat /\ Ahead(cur) \subseteq cur.at .. cur.end
  BY DEF IsCursor, Ahead
<1>2. Ahead(cur) \subseteq Nat
  BY <1>1
<1>3. ASSUME NEW p \in Ahead(cur)
      PROVE  Cardinality({q \in Ahead(cur) : q < p}) = 0 <=> \A q \in Ahead(cur) : p <= q
  <2> DEFINE before == {q \in Ahead(cur) : q < p}
             low == cur.at
             high == cur.end
  <2>1. IsFiniteSet(cur.at .. cur.end)
    <3>1. low \in Int /\ high \in Int
      BY <1>1
    <3> HIDE DEF low, high
    <3>2. IsFiniteSet(low .. high)
      BY <3>1, FS_Interval
    <3> QED BY <3>2 DEF low, high
  <2>2. before \in SUBSET (cur.at .. cur.end)
    BY <1>1
  <2>3. before = {} <=> \A q \in Ahead(cur) : p <= q
    BY <1>2
  <2> HIDE DEF before
  <2>4. IsFiniteSet(before)
    BY <2>1, <2>2, FS_Subset
  <2>5. Cardinality(before) = 0 <=> before = {}
    BY <2>4, FS_EmptySet
  <2> QED BY <2>3, <2>5 DEF before
<1>4. \A p : IsNext(cur, p) <=> p \in Ahead(cur) /\ \A q \in Ahead(cur) : p <= q
  BY <1>3 DEF IsNext, Unlimited
<1>5. ASSUME Ahead(cur) # {} PROVE \E p \in Ahead(cur) : IsNext(cur, p)
  <2>1. PICK p \in Ahead(cur) : \A q \in Ahead(cur) : p <= q
    BY <1>2, <1>5, LeastNumber
  <2> QED BY <1>4, <2>1
<1> QED BY <1>4, <1>5

(* has_next(): the cursor passes nothing that it has to return.             *)
LEMMA SettleGood ==
  ASSUME Settled, NEW cur, GoodCursor(cur), cur.kind # "ended"
  PROVE  /\ GoodCursor(Settle(cur))
         /\ Settle(cur).kind # "ended" =>
              Settle(cur).at <= Settle(cur).end /\ Settle(cur).left # 0
<1> DEFINE moves == \E p \in Ahead(cur) : IsNext(cur, p)
           new == Settle(cur)
<1>1. IsCursor(cur) /\ cur.at \in Nat \ {0} /\ cur.end \in Nat
  BY DEF GoodCursor, IsCursor
<1>2. CASE ~moves
  <2>1. new = [cur EXCEPT !.kind = "ended"]
    BY <1>2 DEF Settle
  <2>2. /\ new.kind = "ended" /\ new.query = cur.query /\ new.seen = cur.seen /\ new.steady = cur.steady
        /\ IsCursor(new)
    <3> HIDE DEF new, moves
    <3> QED BY <1>1, <2>1 DEF IsCursor
  <2> HIDE DEF new
  <2>3. RangesOverValues => ReturnsOnce(new)
    BY <2>2 DEF GoodCursor, ReturnsOnce
  <2>4. MissesNothing(new)
    <3> SUFFICES ASSUME Whole(cur.query), NEW r \in cur.steady
                 PROVE  \E i \in DOMAIN cur.seen : cur.seen[i] = r
      BY <2>2 DEF MissesNothing
    <3>1. /\ cur.skip = 0 /\ cur.left = Unlimited
          /\ \/ \E i \in DOMAIN cur.seen : cur.seen[i] = r
             \/ \E p \in cur.at .. cur.end : RidAt(cur, p) = r
      BY DEF GoodCursor, MissesNothing
    <3>2. Ahead(cur) = {}
      BY <1>1, <1>2, <3>1, NextIsFirst
    <3> QED BY <3>1, <3>2, SteadyIsAhead
  <2> QED BY <2>2, <2>3, <2>4 DEF GoodCursor, new
<1>3. CASE moves
  <2> DEFINE p == CHOOSE x \in Ahead(cur) : IsNext(cur, x)
  <2>1. p \in Ahead(cur) /\ IsNext(cur, p)
    BY <1>3
  <2>2. new = [cur EXCEPT !.at = p, !.skip = 0]
    BY <1>3 DEF Settle
  <2> HIDE DEF p, new, moves
  <2>3. p \in cur.at .. cur.end /\ cur.left # 0
    BY <2>1 DEF Ahead, IsNext
  <2>4. p \in Nat \ {0} /\ cur.at <= p /\ p <= cur.end
    BY <1>1, <2>3
  <2>5. /\ new.kind = cur.kind /\ new.query = cur.query /\ new.list = cur.list /\ new.at = p
        /\ new.end = cur.end /\ new.skip = 0 /\ new.left = cur.left /\ new.seen = cur.seen
        /\ new.steady = cur.steady
        /\ new = [kind |-> new.kind, query |-> new.query, list |-> new.list, at |-> new.at,
                  end |-> new.end, skip |-> new.skip, left |-> new.left, seen |-> new.seen,
                  steady |-> new.steady]
    BY <1>1, <2>2 DEF IsCursor
  <2>6. IsCursor(new)
    BY <1>1, <2>4, <2>5 DEF IsCursor
  <2>7. \A x : RidAt(new, x) = RidAt(cur, x)
    BY <2>5 DEF RidAt
  <2>8. RangesOverValues => ReturnsOnce(new)
    <3> SUFFICES ASSUME RangesOverValues PROVE ReturnsOnce(new)
      OBVIOUS
    <3>1. ReturnsOnce(cur)
      BY DEF GoodCursor
    <3>2. \A x \in 1 .. cur.end : x < cur.at => x < p
      BY <1>1, <2>4
    <3> QED BY <2>5, <2>7, <3>1, <3>2 DEF ReturnsOnce
  <2>9. MissesNothing(new)
    <3> SUFFICES ASSUME Whole(cur.query)
                 PROVE  /\ cur.left = Unlimited
                        /\ \A r \in cur.steady :
                             \/ \E i \in DOMAIN cur.seen : cur.seen[i] = r
                             \/ \E x \in p .. cur.end : RidAt(cur, x) = r
      BY <2>5, <2>7 DEF MissesNothing
    <3>1. /\ cur.skip = 0 /\ cur.left = Unlimited
          /\ \A r \in cur.steady :
               \/ \E i \in DOMAIN cur.seen : cur.seen[i] = r
               \/ \E x \in cur.at .. cur.end : RidAt(cur, x) = r
      BY DEF GoodCursor, MissesNothing
    <3>2. \A x \in Ahead(cur) : p <= x
      BY <1>1, <2>1, <3>1, NextIsFirst
    <3>3. ASSUME NEW r \in cur.steady, NEW x \in cur.at .. cur.end, RidAt(cur, x) = r
          PROVE  x \in p .. cur.end
      <4>1. p <= x
        BY <3>2, <3>3, SteadyIsAhead
      <4> QED BY <1>1, <2>4, <4>1
    <3> QED BY <3>1, <3>3
  <2> QED BY <2>3, <2>4, <2>5, <2>6, <2>8, <2>9 DEF GoodCursor, new
<1> QED BY <1>2, <1>3

(* next(): what it returns it had not returned.                             *)
LEMMA AdvanceGood ==
  ASSUME Settled, NEW cur, GoodCursor(cur), cur.kind # "ended", cur.at <= cur.end, cur.left # 0
  PROVE  GoodCursor(Advance(cur)) /\ Advance(cur).kind # "ended"
<1> DEFINE new == Advance(cur)
           rid == RidAt(cur, cur.at)
           left == IF cur.left = Unlimited THEN cur.left ELSE cur.left - 1
           n == Len(cur.seen)
<1>1. /\ IsCursor(cur) /\ cur.at \in Nat \ {0} /\ cur.end \in Nat /\ cur.seen \in Seq(Nat)
      /\ cur.left \in Nat \cup {Unlimited} /\ n \in Nat
  BY DEF GoodCursor, IsCursor
<1>2. rid \in Nat
  <2>1. CASE cur.kind = "scan"
    <3>1. cur.at \in DOMAIN slots
      BY <1>1, <2>1 DEF IsCursor, Settled, StoreInv, TypeOK
    <3> QED BY <2>1, <3>1, LiveSlot DEF RidAt, Settled, StoreInv
  <2>2. CASE cur.kind # "scan"
    BY <1>1, <2>2 DEF IsCursor, RidAt
  <2> QED BY <2>1, <2>2
<1>3. left \in Nat \cup {Unlimited} /\ (cur.left = Unlimited => left = Unlimited)
  BY <1>1
<1>4. new = [cur EXCEPT !.seen = Append(cur.seen, rid), !.at = cur.at + 1, !.left = left]
  BY DEF Advance
<1> HIDE DEF new, left, rid
<1>5. /\ new.kind = cur.kind /\ new.query = cur.query /\ new.list = cur.list /\ new.at = cur.at + 1
      /\ new.end = cur.end /\ new.skip = cur.skip /\ new.left = left
      /\ new.seen = Append(cur.seen, rid) /\ new.steady = cur.steady
      /\ new = [kind |-> new.kind, query |-> new.query, list |-> new.list, at |-> new.at,
                end |-> new.end, skip |-> new.skip, left |-> new.left, seen |-> new.seen,
                steady |-> new.steady]
  BY <1>1, <1>4 DEF IsCursor
<1>6. /\ new.seen \in Seq(Nat) /\ DOMAIN new.seen = 1 .. n + 1 /\ new.seen[n + 1] = rid
      /\ DOMAIN cur.seen = 1 .. n /\ \A i \in 1 .. n : new.seen[i] = cur.seen[i]
  BY <1>1, <1>2, <1>5
<1>7. IsCursor(new)
  BY <1>1, <1>3, <1>5, <1>6 DEF IsCursor
<1>8. \A x : RidAt(new, x) = RidAt(cur, x)
  BY <1>5 DEF RidAt
<1> HIDE DEF n
<1>9. RangesOverValues => ReturnsOnce(new)
  <2> SUFFICES ASSUME RangesOverValues PROVE ReturnsOnce(new)
    OBVIOUS
  <2>1. /\ Distinct(cur.seen)
        /\ \A p, q \in 1 .. cur.end : RidAt(cur, p) = RidAt(cur, q) => p = q
        /\ \A i \in 1 .. n : \E p \in 1 .. cur.end : p < cur.at /\ RidAt(cur, p) = cur.seen[i]
    BY <1>6 DEF GoodCursor, ReturnsOnce
  <2>2. cur.at \in 1 .. cur.end
    BY <1>1
  <2>3. \A i \in 1 .. n : cur.seen[i] # rid
    BY <2>1, <2>2 DEF rid
  <2>4. Distinct(new.seen)
    <3> SUFFICES ASSUME NEW i \in 1 .. n + 1, NEW j \in 1 .. n + 1, new.seen[i] = new.seen[j]
                 PROVE  i = j
      BY <1>6 DEF Distinct
    <3>1. i \in 1 .. n \/ i = n + 1
      BY <1>1
    <3>2. j \in 1 .. n \/ j = n + 1
      BY <1>1
    <3> QED BY <1>6, <2>1, <2>3, <3>1, <3>2 DEF Distinct
  <2>5. ASSUME NEW i \in 1 .. n + 1
        PROVE  \E p \in 1 .. cur.end : p < cur.at + 1 /\ RidAt(cur, p) = new.seen[i]
    <3>1. CASE i \in 1 .. n
      <4>1. PICK p \in 1 .. cur.end : p < cur.at /\ RidAt(cur, p) = cur.seen[i]
        BY <2>1, <3>1
      <4>2. p < cur.at + 1
        BY <1>1, <4>1
      <4> QED BY <1>6, <3>1, <4>1, <4>2
    <3>2. CASE i = n + 1
      <4>1. cur.at < cur.at + 1
        BY <1>1
      <4> QED BY <1>6, <2>2, <3>2, <4>1 DEF rid
    <3> QED BY <1>1, <3>1, <3>2
  <2>6. \A p, q \in 1 .. new.end : RidAt(new, p) = RidAt(new, q) => p = q
    BY <1>5, <1>8, <2>1
  <2>7. \A i \in DOMAIN new.seen : \E p \in 1 .. new.end : p < new.at /\ RidAt(new, p) = new.seen[i]
    BY <1>5, <1>6, <1>8, <2>5
  <2> QED BY <2>4, <2>6, <2>7 DEF ReturnsOnce
<1>10. MissesNothing(new)
  <2> SUFFICES ASSUME Whole(cur.query)
               PROVE  /\ cur.skip = 0 /\ left = Unlimited
                      /\ \A r \in cur.steady :
                           \/ \E i \in 1 .. n + 1 : new.seen[i] = r
                           \/ \E x \in cur.at + 1 .. cur.end : RidAt(cur, x) = r
    BY <1>5, <1>6, <1>8 DEF MissesNothing
  <2>1. /\ cur.skip = 0 /\ cur.left = Unlimited
        /\ \A r \in cur.steady :
             \/ \E i \in 1 .. n : cur.seen[i] = r
             \/ \E x \in cur.at .. cur.end : RidAt(cur, x) = r
    BY <1>6 DEF GoodCursor, MissesNothing
  <2>2. ASSUME NEW r \in cur.steady
        PROVE  \/ \E i \in 1 .. n + 1 : new.seen[i] = r
               \/ \E x \in cur.at + 1 .. cur.end : RidAt(cur, x) = r
    <3>1. CASE \E i \in 1 .. n : cur.seen[i] = r
      <4>1. PICK i \in 1 .. n : cur.seen[i] = r
        BY <3>1
      <4>2. i \in 1 .. n + 1
        BY <1>1
      <4> QED BY <1>6, <4>1, <4>2
    <3>2. ASSUME NEW x \in cur.at .. cur.end, RidAt(cur, x) = r
          PROVE  \/ \E i \in 1 .. n + 1 : new.seen[i] = r
                 \/ \E y \in cur.at + 1 .. cur.end : RidAt(cur, y) = r
      <4>1. CASE x = cur.at
        <5>1. n + 1 \in 1 .. n + 1
          BY <1>1
        <5> QED BY <1>6, <3>2, <4>1, <5>1 DEF rid
      <4>2. CASE x # cur.at
        <5>1. x \in cur.at + 1 .. cur.end
          BY <1>1, <4>2
        <5> QED BY <3>2, <5>1
      <4> QED BY <4>1, <4>2
    <3> QED BY <2>1, <3>1, <3>2
  <2> QED BY <1>3, <2>1, <2>2
<1> QED BY <1>5, <1>7, <1>9, <1>10 DEF GoodCursor, new

-----------------------------------------------------------------------------
(* Writes between the batches of a cursor.                                  *)

(* Slots keep their record ids, and a cursor needs no more of a document    *)
(* that does not match any longer.                                          *)
KeepsRids ==
  /\ Len(slots) <= Len(slots')
  /\ \A p \in DOMAIN slots : slots'[p].rid = slots[p].rid

LEMMA GoodStays ==
  ASSUME TypeOK, TypeOK', KeepsRids, NEW cur, GoodCursor(cur),
         NEW S, S \subseteq cur.steady, S \subseteq Found(cur.query.filter)',
         NEW new, new = [cur EXCEPT !.steady = S]
  PROVE  GoodCursor(new)'
<1>1. /\ IsCursor(cur) /\ cur.at \in Nat \ {0} /\ cur.end \in Nat
      /\ Len(slots) \in Nat /\ Len(slots') \in Nat /\ DOMAIN slots = 1 .. Len(slots)
  BY DEF GoodCursor, IsCursor, TypeOK
<1>2. /\ new.kind = cur.kind /\ new.query = cur.query /\ new.list = cur.list /\ new.at = cur.at
      /\ new.end = cur.end /\ new.skip = cur.skip /\ new.left = cur.left /\ new.seen = cur.seen
      /\ new.steady = S
      /\ new = [kind |-> new.kind, query |-> new.query, list |-> new.list, at |-> new.at,
                end |-> new.end, skip |-> new.skip, left |-> new.left, seen |-> new.seen,
                steady |-> new.steady]
  BY <1>1 DEF IsCursor
<1>3. IsCursor(new)'
  BY <1>1, <1>2 DEF IsCursor, KeepsRids
<1>4. ASSUME NEW p \in 1 .. cur.end, cur.kind # "ended" PROVE RidAt(new, p)' = RidAt(cur, p)
  <2>1. CASE cur.kind = "scan"
    <3>1. p \in DOMAIN slots
      BY <1>1, <2>1 DEF IsCursor
    <3> QED BY <1>2, <2>1, <3>1 DEF RidAt, KeepsRids
  <2>2. CASE cur.kind # "scan"
    BY <1>2, <2>2 DEF RidAt
  <2> QED BY <2>1, <2>2
<1>5. RangesOverValues => ReturnsOnce(new)'
  <2> SUFFICES ASSUME RangesOverValues PROVE ReturnsOnce(new)'
    OBVIOUS
  <2>1. ReturnsOnce(cur)
    BY DEF GoodCursor
  <2> QED BY <1>2, <1>4, <2>1 DEF ReturnsOnce
<1>6. MissesNothing(new)'
  <2> SUFFICES ASSUME Whole(cur.query)
               PROVE  /\ cur.kind # "ended" => cur.skip = 0 /\ cur.left = Unlimited
                      /\ \A r \in S :
                           \/ \E i \in DOMAIN cur.seen : cur.seen[i] = r
                           \/ cur.kind # "ended" /\ \E p \in cur.at .. cur.end : RidAt(new, p)' = r
    BY <1>2 DEF MissesNothing
  <2>1. /\ cur.kind # "ended" => cur.skip = 0 /\ cur.left = Unlimited
        /\ \A r \in cur.steady :
             \/ \E i \in DOMAIN cur.seen : cur.seen[i] = r
             \/ cur.kind # "ended" /\ \E p \in cur.at .. cur.end : RidAt(cur, p) = r
    BY DEF GoodCursor, MissesNothing
  <2>2. \A p \in cur.at .. cur.end : p \in 1 .. cur.end
    BY <1>1
  <2> QED BY <1>4, <2>1, <2>2
<1> QED BY <1>2, <1>3, <1>5, <1>6 DEF GoodCursor

(* A step that leaves the cursors alone, and unmatches no document. *)
LEMMA OthersKeepCursors ==
  ASSUME TypeOK, TypeOK', CursorInv, KeepsRids, UNCHANGED cursors,
         \A f : Found(f) \subseteq Found(f)'
  PROVE  CursorInv'
<1>1. cursors' = [c \in Cursors |-> cursors'[c]]
  BY DEF CursorInv
<1>2. ASSUME NEW c \in Cursors, cursors[c] # NoCursor PROVE GoodCursor(cursors[c])'
  <2> PICK cur : cur = cursors[c]
    OBVIOUS
  <2>1. GoodCursor(cur)
    BY <1>2 DEF CursorInv
  <2>2. cur = [cur EXCEPT !.steady = cur.steady]
    BY <2>1 DEF GoodCursor, IsCursor
  <2>3. cur.steady \subseteq Found(cur.query.filter)'
    BY <2>1 DEF GoodCursor
  <2>4. GoodCursor(cur)'
    BY <2>1, <2>2, <2>3, GoodStays
  <2> QED BY <2>4
<1> QED BY <1>1, <1>2 DEF CursorInv

LEMMA ClosedStays == [NoCursor EXCEPT !.steady = {}] = NoCursor
<1>1. ASSUME NEW r, r = [kind |-> "none", steady |-> {}]
      PROVE  [r EXCEPT !.steady = {}] = r
  BY <1>1
<1> QED BY <1>1 DEF NoCursor

(* A step that takes documents from what the cursors have to return.        *)
LEMMA DisturbKeepsCursors ==
  ASSUME TypeOK, TypeOK', CursorInv, KeepsRids, NEW S,
         cursors' = [c \in Cursors |-> [cursors[c] EXCEPT !.steady = S[c]]],
         \A c \in Cursors : S[c] \subseteq cursors[c].steady,
         \A c \in Cursors : \A f : cursors[c] # NoCursor /\ f = cursors[c].query.filter =>
           \A r \in S[c] : r \in Found(f) => r \in Found(f)'
  PROVE  CursorInv'
<1>1. cursors' = [c \in Cursors |-> cursors'[c]]
  OBVIOUS
<1>2. ASSUME NEW c \in Cursors PROVE cursors'[c] = NoCursor \/ GoodCursor(cursors[c])'
  <2>1. CASE cursors[c] = NoCursor
    <3>1. S[c] = {}
      BY <2>1 DEF NoCursor
    <3>2. cursors'[c] = [cursors[c] EXCEPT !.steady = S[c]]
      OBVIOUS
    <3>3. [NoCursor EXCEPT !.steady = {}] = NoCursor
      BY ClosedStays
    <3>4. cursors'[c] = [NoCursor EXCEPT !.steady = {}]
      BY <2>1, <3>1, <3>2
    <3> QED BY <3>3, <3>4
  <2>2. CASE cursors[c] # NoCursor
    <3>1. PICK cur : cur = cursors[c]
      OBVIOUS
    <3>2. PICK lasts : lasts = S[c]
      OBVIOUS
    <3>3. PICK new : new = [cur EXCEPT !.steady = lasts]
      OBVIOUS
    <3>4. GoodCursor(cur)
      BY <2>2, <3>1 DEF CursorInv
    <3>5. lasts \subseteq cur.steady
      BY <3>1, <3>2
    <3>6. lasts \subseteq Found(cur.query.filter)'
      BY <2>2, <3>1, <3>2, <3>4, <3>5 DEF GoodCursor
    <3>7. GoodCursor(new)'
      BY <3>3, <3>4, <3>5, <3>6, GoodStays
    <3>8. cursors'[c] = new
      BY <3>1, <3>2, <3>3
    <3> QED BY <3>7, <3>8
  <2> QED BY <2>1, <2>2
<1> QED BY <1>1, <1>2 DEF CursorInv

(* What is found stays found when documents are only added. *)
LEMMA AppendKeepsCursors ==
  ASSUME TypeOK, TypeOK', CursorInv, NEW doc, AppendDoc(doc), UNCHANGED cursors
  PROVE  CursorInv'
<1>1. slots \in Seq(Slots) /\ slots' = Append(slots, [rid |-> nextRid, doc |-> doc, deleted |-> FALSE])
  BY DEF TypeOK, AppendDoc
<1>2. /\ Len(slots) <= Len(slots')
      /\ \A p \in DOMAIN slots : p \in DOMAIN slots' /\ slots'[p] = slots[p]
  BY <1>1
<1>3. ASSUME NEW f, NEW r \in Found(f) PROVE r \in Found(f)'
  <2>1. PICK p \in Live : slots[p].rid = r /\ Matches(slots[p].doc, f)
    BY FoundIs
  <2>2. p \in Live' /\ slots'[p] = slots[p]
    BY <1>2 DEF Live
  <2> QED BY <2>1, <2>2 DEF Found
<1> QED BY <1>2, <1>3, OthersKeepCursors DEF KeepsRids

LEMMA SameKeepsCursors ==
  ASSUME TypeOK, TypeOK', CursorInv, UNCHANGED <<slots, cursors>>
  PROVE  CursorInv'
<1>1. Len(slots) <= Len(slots')
  BY DEF TypeOK
<1>2. \A f : Found(f) \subseteq Found(f)'
  BY DEF Found, Live
<1> QED BY <1>1, <1>2, OthersKeepCursors DEF KeepsRids

(* update: a cursor goes on to ask for the document if it still matches.    *)
LEMMA UpdateKeepsCursors ==
  ASSUME StoreInv, TypeOK', CursorInv, NEW p \in DOMAIN slots, UpdateOne(p)
  PROVE  CursorInv'
<1> DEFINE slot == slots[p]
           doc == ApplyUpdate(slot.doc, call.req.spec).doc
           S == [c \in Cursors |-> {r \in cursors[c].steady :
                                      r # slot.rid \/ Matches(doc, cursors[c].query.filter)}]
<1>1. TypeOK /\ slots \in Seq(Slots) /\ slot \in Slots /\ p \in Live
  BY LiveSlot DEF StoreInv, TypeOK, UpdateOne, IsNextHit, Hits
<1>2. slots' = [slots EXCEPT ![p].doc = doc]
  BY DEF UpdateOne
<1>3. CASE doc = slot.doc
  <2>1. UNCHANGED cursors
    BY <1>3 DEF UpdateOne
  <2>2. slots' = slots
    BY <1>1, <1>2, <1>3 DEF Slots
  <2> QED BY <1>1, <2>1, <2>2, SameKeepsCursors
<1>4. CASE doc # slot.doc
  <2>1. cursors' = [c \in Cursors |-> [cursors[c] EXCEPT !.steady = S[c]]]
    BY <1>4 DEF UpdateOne, Disturb
  <2>2. S = [c \in Cursors |-> {r \in cursors[c].steady :
                                  r # slot.rid \/ Matches(doc, cursors[c].query.filter)}]
    OBVIOUS
  <2> HIDE DEF doc, S
  <2>3. /\ DOMAIN slots' = DOMAIN slots /\ Len(slots') = Len(slots)
        /\ \A q \in DOMAIN slots : slots'[q].rid = slots[q].rid /\ slots'[q].deleted = slots[q].deleted
        /\ \A q \in DOMAIN slots : q # p => slots'[q].doc = slots[q].doc
        /\ slots'[p].doc = doc
    BY <1>1, <1>2 DEF Slots
  <2>4. Live' = Live /\ KeepsRids
    BY <1>1, <2>3 DEF Live, KeepsRids, TypeOK
  <2>5. \A c \in Cursors : S[c] \subseteq cursors[c].steady
    BY <2>2
  <2>6. ASSUME NEW c \in Cursors, NEW f, f = cursors[c].query.filter, NEW r \in S[c], r \in Found(f)
        PROVE  r \in Found(f)'
    <3>1. PICK q \in Live : slots[q].rid = r /\ Matches(slots[q].doc, f)
      BY <2>6, FoundIs
    <3>2. r # slot.rid \/ Matches(doc, f)
      BY <2>2, <2>6
    <3>3. Matches(slots'[q].doc, f) /\ slots'[q].rid = r /\ q \in Live'
      BY <2>3, <2>4, <3>1, <3>2 DEF Live
    <3> QED BY <3>3 DEF Found
  <2> QED BY <1>1, <2>1, <2>4, <2>5, <2>6, DisturbKeepsCursors
<1> QED BY <1>3, <1>4

(* erase: no cursor has to return the document any longer. *)
LEMMA EraseKeepsCursors ==
  ASSUME StoreInv, TypeOK', CursorInv, NEW p \in DOMAIN slots, EraseOne(p)
  PROVE  CursorInv'
<1> DEFINE rid == slots[p].rid
           S == [c \in Cursors |-> {r \in cursors[c].steady : r # rid}]
<1>1. TypeOK /\ slots \in Seq(Slots) /\ slots' = [slots EXCEPT ![p].deleted = TRUE]
  BY DEF StoreInv, TypeOK, EraseOne, Bury
<1>2. cursors' = [c \in Cursors |-> [cursors[c] EXCEPT !.steady = S[c]]]
  BY DEF EraseOne, Disturb
<1>3. S = [c \in Cursors |-> {r \in cursors[c].steady : r # rid}]
  OBVIOUS
<1> HIDE DEF S
<1>4. /\ DOMAIN slots' = DOMAIN slots /\ Len(slots') = Len(slots)
      /\ \A q \in DOMAIN slots : slots'[q].rid = slots[q].rid
      /\ \A q \in DOMAIN slots : q # p => slots'[q] = slots[q]
  BY <1>1 DEF Slots
<1>5. KeepsRids
  BY <1>1, <1>4 DEF KeepsRids
<1>6. \A c \in Cursors : S[c] \subseteq cursors[c].steady
  BY <1>3
<1>7. ASSUME NEW c \in Cursors, NEW f, NEW r \in S[c], r \in Found(f)
      PROVE  r \in Found(f)'
  <2>1. PICK q \in Live : slots[q].rid = r /\ Matches(slots[q].doc, f)
    BY <1>7, FoundIs
  <2>2. r # rid
    BY <1>3
  <2>3. q \in Live' /\ slots'[q] = slots[q]
    BY <1>4, <2>1, <2>2 DEF Live
  <2> QED BY <2>1, <2>3 DEF Found
<1> QED BY <1>1, <1>2, <1>5, <1>6, <1>7, DisturbKeepsCursors

-----------------------------------------------------------------------------
(* The steps of the cursors themselves.                                     *)

(* Only the cursor c changes, and it is closed or good. *)
LEMMA OneCursorChanges ==
  ASSUME CursorInv, UNCHANGED slots, NEW c \in Cursors, NEW new,
         cursors' = [cursors EXCEPT ![c] = new], new = NoCursor \/ GoodCursor(new)
  PROVE  CursorInv'
<1>1. \A cur : GoodCursor(cur)' <=> GoodCursor(cur)
  BY DEF GoodCursor, IsCursor, ReturnsOnce, MissesNothing, RidAt, Found, Live
<1>2. cursors' = [d \in Cursors |-> cursors'[d]]
  BY DEF CursorInv
<1>3. ASSUME NEW d \in Cursors PROVE cursors'[d] = NoCursor \/ GoodCursor(cursors[d])'
  <2>1. PICK cur : cur = cursors'[d]
    OBVIOUS
  <2>2. cur = NoCursor \/ GoodCursor(cur)
    BY <2>1 DEF CursorInv
  <2> QED BY <1>1, <2>1, <2>2
<1> QED BY <1>2, <1>3 DEF CursorInv

LEMMA OpenKeepsCursors ==
  ASSUME PlainWorkload, FindInv, NEW c \in Cursors, NEW q \in Queries, OpenCursor(c, q)
  PROVE  CursorInv'
<1>1. Settled /\ OrderedInv /\ CursorInv /\ UNCHANGED slots
  BY DEF FindInv, Settled, OpenCursor
<1>2. PICK cur \in Find(q) : cursors' = [cursors EXCEPT ![c] = Settle(cur)]
  BY DEF OpenCursor
<1>3. GoodCursor(cur) /\ cur.kind # "ended"
  BY <1>1, FindOpens, OpensGood
<1>4. GoodCursor(Settle(cur))
  BY <1>1, <1>3, SettleGood
<1> QED BY <1>1, <1>2, <1>4, OneCursorChanges

LEMMA FetchKeepsCursors ==
  ASSUME FindInv, NEW c \in Cursors, Fetch(c)
  PROVE  CursorInv'
<1>1. Settled /\ CursorInv /\ UNCHANGED slots
  BY DEF FindInv, Settled, Fetch
<1> DEFINE old == cursors[c]
           cur == Settle(old)
           new == IF cur.kind = "ended" THEN cur ELSE Settle(Advance(cur))
<1>2. old.kind \in {"scan", "lookup", "sorted"} /\ cursors' = [cursors EXCEPT ![c] = new]
  BY DEF Fetch
<1>3. GoodCursor(old)
  BY <1>1, <1>2 DEF CursorInv, NoCursor
<1> HIDE DEF old
<1>4. GoodCursor(cur) /\ (cur.kind # "ended" => cur.at <= cur.end /\ cur.left # 0)
  BY <1>1, <1>2, <1>3, SettleGood
<1> HIDE DEF cur
<1>5. GoodCursor(new)
  <2>1. CASE cur.kind = "ended"
    BY <1>4, <2>1
  <2>2. CASE cur.kind # "ended"
    <3>1. GoodCursor(Advance(cur)) /\ Advance(cur).kind # "ended"
      BY <1>1, <1>4, <2>2, AdvanceGood
    <3>2. GoodCursor(Settle(Advance(cur)))
      BY <1>1, <3>1, SettleGood
    <3> QED BY <2>2, <3>2
  <2> QED BY <2>1, <2>2
<1> HIDE DEF new
<1> QED BY <1>1, <1>2, <1>5, OneCursorChanges

LEMMA CloseKeepsCursors ==
  ASSUME FindInv, NEW c \in Cursors, CloseCursor(c)
  PROVE  CursorInv'
<1>1. CursorInv /\ UNCHANGED slots /\ cursors' = [cursors EXCEPT ![c] = NoCursor]
  BY DEF FindInv, CloseCursor
<1> QED BY <1>1, OneCursorChanges

LEMMA NextKeepsFind == PlainWorkload /\ FindInv /\ [Next]_vars => FindInv'
<1> SUFFICES ASSUME PlainWorkload, FindInv, [Next]_vars PROVE FindInv'
  OBVIOUS
<1>1. StoreInv /\ OrderedInv /\ CursorInv /\ TypeOK
  BY DEF FindInv, StoreInv
<1>2. StoreInv' /\ TypeOK' /\ OrderedInv'
  BY <1>1, NextKeepsInv, NextKeepsOrder DEF StoreInv
<1> SUFFICES CursorInv'
  BY <1>2 DEF FindInv
<1>3. CASE UNCHANGED <<slots, cursors>>
  BY <1>1, <1>2, <1>3, SameKeepsCursors
<1>4. ASSUME NEW doc, AppendDoc(doc), UNCHANGED cursors PROVE CursorInv'
  BY <1>1, <1>2, <1>4, AppendKeepsCursors
<1>5. CASE InsertOne \/ \E oid \in Oids : Upsert(oid)
  <2>1. UNCHANGED cursors /\ (UNCHANGED slots \/ \E doc : AppendDoc(doc))
    BY <1>5 DEF InsertOne, Upsert
  <2> QED BY <1>3, <1>4, <2>1
<1>6. ASSUME NEW p \in DOMAIN slots, UpdateOne(p) \/ EraseOne(p) PROVE CursorInv'
  BY <1>1, <1>2, <1>6, UpdateKeepsCursors, EraseKeepsCursors
<1>7. ASSUME NEW c \in Cursors, (\E q \in Queries : OpenCursor(c, q)) \/ Fetch(c) \/ CloseCursor(c)
      PROVE  CursorInv'
  BY <1>7, OpenKeepsCursors, FetchKeepsCursors, CloseKeepsCursors
<1>8. CASE \/ \E w \in Calls : Begin(w)
           \/ InsertRefused \/ InsertEnds \/ UpdateEnds \/ EraseEnds \/ Return
           \/ RegisterIndex \/ FillEnds \/ DropOne \/ UNCHANGED vars
           \/ \E p \in DOMAIN slots : UpdateRefused(p) \/ FillOne(p) \/ FillRefused(p)
  <2>1. UNCHANGED <<slots, cursors>>
    BY <1>8 DEF Begin, InsertRefused, InsertEnds, UpdateEnds, EraseEnds, Return, RegisterIndex,
                FillEnds, DropOne, UpdateRefused, FillOne, FillRefused, vars
  <2> QED BY <1>3, <2>1
<1> QED BY <1>5, <1>6, <1>7, <1>8 DEF Next

LEMMA InitFind == Init => FindInv
<1> SUFFICES ASSUME Init PROVE FindInv
  OBVIOUS
<1>1. CursorInv
  BY DEF Init, CursorInv
<1> QED BY <1>1, InitInv, InitOrder DEF FindInv

(* Whatever is written between its batches, a cursor of find() passes only  *)
(* what it returned and no document it must return (MemoryIterator,         *)
(* IndexLookupIterator and VectorIterator over slots_ that writes change).   *)
THEOREM FindInvariantHolds ==
  ASSUME PlainWorkload
  PROVE  Spec => []FindInv
<1>1. FindInv /\ [Next]_vars => FindInv'
  BY NextKeepsFind
<1> QED BY <1>1, InitFind, PTL DEF Spec

(* A cursor without skip or limit that came to its end has returned every   *)
(* document that matched from its opening on (VectorIterator::settle over   *)
(* slots that only grow, and over lists of record ids looked up again).      *)
THEOREM CursorsMissNothing ==
  ASSUME PlainWorkload
  PROVE  Spec => []CursorMissesNothing
<1>1. FindInv => CursorMissesNothing
  <2> SUFFICES ASSUME FindInv, NEW c \in Cursors, cursors[c].kind = "ended",
                      cursors[c].query.skip = 0, cursors[c].query.limit = 0,
                      NEW r \in cursors[c].steady
               PROVE  \E i \in DOMAIN cursors[c].seen : cursors[c].seen[i] = r
    BY DEF CursorMissesNothing
  <2>1. MissesNothing(cursors[c])
    BY DEF FindInv, CursorInv, NoCursor, GoodCursor
  <2> QED BY <2>1 DEF MissesNothing, Whole
<1> QED BY <1>1, FindInvariantHolds, PTL

(* No cursor of find() returns a document twice, whatever is written between *)
(* its batches, where ranges are asked of values only.                       *)
THEOREM CursorsReturnOnce ==
  ASSUME PlainWorkload, RangesOverValues
  PROVE  Spec => []CursorReturnsOnce
<1>1. FindInv => CursorReturnsOnce
  BY DEF FindInv, CursorInv, GoodCursor, ReturnsOnce, Distinct, CursorReturnsOnce
<1> QED BY <1>1, FindInvariantHolds, PTL

-----------------------------------------------------------------------------
(* However find() is planned, it returns a cut of an answer, and answers    *)
(* differ at most in documents that sort alike.                             *)

(* All that a cursor has ahead, skip and limit apart. *)
Uncut(cur) == [i \in 1 .. Total(cur) |-> RidAt(cur, Walk(cur)[i])]

Answers(list, q) == \E all : IsAnswer(all, q) /\ Cuts(list, all, q)

LEMMA SourceAnswers ==
  ASSUME PlainQueries, Settled, NEW q \in Queries,
         NEW kind, NEW list, NEW end, IsSource(kind, list, end, q.filter),
         NEW cur, cur = Cursor(kind, list, end, q, q.skip, q.limit), IsSorted(Uncut(cur), q.sort)
  PROVE  Answers(Drained(cur), q)
<1> DEFINE all == Uncut(cur)
           total == Total(cur)
<1>1. q.skip \in Nat /\ q.limit \in Nat
  BY DEF PlainQueries
<1>2. IsWalk(cur) /\ Gives(cur, q.filter) /\ (RangesOverValues => WalksOnce(cur))
  BY <1>1, SourceGives
<1>3. /\ total \in Nat /\ Ahead(cur) \subseteq cur.at .. cur.end
      /\ \A i \in 1 .. total : Walk(cur)[i] \in Ahead(cur)
      /\ \A p \in Ahead(cur) : \E i \in 1 .. total : Walk(cur)[i] = p
      /\ \A i, j \in 1 .. total : i < j => Walk(cur)[i] < Walk(cur)[j]
      /\ \A p \in cur.at .. cur.end : RidAt(cur, p) \in Nat
      /\ cur.at \in Nat /\ cur.end \in Nat
  BY <1>2, WalkIs DEF IsWalk
<1> HIDE DEF total
<1>4. all = [i \in 1 .. total |-> RidAt(cur, Walk(cur)[i])]
  BY DEF Uncut, total
<1> HIDE DEF all
<1>5. /\ all \in Seq(Nat) /\ Len(all) = total /\ DOMAIN all = 1 .. total
      /\ \A i \in 1 .. total : all[i] = RidAt(cur, Walk(cur)[i])
  <2>1. \A i \in 1 .. total : RidAt(cur, Walk(cur)[i]) \in Nat
    BY <1>3
  <2> QED BY <1>3, <1>4, <2>1
<1>6. Elements(all) = Found(q.filter)
  <2>1. \A i \in DOMAIN all : \E p \in Ahead(cur) : all[i] = RidAt(cur, p)
    BY <1>3, <1>5
  <2>2. ASSUME NEW p \in Ahead(cur) PROVE \E i \in DOMAIN all : all[i] = RidAt(cur, p)
    <3>1. PICK i \in 1 .. total : Walk(cur)[i] = p
      BY <1>3
    <3>2. i \in DOMAIN all /\ all[i] = RidAt(cur, p)
      BY <1>5, <3>1
    <3> QED BY <3>2
  <2> QED BY <1>2, <2>1, <2>2 DEF Gives, Elements
<1>7. RangesOverValues => Distinct(all)
  <2> SUFFICES ASSUME RangesOverValues, NEW i \in 1 .. total, NEW j \in 1 .. total, all[i] = all[j]
               PROVE  i = j
    BY <1>5 DEF Distinct
  <2> DEFINE v == Walk(cur)[i]
             w == Walk(cur)[j]
  <2>1. v \in cur.at .. cur.end /\ w \in cur.at .. cur.end /\ RidAt(cur, v) = RidAt(cur, w)
    BY <1>3, <1>5
  <2>2. v = w
    BY <1>2, <2>1 DEF WalksOnce
  <2>3. (i < j => v < w) /\ (j < i => w < v) /\ v \in Int
    BY <1>3, <2>1
  <2> HIDE DEF v, w
  <2> QED BY <1>3, <2>2, <2>3
<1>8. IsAnswer(all, q)
  BY <1>5, <1>6, <1>7 DEF IsAnswer, all
<1>9. Cuts(Drained(cur), all, q)
  <2>1. cur.skip = q.skip /\ cur.left = IF q.limit = 0 THEN Unlimited ELSE q.limit
    BY CursorIs
  <2> DEFINE n == CutLength(total, cur.skip, cur.left)
  <2>2. /\ Drained(cur) \in Seq(Nat) /\ Len(Drained(cur)) = n
        /\ n \in Nat /\ n <= total /\ (n > 0 => n + cur.skip <= total)
        /\ \A i \in 1 .. n : Drained(cur)[i] = RidAt(cur, Walk(cur)[i + cur.skip])
    BY <1>2, DrainedIs DEF total
  <2>3. n = CutLength(Len(all), q.skip, IF q.limit = 0 THEN Unlimited ELSE q.limit)
    BY <1>5, <2>1
  <2> HIDE DEF n
  <2>4. ASSUME NEW i \in 1 .. n PROVE Drained(cur)[i] = all[i + q.skip]
    <3>1. i + q.skip \in 1 .. total
      <4>1. n > 0 /\ n + q.skip <= total /\ i <= n
        BY <2>1, <2>2
      <4>2. i \in Nat \ {0} /\ n \in Nat /\ q.skip \in Nat /\ total \in Nat
        BY <1>1, <1>3, <2>2
      <4> QED BY <4>1, <4>2
    <3> QED BY <1>5, <2>1, <2>2, <3>1
  <2> QED BY <1>5, <2>1, <2>2, <2>3, <2>4 DEF Cuts
<1> QED BY <1>8, <1>9 DEF Answers

(* The list that was cut when the cursor was opened is returned whole. *)
LEMMA ListIsWhole ==
  ASSUME NEW q, NEW list \in Seq(Nat), NEW cur, cur = Cursor("sorted", list, Len(list), q, 0, 0)
  PROVE  Drained(cur) = list
<1> DEFINE none == 0
<1>1. /\ IsWalk(cur) /\ Total(cur) = Len(list)
      /\ \A i \in 1 .. Len(list) : RidAt(cur, Walk(cur)[i]) = list[i]
  <2>1. none \in Nat /\ cur = Cursor("sorted", list, Len(list), q, none, none)
    OBVIOUS
  <2> HIDE DEF none
  <2> QED BY <2>1, SortedWalk
<1>2. cur.skip = 0 /\ cur.left = Unlimited
  BY CursorIs
<1> DEFINE n == CutLength(Total(cur), cur.skip, cur.left)
<1>3. n = Len(list)
  <2>1. Len(list) \in Nat
    OBVIOUS
  <2> QED BY <1>1, <1>2, <2>1 DEF CutLength
<1>4. /\ Drained(cur) \in Seq(Nat) /\ Len(Drained(cur)) = n
      /\ \A i \in 1 .. n : Drained(cur)[i] = RidAt(cur, Walk(cur)[i + cur.skip])
  BY <1>1, DrainedIs
<1> HIDE DEF n
<1>5. \A i \in 1 .. Len(list) : Drained(cur)[i] = list[i]
  BY <1>1, <1>2, <1>3, <1>4
<1> QED BY <1>3, <1>4, <1>5

(* Documents by their keys in an index on one path are sorted by that path. *)
LEMMA SlotOfRid ==
  ASSUME Settled, NEW p \in Live
  PROVE  SlotOf(slots[p].rid) = p
<1>1. p \in DOMAIN slots
  BY DEF Live
<1>2. \A i \in DOMAIN slots : slots[i].rid = slots[p].rid => i = p
  BY <1>1, RidsDiffer DEF Settled, StoreInv
<1> QED BY <1>1, <1>2 DEF SlotOf

LEMMA KeyIsSortValue ==
  ASSUME PlainIndexing, NEW d \in Docs, NEW path, <<path>> \in KeyPaths, ~HasArray(d, <<path>>),
         NEW k \in KeysOf(d, <<path>>)
  PROVE  k[1] = SortValue(d, path) /\ k[1] \in Int
<1> DEFINE paths == <<path>>
<1>1. 1 \in DOMAIN paths /\ paths[1] = path
  OBVIOUS
<1>2. IsField(d[path]) /\ d[path].kind # "array"
  <2>1. IsField(d[paths[1]])
    BY <1>1, PathsOfIndex DEF PlainIndexing, PlainDocuments
  <2> QED BY <1>1, <2>1 DEF HasArray
<1>3. k[1] \in ComponentValues(d[path])
  BY <1>1, KeysAre DEF PlainIndexing
<1>4. CASE d[path].kind = "absent"
  BY <1>2, <1>3, <1>4 DEF IsField, ComponentValues, SortValue, Nullish
<1>5. CASE d[path].kind = "one"
  <2>1. PICK v \in Nat : d[path].of = {v} /\ ComponentValues(d[path]) = {v}
    BY <1>2, <1>5, FieldValues
  <2>2. (CHOOSE w \in d[path].of : TRUE) = v
    BY <2>1
  <2> QED BY <1>3, <1>5, <2>1, <2>2 DEF SortValue
<1> QED BY <1>2, <1>4, <1>5 DEF IsField

LEMMA KeysSort ==
  ASSUME PlainIndexing, PlainQueries, Settled, OrderedInv, NEW q \in Queries,
         NEW n \in SortIndexes(indexes, q.sort), indexes[n].ordered,
         NEW list \in Seq(Nat), ByKey(list, n, ~q.sort[1].ascending), NEW end,
         IsSource("lookup", list, end, q.filter),
         NEW cur, cur = Cursor("lookup", list, end, q, q.skip, q.limit)
  PROVE  IsSorted(Uncut(cur), q.sort)
<1> DEFINE all == Uncut(cur)
           total == Total(cur)
           path == q.sort[1].path
           value(r) == SortValue(slots[SlotOf(r)].doc, path)
<1>1. /\ n \in Existing(indexes) /\ indexes[n].paths = <<path>> /\ Len(q.sort) = 1
      /\ <<path>> \in KeyPaths
  <2>1. Len(q.sort) = 1 /\ n \in Existing(indexes) /\ indexes[n].paths = <<path>>
    BY DEF SortIndexes, ByPaths
  <2> QED BY <2>1, ExistingIs
<1>2. OneKeyEach(n)
  BY <1>1, OrderedHasOneKey
<1>3. /\ IsWalk(cur) /\ Gives(cur, q.filter) /\ \A p : RidAt(cur, p) = list[p]
      /\ cur.at = 1 /\ cur.end = Len(list) /\ Len(list) \in Nat
  <2>1. q.skip \in Nat /\ q.limit \in Nat
    BY DEF PlainQueries
  <2>2. cur.kind = "lookup" /\ cur.list = list /\ cur.at = 1 /\ cur.end = end
    BY CursorIs
  <2> QED BY <2>1, <2>2, SourceGives DEF RidAt, IsSource
<1>4. /\ total \in Nat /\ Ahead(cur) \subseteq 1 .. Len(list)
      /\ \A i \in 1 .. total : Walk(cur)[i] \in Ahead(cur)
      /\ \A i, j \in 1 .. total : i < j => Walk(cur)[i] < Walk(cur)[j]
  BY <1>3, WalkIs
<1>5. all = [i \in 1 .. total |-> list[Walk(cur)[i]]]
  BY <1>3 DEF Uncut
<1> HIDE DEF all, total, path
<1>6. ASSUME NEW i \in 1 .. total
      PROVE  \E p \in Live : \E k \in KeysOf(slots[p].doc, indexes[n].paths) :
               all[i] = slots[p].rid /\ k[1] = value(all[i]) /\ k[1] \in Int
  <2>1. all[i] \in Found(q.filter)
    BY <1>3, <1>4, <1>5 DEF Gives
  <2>2. PICK p \in Live : slots[p].rid = all[i]
    BY <2>1, FoundIs
  <2>3. slots[p].doc \in Docs /\ ~HasArray(slots[p].doc, <<path>>)
    BY <1>1, <1>2, LiveDoc DEF OneKeyEach
  <2>4. PICK k : k \in KeysOf(slots[p].doc, <<path>>)
    BY <1>1, <2>3, KeysExist DEF PlainIndexing
  <2>5. k[1] = SortValue(slots[p].doc, path) /\ k[1] \in Int
    BY <1>1, <2>3, <2>4, KeyIsSortValue
  <2>6. SlotOf(all[i]) = p
    BY <2>2, SlotOfRid
  <2> QED BY <1>1, <2>2, <2>4, <2>5, <2>6
<1> SUFFICES ASSUME NEW i \in 1 .. total, NEW j \in 1 .. total, i < j,
                    SortsBefore(all[j], all[i], q.sort)
             PROVE  FALSE
  BY <1>5 DEF IsSorted, all
<1>7. /\ Walk(cur)[i] \in DOMAIN list /\ Walk(cur)[j] \in DOMAIN list
      /\ Walk(cur)[i] < Walk(cur)[j] /\ all[i] = list[Walk(cur)[i]] /\ all[j] = list[Walk(cur)[j]]
  BY <1>3, <1>4, <1>5
<1>8. PICK p \in Live : \E k \in KeysOf(slots[p].doc, indexes[n].paths) :
            all[i] = slots[p].rid /\ k[1] = value(all[i]) /\ k[1] \in Int
  BY <1>6
<1>8a. PICK k \in KeysOf(slots[p].doc, indexes[n].paths) :
             all[i] = slots[p].rid /\ k[1] = value(all[i]) /\ k[1] \in Int
  BY <1>8
<1>9. PICK r \in Live : \E l \in KeysOf(slots[r].doc, indexes[n].paths) :
            all[j] = slots[r].rid /\ l[1] = value(all[j]) /\ l[1] \in Int
  BY <1>6
<1>9a. PICK l \in KeysOf(slots[r].doc, indexes[n].paths) :
             all[j] = slots[r].rid /\ l[1] = value(all[j]) /\ l[1] \in Int
  BY <1>9
<1>10. IF ~q.sort[1].ascending THEN k[1] >= l[1] ELSE k[1] <= l[1]
  BY <1>7, <1>8a, <1>9a DEF ByKey
<1>11. IF q.sort[1].ascending THEN value(all[j]) < value(all[i]) ELSE value(all[j]) > value(all[i])
  <2>1. \A r1 : SortKey(r1, q.sort)[1] = value(r1)
    BY <1>1 DEF SortKey, SortValues, path
  <2>2. DOMAIN q.sort = {1}
    BY <1>1 DEF PlainQueries
  <2> HIDE DEF value
  <2> QED BY <2>1, <2>2 DEF SortsBefore, ValuesLess
<1> HIDE DEF value
<1> QED BY <1>8a, <1>9a, <1>10, <1>11

LEMMA FindAnswers ==
  ASSUME PlainWorkload, Settled, OrderedInv, NEW q \in Queries, NEW cur \in Find(q)
  PROVE  Answers(Drained(cur), q)
<1>1. PlainIndexing /\ PlainQueries
  BY DEF PlainWorkload, PlainIndexing
<1>2. CASE q.sort = <<>> /\ cur \in Unsorted(q, q.skip, q.limit)
  <2>1. PICK kind, list, end : /\ IsSource(kind, list, end, q.filter)
                               /\ cur = Cursor(kind, list, end, q, q.skip, q.limit)
    BY <1>1, <1>2, UnsortedIs
  <2>2. IsSorted(Uncut(cur), q.sort)
    BY <1>2 DEF IsSorted, SortsBefore, ValuesLess
  <2> QED BY <1>1, <2>1, <2>2, SourceAnswers
<1>3. ASSUME NEW n \in SortIndexes(indexes, q.sort), indexes[n].ordered, cur \in BySortIndex(n, q)
      PROVE  Answers(Drained(cur), q)
  <2>1. PICK list : /\ IsSource("lookup", list, Len(list), q.filter)
                    /\ ByKey(list, n, ~q.sort[1].ascending)
                    /\ cur = Cursor("lookup", list, Len(list), q, q.skip, q.limit)
    BY <1>1, <1>3, BySortIndexIs
  <2>2. PICK end : end = Len(list)
    OBVIOUS
  <2>3. list \in Seq(Nat)
    BY <2>1 DEF IsSource
  <2>4. IsSorted(Uncut(cur), q.sort)
    BY <1>1, <1>3, <2>1, <2>2, <2>3, KeysSort
  <2> QED BY <1>1, <2>1, <2>4, SourceAnswers
<1>4. CASE cur \in BySorting(q)
  <2>1. PICK all, list : /\ IsAnswer(all, q) /\ Cuts(list, all, q)
                         /\ cur = Cursor("sorted", list, Len(list), q, 0, 0)
    BY <1>1, <1>4, BySortingIs
  <2>2. list \in Seq(Nat)
    BY <2>1 DEF Cuts
  <2>3. Drained(cur) = list
    BY <2>1, <2>2, ListIsWhole
  <2> QED BY <2>1, <2>3 DEF Answers
<1>5. \/ q.sort = <<>> /\ cur \in Unsorted(q, q.skip, q.limit)
      \/ cur \in BySorting(q)
      \/ \E n \in SortIndexes(indexes, q.sort) : indexes[n].ordered /\ cur \in BySortIndex(n, q)
  BY FindCases
<1> QED BY <1>2, <1>3, <1>4, <1>5

LEMMA ReferenceAnswers ==
  ASSUME PlainDocuments, PlainQueries, Settled, NEW q \in Queries
  PROVE  Answers(Reference(q), q)
<1> DEFINE base == Scan(q, 0, 0)
           all == StableSort(Drained(base), q.sort)
           kind == "scan"
           list == <<>>
           end == Len(slots)
<1>1. Len(slots) \in Nat
  BY DEF Settled, StoreInv, TypeOK
<1>2. base = Cursor(kind, list, end, q, 0, 0) /\ IsSource(kind, list, end, q.filter)
  BY <1>1 DEF Scan, IsSource
<1> HIDE DEF kind, list, end, base
<1>3. IsAnswer(all, q) /\ Cuts(Drained(Cursor("sorted", all, Len(all), q, q.skip, q.limit)), all, q)
  BY <1>2, SortedSource
<1>4. Reference(q) = Drained(Cursor("sorted", all, Len(all), q, q.skip, q.limit))
  BY DEF Reference, base
<1> HIDE DEF all
<1> QED BY <1>3, <1>4 DEF Answers

(* The first m places of a have nothing twice, and only what is in the      *)
(* first n places of b; then they are not more.                              *)
OnceUpTo(a, m) == \A i, j \in 1 .. m : a[i] = a[j] => i = j
AllWithin(a, m, b, n) == \A i \in 1 .. m : \E j \in 1 .. n : a[i] = b[j]

LEMMA NotLonger ==
  ASSUME NEW m \in Nat, NEW n \in Nat, NEW a, NEW b, OnceUpTo(a, m), AllWithin(a, m, b, n)
  PROVE  m <= n
<1> SUFFICES ASSUME n < m PROVE FALSE
  OBVIOUS
<1> DEFINE S == 1 .. m
           T == 1 .. n
           f == [i \in S |-> CHOOSE j \in T : a[i] = b[j]]
<1>1. IsFiniteSet(S) /\ Cardinality(S) = m /\ IsFiniteSet(T) /\ Cardinality(T) = n
  <2>1. 1 \in Int /\ m \in Int /\ n \in Int
    OBVIOUS
  <2>2. /\ IsFiniteSet(1 .. m) /\ Cardinality(1 .. m) = IF 1 > m THEN 0 ELSE m - 1 + 1
        /\ IsFiniteSet(1 .. n) /\ Cardinality(1 .. n) = IF 1 > n THEN 0 ELSE n - 1 + 1
    BY <2>1, FS_Interval
  <2> QED BY <2>2
<1>2. \A i \in S : f[i] \in T /\ a[i] = b[f[i]]
  BY DEF AllWithin
<1>3. f \in [S -> T]
  BY <1>2
<1> HIDE DEF f, S, T
<1>4. PICK i \in S, j \in S : i # j /\ f[i] = f[j]
  BY <1>1, <1>3, FS_PigeonHole
<1> QED BY <1>2, <1>4 DEF S, OnceUpTo

(* Of two sorted lists of the same documents none is ahead at any place.    *)
LEMMA NotAhead ==
  ASSUME NEW sort, IsSort(sort), NEW m \in Nat, NEW a, NEW b,
         OnceUpTo(a, m), AllWithin(a, m, b, m),
         \A i \in 1 .. m : /\ SortKey(a[i], sort) \in [DOMAIN sort -> Int]
                          /\ SortKey(b[i], sort) \in [DOMAIN sort -> Int],
         \A i, j \in 1 .. m : i < j => /\ ~SortsBefore(a[j], a[i], sort)
                                      /\ ~SortsBefore(b[j], b[i], sort),
         NEW i \in 1 .. m
  PROVE  ~SortsBefore(a[i], b[i], sort)
<1> SUFFICES ASSUME SortsBefore(a[i], b[i], sort) PROVE FALSE
  OBVIOUS
<1> DEFINE V == [DOMAIN sort -> Int]
           less(u, v) == ValuesLess(u, v, sort)
           x(j) == SortKey(a[j], sort)
           y(j) == SortKey(b[j], sort)
<1>1. /\ \A v \in V : ~less(v, v)
      /\ \A u, v, w \in V : less(u, v) /\ less(v, w) => less(u, w)
      /\ \A v, w \in V : v = w \/ less(v, w) \/ less(w, v)
  BY ValuesLessIsOrder
<1>2. /\ \A j \in 1 .. m : x(j) \in V /\ y(j) \in V
      /\ \A j, k \in 1 .. m : j < k => ~less(x(k), x(j)) /\ ~less(y(k), y(j))
      /\ \A j, k \in 1 .. m : a[j] = b[k] => x(j) = y(k)
      /\ less(x(i), y(i))
  BY DEF SortsBefore
<1> HIDE DEF less, x, y, V
<1>3. ASSUME NEW j \in 1 .. i PROVE \E k \in 1 .. i - 1 : a[j] = b[k]
  <2>1. j \in 1 .. m /\ (j < i \/ j = i)
    OBVIOUS
  <2>2. PICK k \in 1 .. m : a[j] = b[k]
    BY <2>1 DEF AllWithin
  <2>3. ~less(x(i), x(j)) /\ x(j) = y(k)
    BY <1>1, <1>2, <2>1, <2>2
  <2>4. less(y(k), y(i))
    BY <1>1, <1>2, <2>1, <2>2, <2>3
  <2>5. ~(i < k) /\ i # k
    BY <1>1, <1>2, <2>4
  <2>6. k \in 1 .. i - 1
    BY <2>5
  <2> QED BY <2>2, <2>6
<1> DEFINE p == i - 1
<1>4. i \in Nat /\ p \in Nat /\ ~(i <= p) /\ \A j \in 1 .. i : j \in 1 .. m
  OBVIOUS
<1>5. OnceUpTo(a, i) /\ AllWithin(a, i, b, p)
  BY <1>3, <1>4 DEF OnceUpTo, AllWithin
<1> HIDE DEF p
<1> QED BY <1>4, <1>5, NotLonger

LEMMA AnswersAgree ==
  ASSUME PlainDocuments, PlainQueries, Settled, RangesOverValues, NEW q \in Queries,
         NEW a, IsAnswer(a, q), NEW b, IsAnswer(b, q)
  PROVE  /\ Len(a) = Len(b)
         /\ \A i \in 1 .. Len(a) : SortKey(a[i], q.sort) = SortKey(b[i], q.sort)
<1> DEFINE m == Len(a)
           n == Len(b)
           key(r) == SortKey(r, q.sort)
           less(r, s) == SortsBefore(r, s, q.sort)
<1>1. /\ m \in Nat /\ n \in Nat /\ DOMAIN a = 1 .. m /\ DOMAIN b = 1 .. n
      /\ OnceUpTo(a, m) /\ OnceUpTo(b, n)
      /\ \A i, j \in 1 .. m : i < j => ~less(a[j], a[i])
      /\ \A i, j \in 1 .. n : i < j => ~less(b[j], b[i])
      /\ Elements(a) = Found(q.filter) /\ Elements(b) = Found(q.filter)
  BY DEF IsAnswer, Distinct, IsSorted, OnceUpTo
<1> HIDE DEF m, n
<1>2. AllWithin(a, m, b, n) /\ AllWithin(b, n, a, m)
  <2>1. ASSUME NEW i \in 1 .. m PROVE \E j \in 1 .. n : a[i] = b[j]
    <3>1. a[i] \in Elements(b)
      BY <1>1 DEF Elements
    <3> QED BY <1>1, <3>1 DEF Elements
  <2>2. ASSUME NEW i \in 1 .. n PROVE \E j \in 1 .. m : b[i] = a[j]
    <3>1. b[i] \in Elements(a)
      BY <1>1 DEF Elements
    <3> QED BY <1>1, <3>1 DEF Elements
  <2> QED BY <2>1, <2>2 DEF AllWithin
<1>3. m <= n /\ n <= m
  BY <1>1, <1>2, NotLonger
<1>4. m = n
  BY <1>1, <1>3
<1>5. /\ \A i \in 1 .. m : key(a[i]) \in [DOMAIN q.sort -> Int]
      /\ \A i \in 1 .. n : key(b[i]) \in [DOMAIN q.sort -> Int]
  <2>1. ASSUME NEW r \in Found(q.filter) PROVE key(r) \in [DOMAIN q.sort -> Int]
    <3>1. PICK p \in Live : slots[p].rid = r
      BY FoundIs
    <3>2. slots[SlotOf(r)].doc \in Docs
      BY <3>1, SlotOfRid, LiveDoc
    <3>3. IsSort(q.sort)
      BY DEF PlainQueries, IsSort
    <3> QED BY <3>2, <3>3, SortValuesAre DEF SortKey
  <2> QED BY <1>1, <2>1 DEF Elements
<1>6. \A u, v \in [DOMAIN q.sort -> Int] : u = v \/ ValuesLess(u, v, q.sort) \/ ValuesLess(v, u, q.sort)
  <2>1. IsSort(q.sort)
    BY DEF PlainQueries, IsSort
  <2> QED BY <2>1, ValuesLessIsOrder
<1>7. \A i \in 1 .. m : key(a[i]) = key(b[i]) \/ less(a[i], b[i]) \/ less(b[i], a[i])
  BY <1>4, <1>5, <1>6 DEF SortsBefore
<1>8. ASSUME NEW i \in 1 .. m PROVE ~less(a[i], b[i]) /\ ~less(b[i], a[i])
  <2>1. IsSort(q.sort)
    BY DEF PlainQueries, IsSort
  <2>2. ~less(a[i], b[i])
    BY <1>1, <1>2, <1>4, <1>5, <2>1, NotAhead
  <2>3. ~less(b[i], a[i])
    BY <1>1, <1>2, <1>4, <1>5, <2>1, NotAhead
  <2> QED BY <2>2, <2>3
<1> QED BY <1>4, <1>7, <1>8 DEF m, n

(* What a cursor gives is as long as the scan's, without repetitions, of    *)
(* documents that match, and sorted like the scan's place by place.          *)
LEMMA CutsAgree ==
  ASSUME PlainDocuments, PlainQueries, Settled, RangesOverValues, NEW q \in Queries,
         NEW found, Answers(found, q), NEW wanted, Answers(wanted, q)
  PROVE  /\ Len(found) = Len(wanted) /\ Distinct(found)
         /\ \A i \in DOMAIN found :
              found[i] \in Found(q.filter) /\ SortKey(found[i], q.sort) = SortKey(wanted[i], q.sort)
<1>1. PICK a : IsAnswer(a, q) /\ Cuts(found, a, q)
  BY DEF Answers
<1>2. PICK b : IsAnswer(b, q) /\ Cuts(wanted, b, q)
  BY DEF Answers
<1>3. /\ Len(a) = Len(b)
      /\ \A i \in 1 .. Len(a) : SortKey(a[i], q.sort) = SortKey(b[i], q.sort)
  BY <1>1, <1>2, AnswersAgree
<1> DEFINE n == CutLength(Len(a), q.skip, IF q.limit = 0 THEN Unlimited ELSE q.limit)
<1>4. /\ found \in Seq(Nat) /\ Len(found) = n /\ Len(wanted) = n /\ DOMAIN found = 1 .. n
      /\ n \in Nat /\ (n > 0 => n + q.skip <= Len(a))
      /\ \A i \in 1 .. n : found[i] = a[i + q.skip] /\ wanted[i] = b[i + q.skip]
  BY <1>1, <1>2, <1>3 DEF Cuts
<1> HIDE DEF n
<1>5. ASSUME NEW i \in 1 .. n PROVE i + q.skip \in 1 .. Len(a)
  <2>1. q.skip \in Nat /\ Len(a) \in Nat
    BY <1>1 DEF PlainQueries, IsAnswer
  <2>2. n + q.skip <= Len(a) /\ i <= n /\ i \in Nat \ {0} /\ n \in Nat
    BY <1>4
  <2> QED BY <2>1, <2>2
<1>6. /\ a \in Seq(Nat) /\ DOMAIN a = 1 .. Len(a) /\ Elements(a) = Found(q.filter) /\ Distinct(a)
  BY <1>1 DEF IsAnswer
<1>7. ASSUME NEW i \in 1 .. n
      PROVE  found[i] \in Found(q.filter) /\ SortKey(found[i], q.sort) = SortKey(wanted[i], q.sort)
  <2>1. i + q.skip \in DOMAIN a
    BY <1>5, <1>6
  <2> QED BY <1>3, <1>4, <1>6, <2>1 DEF Elements
<1>8. Distinct(found)
  <2> SUFFICES ASSUME NEW i \in 1 .. n, NEW j \in 1 .. n, found[i] = found[j] PROVE i = j
    BY <1>4 DEF Distinct
  <2>1. i + q.skip = j + q.skip
    BY <1>4, <1>5, <1>6 DEF Distinct
  <2>2. q.skip \in Nat /\ i \in Nat /\ j \in Nat
    BY <1>4 DEF PlainQueries
  <2> QED BY <2>1, <2>2
<1> QED BY <1>4, <1>7, <1>8

(* However find() is planned - a scan, an index lookup, an index in sort    *)
(* order, or a sort of what the filter finds -, it returns what a sorted and *)
(* cut scan returns, up to the order of documents that sort alike.           *)
THEOREM FindsAgreeWithScan ==
  ASSUME PlainWorkload, RangesOverValues
  PROVE  Spec => []FindAgreesWithScan
<1>1. FindInv => FindAgreesWithScan
  <2> SUFFICES ASSUME FindInv, call = NoCall, NEW q \in Queries, NEW cur \in Find(q)
               PROVE  LET found == Drained(cur)
                          wanted == Reference(q)
                      IN  /\ Len(found) = Len(wanted)
                          /\ \A i, j \in DOMAIN found : found[i] = found[j] => i = j
                          /\ \A i \in DOMAIN found :
                               /\ \E p \in Live : slots[p].rid = found[i] /\ Matches(slots[p].doc, q.filter)
                               /\ SortKey(found[i], q.sort) = SortKey(wanted[i], q.sort)
    BY DEF FindAgreesWithScan
  <2>1. PlainDocuments /\ PlainQueries /\ Settled /\ OrderedInv
    BY DEF PlainWorkload, FindInv, Settled
  <2>2. PICK found : found = Drained(cur)
    OBVIOUS
  <2>3. PICK wanted : wanted = Reference(q)
    OBVIOUS
  <2>4. Answers(found, q) /\ Answers(wanted, q)
    BY <2>1, <2>2, <2>3, FindAnswers, ReferenceAnswers
  <2>5. /\ Len(found) = Len(wanted) /\ Distinct(found)
        /\ \A i \in DOMAIN found :
             found[i] \in Found(q.filter) /\ SortKey(found[i], q.sort) = SortKey(wanted[i], q.sort)
    BY <2>1, <2>4, CutsAgree
  <2>6. \A i \in DOMAIN found : \E p \in Live :
          slots[p].rid = found[i] /\ Matches(slots[p].doc, q.filter)
    BY <2>5, FoundIs
  <2> QED BY <2>2, <2>3, <2>5, <2>6 DEF Distinct
<1> QED BY <1>1, FindInvariantHolds, PTL
=============================================================================
