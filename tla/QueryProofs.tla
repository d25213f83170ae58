----------------------------- MODULE QueryProofs -----------------------------
(***************************************************************************)
(* The query engine, for every collection, call, stage and expression.     *)
(***************************************************************************)
EXTENDS QueryEngine, ListProofs
LOCAL INSTANCE SequencesExt

-----------------------------------------------------------------------------
(* Doubles.                                                                 *)

LEMMA DoublesAreNumbers ==
  Doubles \subseteq Int /\ 0 \in Doubles
<1>1. ASSUME NEW m \in -Significand .. Significand, NEW s \in Spacings PROVE m * s \in Int
  BY DoublesAssumption
<1>2. 0 * Scale = 0 /\ 0 \in -Significand .. Significand /\ Scale \in Spacings
  BY DoublesAssumption
<1> QED BY <1>1, <1>2 DEF Doubles

(* A factor that both sides have. *)
LEMMA ScaleKeepsOrder ==
  ASSUME NEW m \in Int, NEW n \in Int
  PROVE  Scale * m <= Scale * n <=> m <= n
<1>1. Scale \in Nat \ {0}
  BY DoublesAssumption
<1>2. ASSUME NEW k \in Int, NEW l \in Int, k <= l PROVE Scale * k <= Scale * l
  BY <1>1, <1>2
<1>3. ASSUME n + 1 <= m PROVE Scale * m > Scale * n
  <2>1. Scale * (n + 1) <= Scale * m
    BY <1>2, <1>3
  <2>2. Scale * (n + 1) = Scale * n + Scale
    BY <1>1
  <2>3. Scale * n \in Int /\ Scale * m \in Int
    BY <1>1
  <2> QED BY <1>1, <2>1, <2>2, <2>3
<1>4. Scale * n \in Int /\ Scale * m \in Int
  BY <1>1
<1> QED BY <1>2, <1>3, <1>4

(* A whole number up to the largest significand is a double. *)
LEMMA WholeIsDouble ==
  ASSUME NEW n \in -Significand .. Significand
  PROVE  Scale * n \in Doubles
<1>1. Scale * n = n * Scale /\ Scale \in Spacings
  BY DoublesAssumption
<1> QED BY <1>1 DEF Doubles

(* Of two different numbers one is no multiple of twice their difference. *)
LEMMA OneIsOdd ==
  ASSUME NEW m \in Int, NEW n \in Int, m < n, m % (2 * (n - m)) = 0, n % (2 * (n - m)) = 0
  PROVE  FALSE
<1> DEFINE gap == 2 * (n - m)
           a == m \div gap
           b == n \div gap
<1>1. gap \in Nat \ {0}
  OBVIOUS
<1>2. a \in Int /\ b \in Int /\ m = gap * a + (m % gap) /\ n = gap * b + (n % gap)
  <2> HIDE DEF gap
  <2> QED BY <1>1
<1>3. m = gap * a /\ n = gap * b
  BY <1>1, <1>2
<1>4. gap * (b - a) = n - m
  <2> HIDE DEF gap, a, b
  <2> QED BY <1>1, <1>2, <1>3
<1> HIDE DEF a, b
<1>5. CASE b - a <= 0
  <2>1. gap * (b - a) <= 0
    <3> HIDE DEF gap
    <3> QED BY <1>1, <1>2, <1>5
  <2> QED BY <1>4, <2>1
<1>6. CASE b - a >= 1
  <2>1. gap * (b - a) >= gap
    <3> HIDE DEF gap
    <3> QED BY <1>1, <1>2, <1>6
  <2> QED BY <1>4, <2>1
<1> QED BY <1>2, <1>5, <1>6

(* Rounding makes a double of every whole number of units. *)
LEMMA RoundedIsDouble ==
  ASSUME NEW n \in Int
  PROVE  Rounded(n) \in Doubles
<1> DEFINE nearest == Nearest(n, 1)
           Even(d) == \A e \in nearest \ {d} : e % (2 * Distance(d, e)) # 0
<1>1. Doubles \subseteq Int /\ Doubles # {}
  BY DoublesAreNumbers
<1>2. \A d \in Int : 1 * d = d /\ Distance(d, n) \in Nat
  BY DEF Distance
<1>3. nearest = {d \in Doubles : \A e \in Doubles : Distance(d, n) <= Distance(e, n)}
  BY <1>1, <1>2 DEF Nearest
<1>4. PICK x \in nearest : TRUE
  <2> DEFINE away == {Distance(d, n) : d \in Doubles}
  <2>1. away \subseteq Nat /\ away # {}
    BY <1>1, <1>2
  <2>2. PICK least \in away : \A y \in away : least <= y
    <3> HIDE DEF away
    <3> QED BY <2>1, LeastNumber
  <2>3. PICK d \in Doubles : least = Distance(d, n)
    OBVIOUS
  <2>4. d \in nearest
    BY <1>3, <2>2, <2>3
  <2> QED BY <2>4
<1>5. \A d, e \in nearest : Distance(d, n) = Distance(e, n)
  <2>1. \A d, e \in nearest : Distance(d, n) <= Distance(e, n) /\ Distance(e, n) <= Distance(d, n)
    BY <1>3
  <2>2. \A d \in nearest : Distance(d, n) \in Nat
    BY <1>1, <1>2, <1>3
  <2> QED BY <2>1, <2>2
<1>6. nearest \subseteq Int /\ nearest \subseteq Doubles
  BY <1>1, <1>3
<1> HIDE DEF nearest
<1>7. \E d \in nearest : Even(d)
  <2>1. CASE Even(x)
    BY <2>1
  <2>2. CASE ~Even(x)
    <3>1. PICK y \in nearest \ {x} : y % (2 * Distance(x, y)) = 0
      BY <2>2
    <3>2. ASSUME NEW e \in nearest \ {y} PROVE e = x
      BY <1>4, <1>5, <1>6, <3>1, <3>2 DEF Distance
    <3>3. x % (2 * Distance(y, x)) # 0
      <4>1. x \in Int /\ y \in Int /\ x # y
        BY <1>4, <1>6, <3>1
      <4>2. CASE x < y
        BY <3>1, <4>1, <4>2, OneIsOdd DEF Distance
      <4>3. CASE y < x
        BY <3>1, <4>1, <4>3, OneIsOdd DEF Distance
      <4> QED BY <4>1, <4>2, <4>3
    <3>4. Even(y)
      BY <3>2, <3>3
    <3> QED BY <3>1, <3>4
  <2> QED BY <2>1, <2>2
<1>8. Quotient(n, 1) = CHOOSE d \in nearest : Even(d)
  BY DEF Quotient, nearest
<1>9. Quotient(n, 1) \in nearest
  <2> HIDE DEF Even
  <2> QED BY <1>7, <1>8
<1> QED BY <1>6, <1>9 DEF Rounded

-----------------------------------------------------------------------------
(* Sorting.                                                                 *)

(* compare_optional_values_for_sort compares ranks, in which a missing value *)
(* has that of null, and then one or two numbers of values of one rank.      *)
Rank(v) == IF v = Missing THEN 2 ELSE TypeRank(v)
Major(v) ==
  IF v = Missing THEN 0
  ELSE IF IsNumeric(v) THEN Units(v) ELSE IF IsText(v) THEN -v[2][1]
  ELSE IF v[1] = "oid" THEN v[2] ELSE IF v = Bool(TRUE) THEN 1 ELSE 0
Minor(v) == IF v # Missing /\ IsText(v) THEN Position(v[2][2]) ELSE 0

Below(v, w) ==
  \/ Rank(v) < Rank(w)
  \/ Rank(v) = Rank(w) /\ Major(v) < Major(w)
  \/ Rank(v) = Rank(w) /\ Major(v) = Major(w) /\ Minor(v) < Minor(w)

LEMMA PositionIsNumber ==
  ASSUME NEW word
  PROVE  Position(word) \in Int
<1>1. DOMAIN Words \subseteq Nat
  BY BsonAssumption, ListParts
<1>2. word \in ToSet(Words) => \E i \in DOMAIN Words : Words[i] = word
  BY DEF ToSet
<1> QED BY <1>1, <1>2 DEF Position

LEMMA KeysAreNumbers ==
  ASSUME NEW v, Sortable(v)
  PROVE  Rank(v) \in Int /\ Major(v) \in Int /\ Minor(v) \in Int
<1>1. Rank(v) \in Int
  BY DEF Rank, TypeRank
<1>2. Minor(v) \in Int
  BY PositionIsNumber DEF Minor
<1>3. Major(v) \in Int
  BY DoublesAssumption
     DEF Sortable, Major, IsExact, Units, Missing, IsNumeric, IsText, IsNullish, Null, IsDocument, IsArray, Bool
<1> QED BY <1>1, <1>2, <1>3

(* What value_compare compares of numbers that are doubles, or as good as one. *)
LEMMA ComparesNumbers ==
  ASSUME NEW v, IsExact(v), v[2] \in Int, NEW w, IsExact(w), w[2] \in Int
  PROVE  CompareNumbers(v, w) = Sign(Units(v) - Units(w))
<1>1. AsDouble(v) = Units(v) /\ AsDouble(w) = Units(w)
  BY DEF IsExact, AsDouble, Units, Rounded
<1>2. CASE "double" \in {v[1], w[1]}
  BY <1>1, <1>2 DEF CompareNumbers
<1>3. CASE "double" \notin {v[1], w[1]}
  <2>1. Units(v) = Scale * v[2] /\ Units(w) = Scale * w[2] /\ CompareNumbers(v, w) = Sign(v[2] - w[2])
    BY <1>3 DEF Units, CompareNumbers
  <2>2. Scale * v[2] \in Int /\ Scale * w[2] \in Int
    BY DoublesAssumption
  <2>3. (v[2] <= w[2] <=> Scale * v[2] <= Scale * w[2]) /\ (w[2] <= v[2] <=> Scale * w[2] <= Scale * v[2])
    BY ScaleKeepsOrder
  <2> QED BY <2>1, <2>2, <2>3 DEF Sign
<1> QED BY <1>2, <1>3

LEMMA ComparesKeys ==
  ASSUME NEW v, Sortable(v), NEW w, Sortable(w)
  PROVE  CompareForSort(v, w) = IF Below(v, w) THEN -1 ELSE IF Below(w, v) THEN 1 ELSE 0
<1>0. /\ Rank(v) \in Int /\ Major(v) \in Int /\ Minor(v) \in Int
      /\ Rank(w) \in Int /\ Major(w) \in Int /\ Minor(w) \in Int
  BY KeysAreNumbers
<1>1. CASE v = Missing \/ w = Missing
  <2>1. ASSUME NEW u, u = Missing \/ IsNullish(u) PROVE Rank(u) = 2 /\ Major(u) = 0 /\ Minor(u) = 0
    <3>1. Bool(TRUE)[1] = "bool" /\ Null[1] = "null"
      BY DEF Bool, Null
    <3>2. Rank(u) = 2
      <4>1. u[1] = "null" => TypeRank(u) = 2
        BY DEF TypeRank, IsNumeric, IsText, IsDocument, IsArray
      <4> QED BY <2>1, <4>1 DEF Rank, IsNullish, Null
    <3>3. Minor(u) = 0
      BY <2>1 DEF Minor, IsNullish, Null, IsText
    <3>4. Major(u) = 0
      BY <2>1, <3>1 DEF Major, IsNullish, IsText, IsNumeric
    <3> QED BY <3>2, <3>3, <3>4
  <2>2. \A u : Sortable(u) /\ u # Missing /\ ~IsNullish(u) => Rank(u) > 2
    BY DEF Sortable, IsExact, Rank, TypeRank, IsNullish, Null, IsNumeric, IsText, IsDocument, IsArray, Bool
  <2>3. CompareForSort(v, w) = IF v = Missing THEN IF w = Missing \/ IsNullish(w) THEN 0 ELSE -1
                               ELSE IF IsNullish(v) THEN 0 ELSE 1
    BY <1>1 DEF CompareForSort
  <2>4. (v = Missing => Rank(v) = 2) /\ (w = Missing => Rank(w) = 2)
    BY <2>1
  <2> QED BY <1>0, <1>1, <2>1, <2>2, <2>3, <2>4 DEF Below
<1>2. CASE v # Missing /\ w # Missing /\ Rank(v) # Rank(w)
  <2>1. ValueCompare(v, w) = Unordered
    BY <1>2 DEF ValueCompare, Rank, TypeRank, IsNumeric, IsText, IsNullish, Null, IsDocument, IsArray
  <2>2. CompareForSort(v, w) = Sign(Rank(v) - Rank(w))
    BY <1>2, <2>1 DEF CompareForSort, Rank
  <2> QED BY <1>0, <1>2, <2>2 DEF Sign, Below
<1>3. CASE v # Missing /\ w # Missing /\ Rank(v) = Rank(w)
  <2> USE <1>3
  <2>1. CASE IsNumeric(v)
    <3>1. IsNumeric(w)
      BY <2>1 DEF Rank, TypeRank, IsNumeric, IsText, IsNullish, Null, IsDocument, IsArray
    <3>2. ValueCompare(v, w) = Sign(Major(v) - Major(w)) /\ Minor(v) = 0 /\ Minor(w) = 0
      <4>1. IsExact(v) /\ v[2] \in Int /\ IsExact(w) /\ w[2] \in Int
        BY <2>1, <3>1 DEF Sortable, Missing, IsNullish, Null, IsDocument, IsArray, IsNumeric, IsText, Bool
      <4>2. ValueCompare(v, w) = CompareNumbers(v, w)
        BY <2>1, <3>1 DEF ValueCompare, IsNumeric, IsText
      <4> QED BY <2>1, <3>1, <4>1, <4>2, ComparesNumbers DEF Major, Minor, IsNumeric, IsText
    <3>3. CompareForSort(v, w) = Sign(Major(v) - Major(w))
      BY <1>0, <3>2 DEF CompareForSort, Sign, Unordered
    <3> QED BY <1>0, <3>2, <3>3 DEF Sign, Below
  <2>2. CASE IsText(v)
    <3>1. IsText(w)
      BY <2>2 DEF Rank, TypeRank, IsNumeric, IsText, IsNullish, Null, IsDocument, IsArray
    <3>2. ValueCompare(v, w) = CompareTexts(v[2], w[2])
      BY <2>2, <3>1 DEF ValueCompare, IsNumeric, IsText
    <3>3. /\ Major(v) = -v[2][1] /\ Major(w) = -w[2][1]
          /\ Minor(v) = Position(v[2][2]) /\ Minor(w) = Position(w[2][2])
      BY <2>2, <3>1 DEF Major, Minor, IsNumeric, IsText
    <3>4. v[2][1] \in Int /\ w[2][1] \in Int
      BY <2>2, <3>1 DEF Sortable, IsExact, Missing, IsNullish, Null, IsDocument, IsArray, IsNumeric, IsText, Bool
    <3>5. CompareTexts(v[2], w[2]) = IF Major(v) # Major(w) THEN Sign(Major(v) - Major(w)) ELSE Sign(Minor(v) - Minor(w))
      BY <3>3, <3>4 DEF CompareTexts
    <3>6. CompareForSort(v, w) = CompareTexts(v[2], w[2])
      BY <1>0, <3>2, <3>5 DEF CompareForSort, Sign, Unordered
    <3> QED BY <1>0, <3>5, <3>6 DEF Sign, Below
  <2>3. CASE v[1] = "oid"
    <3>1. w[1] = "oid"
      BY <2>3 DEF Rank, TypeRank, IsNumeric, IsText, IsNullish, Null, IsDocument, IsArray
    <3>2. ValueCompare(v, w) = Sign(Major(v) - Major(w)) /\ Minor(v) = 0 /\ Minor(w) = 0
      BY <2>3, <3>1 DEF ValueCompare, Major, Minor, IsNumeric, IsText
    <3>3. CompareForSort(v, w) = Sign(Major(v) - Major(w))
      BY <1>0, <3>2 DEF CompareForSort, Sign, Unordered
    <3> QED BY <1>0, <3>2, <3>3 DEF Sign, Below
  <2>4. CASE v[1] = "bool"
    <3>1. PICK b \in BOOLEAN, c \in BOOLEAN : v = Bool(b) /\ w = Bool(c)
      BY <2>4 DEF Rank, TypeRank, IsNumeric, IsText, IsNullish, Null, IsDocument, IsArray, Sortable, IsExact, Bool, Missing
    <3>2. /\ v[1] = "bool" /\ v[2] = b /\ w[1] = "bool" /\ w[2] = c
          /\ (v = w <=> b = c) /\ (v = Bool(TRUE) <=> b) /\ (w = Bool(TRUE) <=> c)
      BY <3>1 DEF Bool
    <3>3. ValueCompare(v, w) = IF v = w THEN 0 ELSE IF b THEN 1 ELSE -1
      BY <3>2 DEF ValueCompare, IsNumeric, IsText
    <3>4. CompareForSort(v, w) = IF v = w THEN 0 ELSE IF b THEN 1 ELSE -1
      BY <3>3 DEF CompareForSort, Unordered
    <3>5. /\ Major(v) = (IF b THEN 1 ELSE 0) /\ Minor(v) = 0
          /\ Major(w) = (IF c THEN 1 ELSE 0) /\ Minor(w) = 0
      BY <3>2 DEF Major, Minor, IsNumeric, IsText
    <3> QED BY <1>0, <3>2, <3>4, <3>5 DEF Below
  <2>5. CASE IsNullish(v) \/ IsDocument(v) \/ IsArray(v)
    <3>1. ValueCompare(v, w) = Unordered
      BY <2>5 DEF ValueCompare, IsNumeric, IsText, IsNullish, Null, IsDocument, IsArray
    <3>2. CompareForSort(v, w) = 0
      BY <1>0, <3>1 DEF CompareForSort, Sign, Rank
    <3>3. IsNullish(w) \/ IsDocument(w) \/ IsArray(w)
      BY <2>5 DEF Rank, TypeRank, IsNumeric, IsText, IsNullish, Null, IsDocument, IsArray, Sortable, IsExact, Bool
    <3>4. \A u : IsNullish(u) \/ IsDocument(u) \/ IsArray(u) => Major(u) = 0 /\ Minor(u) = 0
      <4>1. Bool(TRUE)[1] = "bool" /\ Null[1] = "null"
        BY DEF Bool, Null
      <4> QED BY <4>1 DEF Major, Minor, IsNumeric, IsText, IsNullish, IsDocument, IsArray
    <3> QED BY <1>0, <2>5, <3>2, <3>3, <3>4 DEF Below
  <2> QED BY <2>1, <2>2, <2>3, <2>4, <2>5 DEF Sortable, IsExact, Bool
<1> QED BY <1>1, <1>2, <1>3

(* The paths of a sort specification, and what they have for a document. *)
SortableBy(spec, doc) == \A i \in DOMAIN spec : Sortable(ResolvePath(doc, spec[i][1]))

(* Below is a strict weak order, whose ties are values of equal keys. *)
Tied(v, w) == Rank(v) = Rank(w) /\ Major(v) = Major(w) /\ Minor(v) = Minor(w)

LEMMA BelowIsWeakOrder ==
  ASSUME NEW u, Sortable(u), NEW v, Sortable(v), NEW w, Sortable(w)
  PROVE  /\ ~Below(u, v) /\ ~Below(v, u) <=> Tied(u, v)
         /\ ~(Below(u, v) /\ Below(v, u))
         /\ Below(u, v) /\ Below(v, w) => Below(u, w)
         /\ Tied(u, v) /\ Below(v, w) => Below(u, w)
         /\ Below(u, v) /\ Tied(v, w) => Below(u, w)
         /\ Tied(u, v) /\ Tied(v, w) => Tied(u, w)
<1>1. /\ Rank(u) \in Int /\ Major(u) \in Int /\ Minor(u) \in Int
      /\ Rank(v) \in Int /\ Major(v) \in Int /\ Minor(v) \in Int
      /\ Rank(w) \in Int /\ Major(w) \in Int /\ Minor(w) \in Int
  BY KeysAreNumbers
<1> QED BY <1>1 DEF Below, Tied

(* The first i paths of a specification do not tell two documents apart. *)
TiedTo(d, e, spec, i) ==
  \A j \in 1 .. i : Tied(ResolvePath(d, spec[j][1]), ResolvePath(e, spec[j][1]))

(* The path i puts d before e. *)
Decides(d, e, spec, i) ==
  LET v == ResolvePath(d, spec[i][1])
      w == ResolvePath(e, spec[i][1])
  IN  IF Descends(spec[i][2]) THEN Below(w, v) ELSE Below(v, w)

LEMMA SortLessDecides ==
  ASSUME NEW spec, IsList(spec), NEW d, SortableBy(spec, d), NEW e, SortableBy(spec, e)
  PROVE  SortLess(d, e, spec) <=> \E i \in DOMAIN spec : Decides(d, e, spec, i) /\ TiedTo(d, e, spec, i - 1)
<1> DEFINE compared(i) == CompareForSort(ResolvePath(d, spec[i][1]), ResolvePath(e, spec[i][1]))
<1>1. DOMAIN spec = 1 .. Len(spec) /\ Len(spec) \in Nat
  BY ListParts
<1>2. ASSUME NEW i \in DOMAIN spec
      PROVE  /\ compared(i) = (IF Descends(spec[i][2]) THEN 1 ELSE -1) <=> Decides(d, e, spec, i)
             /\ compared(i) = 0 <=> Tied(ResolvePath(d, spec[i][1]), ResolvePath(e, spec[i][1]))
  <2> DEFINE v == ResolvePath(d, spec[i][1])
             w == ResolvePath(e, spec[i][1])
  <2>1. Sortable(v) /\ Sortable(w)
    BY DEF SortableBy
  <2> HIDE DEF v, w
  <2>2. CompareForSort(v, w) = IF Below(v, w) THEN -1 ELSE IF Below(w, v) THEN 1 ELSE 0
    BY <2>1, ComparesKeys
  <2>3. (~Below(v, w) /\ ~Below(w, v) <=> Tied(v, w)) /\ ~(Below(v, w) /\ Below(w, v))
    BY <2>1, BelowIsWeakOrder
  <2>4. Decides(d, e, spec, i) <=> IF Descends(spec[i][2]) THEN Below(w, v) ELSE Below(v, w)
    BY DEF Decides, v, w
  <2>5. compared(i) = CompareForSort(v, w)
    BY DEF v, w
  <2> HIDE DEF compared
  <2>6. /\ compared(i) = (IF Descends(spec[i][2]) THEN 1 ELSE -1) <=> Decides(d, e, spec, i)
        /\ compared(i) = 0 <=> Tied(v, w)
    BY <2>2, <2>3, <2>4, <2>5
  <2> QED BY <2>6 DEF v, w
<1>3. SortLess(d, e, spec) <=>
        \E i \in DOMAIN spec : /\ compared(i) = (IF Descends(spec[i][2]) THEN 1 ELSE -1)
                               /\ \A j \in 1 .. i - 1 : compared(j) = 0
  BY DEF SortLess
<1>4. ASSUME NEW i \in DOMAIN spec
      PROVE  (\A j \in 1 .. i - 1 : compared(j) = 0) <=> TiedTo(d, e, spec, i - 1)
  <2>1. \A j \in 1 .. i - 1 : j \in DOMAIN spec
    BY <1>1
  <2> HIDE DEF compared
  <2> QED BY <1>2, <2>1 DEF TiedTo
<1> HIDE DEF compared
<1> QED BY <1>2, <1>3, <1>4

(* The order of sort_less is a strict weak order, for every specification    *)
(* and all documents it can place: any number of paths, ascending and        *)
(* descending, and values of any types.                                      *)
LEMMA DecidesIsWeakOrder ==
  ASSUME NEW spec, NEW c, SortableBy(spec, c), NEW d, SortableBy(spec, d),
         NEW e, SortableBy(spec, e), NEW i \in DOMAIN spec
  PROVE  LET tied(x, y) == Tied(ResolvePath(x, spec[i][1]), ResolvePath(y, spec[i][1]))
             less(x, y) == Decides(x, y, spec, i)
         IN  /\ ~less(c, d) /\ ~less(d, c) <=> tied(c, d)
             /\ ~(less(c, d) /\ less(d, c))
             /\ less(c, d) /\ less(d, e) => less(c, e)
             /\ tied(c, d) /\ less(d, e) => less(c, e)
             /\ less(c, d) /\ tied(d, e) => less(c, e)
             /\ tied(c, d) /\ tied(d, e) => tied(c, e)
<1> DEFINE u == ResolvePath(c, spec[i][1])
           v == ResolvePath(d, spec[i][1])
           w == ResolvePath(e, spec[i][1])
<1>1. Sortable(u) /\ Sortable(v) /\ Sortable(w)
  BY DEF SortableBy
<1>2. /\ Decides(c, d, spec, i) <=> IF Descends(spec[i][2]) THEN Below(v, u) ELSE Below(u, v)
      /\ Decides(d, c, spec, i) <=> IF Descends(spec[i][2]) THEN Below(u, v) ELSE Below(v, u)
      /\ Decides(d, e, spec, i) <=> IF Descends(spec[i][2]) THEN Below(w, v) ELSE Below(v, w)
      /\ Decides(c, e, spec, i) <=> IF Descends(spec[i][2]) THEN Below(w, u) ELSE Below(u, w)
  BY DEF Decides
<1> HIDE DEF u, v, w
<1>3. /\ ~Below(u, v) /\ ~Below(v, u) <=> Tied(u, v)
      /\ ~(Below(u, v) /\ Below(v, u))
      /\ Below(u, v) /\ Below(v, w) => Below(u, w)
      /\ Tied(u, v) /\ Below(v, w) => Below(u, w)
      /\ Below(u, v) /\ Tied(v, w) => Below(u, w)
      /\ Tied(u, v) /\ Tied(v, w) => Tied(u, w)
  BY <1>1, BelowIsWeakOrder
<1>4. /\ Below(w, v) /\ Below(v, u) => Below(w, u)
      /\ Tied(w, v) /\ Below(v, u) => Below(w, u)
      /\ Below(w, v) /\ Tied(v, u) => Below(w, u)
  BY <1>1, BelowIsWeakOrder
<1>5. (Tied(w, v) <=> Tied(v, w)) /\ (Tied(u, v) <=> Tied(v, u))
  BY DEF Tied
<1>6. /\ ~Decides(c, d, spec, i) /\ ~Decides(d, c, spec, i) <=> Tied(u, v)
      /\ ~(Decides(c, d, spec, i) /\ Decides(d, c, spec, i))
      /\ Decides(c, d, spec, i) /\ Decides(d, e, spec, i) => Decides(c, e, spec, i)
      /\ Tied(u, v) /\ Decides(d, e, spec, i) => Decides(c, e, spec, i)
      /\ Decides(c, d, spec, i) /\ Tied(v, w) => Decides(c, e, spec, i)
  BY <1>2, <1>3, <1>4, <1>5
<1> QED BY <1>3, <1>6 DEF u, v, w

(* Documents of which neither is before the other have the same keys. *)
LEMMA AlikeAreTied ==
  ASSUME NEW spec, IsList(spec), NEW c, SortableBy(spec, c), NEW d, SortableBy(spec, d),
         ~SortLess(c, d, spec), ~SortLess(d, c, spec)
  PROVE  TiedTo(c, d, spec, Len(spec))
<1> DEFINE tied(i) == Tied(ResolvePath(c, spec[i][1]), ResolvePath(d, spec[i][1]))
           apart == {i \in 1 .. Len(spec) : ~tied(i)}
<1>1. DOMAIN spec = 1 .. Len(spec) /\ Len(spec) \in Nat
  BY ListParts
<1>2. SUFFICES ASSUME apart # {} PROVE FALSE
  BY DEF TiedTo
<1>3. PICK i \in apart : \A j \in apart : i <= j
  <2>1. apart \subseteq Nat
    BY <1>1
  <2> HIDE DEF apart
  <2> QED BY <1>2, <2>1, LeastNumber
<1>4. i \in DOMAIN spec /\ ~tied(i) /\ \A j \in 1 .. i - 1 : tied(j)
  BY <1>1, <1>3
<1>5. TiedTo(c, d, spec, i - 1) /\ TiedTo(d, c, spec, i - 1)
  BY <1>4 DEF TiedTo, Tied
<1>6. Decides(c, d, spec, i) \/ Decides(d, c, spec, i)
  BY <1>4, DecidesIsWeakOrder
<1> QED BY <1>4, <1>5, <1>6, SortLessDecides

(* The order of documents for a sort by any paths, up and down, is a strict   *)
(* weak one where their values are Sortable: no MinKey, and no whole number   *)
(* that is not a double (sort_less, compare_optional_values_for_sort).        *)
THEOREM SortLessIsWeakOrder ==
  ASSUME NEW spec, IsList(spec), NEW c, SortableBy(spec, c), NEW d, SortableBy(spec, d),
         NEW e, SortableBy(spec, e)
  PROVE  /\ SortLess(c, d, spec) => ~SortLess(d, c, spec)
         /\ SortLess(c, d, spec) /\ SortLess(d, e, spec) => SortLess(c, e, spec)
         /\ ~SortLess(c, d, spec) /\ ~SortLess(d, c, spec) /\ ~SortLess(d, e, spec) /\ ~SortLess(e, d, spec)
              => ~SortLess(c, e, spec) /\ ~SortLess(e, c, spec)
<1> DEFINE at(x, y, i) == i \in DOMAIN spec /\ Decides(x, y, spec, i) /\ TiedTo(x, y, spec, i - 1)
           tied(x, y, i) == Tied(ResolvePath(x, spec[i][1]), ResolvePath(y, spec[i][1]))
<1>0. DOMAIN spec = 1 .. Len(spec) /\ Len(spec) \in Nat
  BY ListParts
<1>1. ASSUME NEW i \in DOMAIN spec
      PROVE  /\ ~Decides(c, d, spec, i) /\ ~Decides(d, c, spec, i) <=> tied(c, d, i)
             /\ ~(Decides(c, d, spec, i) /\ Decides(d, c, spec, i))
             /\ Decides(c, d, spec, i) /\ Decides(d, e, spec, i) => Decides(c, e, spec, i)
             /\ tied(c, d, i) /\ Decides(d, e, spec, i) => Decides(c, e, spec, i)
             /\ Decides(c, d, spec, i) /\ tied(d, e, i) => Decides(c, e, spec, i)
             /\ tied(c, d, i) /\ tied(d, e, i) => tied(c, e, i)
  BY DecidesIsWeakOrder
<1>2. ASSUME NEW i \in DOMAIN spec
      PROVE  ~Decides(c, e, spec, i) /\ ~Decides(e, c, spec, i) <=> tied(c, e, i)
  BY DecidesIsWeakOrder
<1>3. \A x, y : \A i \in DOMAIN spec : TiedTo(x, y, spec, i - 1) <=> \A j \in 1 .. i - 1 : tied(x, y, j)
  BY DEF TiedTo
<1>4. \A x, y, j : tied(x, y, j) <=> tied(y, x, j)
  BY DEF Tied
<1>5. /\ SortLess(c, d, spec) <=> \E i : at(c, d, i)
      /\ SortLess(d, c, spec) <=> \E i : at(d, c, i)
      /\ SortLess(d, e, spec) <=> \E i : at(d, e, i)
      /\ SortLess(c, e, spec) <=> \E i : at(c, e, i)
      /\ SortLess(e, c, spec) <=> \E i : at(e, c, i)
  BY SortLessDecides
<1> HIDE DEF tied
<1>6. SortLess(c, d, spec) => ~SortLess(d, c, spec)
  <2> SUFFICES ASSUME NEW i, NEW j, at(c, d, i), at(d, c, j) PROVE FALSE
    BY <1>5
  <2>1. CASE i < j
    BY <1>0, <1>1, <1>3, <1>4, <2>1
  <2>2. CASE j < i
    BY <1>0, <1>1, <1>3, <1>4, <2>2
  <2> QED BY <1>0, <1>1, <2>1, <2>2
<1>7. SortLess(c, d, spec) /\ SortLess(d, e, spec) => SortLess(c, e, spec)
  <2> SUFFICES ASSUME NEW i, NEW j, at(c, d, i), at(d, e, j) PROVE \E k : at(c, e, k)
    BY <1>5
  <2>0. i \in 1 .. Len(spec) /\ j \in 1 .. Len(spec)
    BY <1>0
  <2>1. CASE i < j
    <3>1. Decides(c, e, spec, i) /\ \A k \in 1 .. i - 1 : tied(c, e, k)
      BY <1>0, <1>1, <1>3, <2>0, <2>1
    <3> QED BY <1>3, <3>1
  <2>2. CASE j <= i
    <3>1. Decides(c, e, spec, j) /\ \A k \in 1 .. j - 1 : tied(c, e, k)
      BY <1>0, <1>1, <1>3, <2>0, <2>2
    <3> QED BY <1>3, <3>1
  <2> QED BY <2>0, <2>1, <2>2
<1>8. /\ ~SortLess(c, d, spec) /\ ~SortLess(d, c, spec) /\ ~SortLess(d, e, spec) /\ ~SortLess(e, d, spec)
      => ~SortLess(c, e, spec) /\ ~SortLess(e, c, spec)
  <2> SUFFICES ASSUME ~SortLess(c, d, spec), ~SortLess(d, c, spec), ~SortLess(d, e, spec), ~SortLess(e, d, spec)
               PROVE  \A i \in DOMAIN spec : ~Decides(c, e, spec, i) /\ ~Decides(e, c, spec, i)
    BY <1>5
  <2>1. TiedTo(c, d, spec, Len(spec)) /\ TiedTo(d, e, spec, Len(spec))
    BY AlikeAreTied
  <2>2. \A i \in DOMAIN spec : tied(c, d, i) /\ tied(d, e, i)
    BY <1>0, <2>1 DEF TiedTo, tied
  <2> QED BY <1>1, <1>2, <2>2
<1> QED BY <1>6, <1>7, <1>8

(* The run's law of sorting: by one field, ascending, of Sortable values. *)
THEOREM SortingIsWeakOrder == Spec => []SortIsWeakOrder
<1>1. SortIsWeakOrder
  <2> SUFFICES ASSUME NEW name \in Fields
               PROVE  LET Less(i, j) == SortLess(docs[i], docs[j], << <<name, Int32(1)>> >>)
                          Alike(i, j) == ~Less(i, j) /\ ~Less(j, i)
                      IN  \A i, j, k \in {l \in DOMAIN docs : Sortable(Find(docs[l], name))} :
                            /\ Less(i, j) => ~Less(j, i)
                            /\ (Less(i, j) /\ Less(j, k)) => Less(i, k)
                            /\ (Alike(i, j) /\ Alike(j, k)) => Alike(i, k)
    BY DEF SortIsWeakOrder
  <2> DEFINE spec == << <<name, Int32(1)>> >>
  <2>1. spec = [i \in 1 .. 1 |-> spec[i]] /\ DOMAIN spec = 1 .. 1 /\ spec[1][1] = name
    OBVIOUS
  <2>2. IsList(spec)
    BY <2>1, ListFrom
  <2>3. ASSUME NEW l \in DOMAIN docs, Sortable(Find(docs[l], name)) PROVE SortableBy(spec, docs[l])
    <3>1. ResolvePath(docs[l], name) = Find(docs[l], name)
      BY FieldsAssumption DEF ResolvePath
    <3> QED BY <2>1, <2>3, <3>1 DEF SortableBy
  <2> HIDE DEF spec
  <2>4. ASSUME NEW i \in DOMAIN docs, NEW j \in DOMAIN docs, NEW k \in DOMAIN docs,
               SortableBy(spec, docs[i]), SortableBy(spec, docs[j]), SortableBy(spec, docs[k])
        PROVE  /\ SortLess(docs[i], docs[j], spec) => ~SortLess(docs[j], docs[i], spec)
               /\ SortLess(docs[i], docs[j], spec) /\ SortLess(docs[j], docs[k], spec) => SortLess(docs[i], docs[k], spec)
               /\ /\ ~SortLess(docs[i], docs[j], spec) /\ ~SortLess(docs[j], docs[i], spec)
                  /\ ~SortLess(docs[j], docs[k], spec) /\ ~SortLess(docs[k], docs[j], spec)
                  => ~SortLess(docs[i], docs[k], spec) /\ ~SortLess(docs[k], docs[i], spec)
    BY <2>2, <2>4, SortLessIsWeakOrder
  <2> QED BY <2>3, <2>4 DEF spec
<1> QED BY <1>1, PTL

-----------------------------------------------------------------------------
(* Fields.                                                                  *)

(* bson_iter_find gives the first field of a name. *)
LEMMA FindsFirst ==
  ASSUME NEW d, IsList(d), NEW name
  PROVE  /\ name \notin Names(d) => Find(d, name) = Missing
         /\ name \in Names(d) =>
              \E i \in DOMAIN d : /\ d[i][1] = name /\ Find(d, name) = d[i][2]
                                 /\ \A j \in DOMAIN d : d[j][1] = name => i <= j
<1> DEFINE at == {i \in DOMAIN d : d[i][1] = name}
<1>1. at \subseteq Nat /\ (at = {} <=> name \notin Names(d))
  <2>1. DOMAIN d \subseteq Nat
    BY ListParts
  <2> QED BY <2>1 DEF Names
<1>2. Find(d, name) = IF at = {} THEN Missing ELSE d[CHOOSE i \in at : \A j \in at : i <= j][2]
  BY DEF Find
<1>3. ASSUME at # {} PROVE \E i \in at : Find(d, name) = d[i][2] /\ \A j \in at : i <= j
  <2> HIDE DEF at
  <2>1. \E i \in at : \A j \in at : i <= j
    BY <1>1, <1>3, LeastNumber
  <2> QED BY <1>2, <1>3, <2>1
<1> QED BY <1>1, <1>2, <1>3

LEMMA OneField ==
  ASSUME NEW name, NEW v
  PROVE  LET d == << <<name, v>> >>
         IN  /\ IsList(d) /\ DOMAIN d = 1 .. 1 /\ d[1] = <<name, v>> /\ Names(d) = {name}
             /\ Find(d, name) = v
<1> DEFINE d == << <<name, v>> >>
<1>1. d = [i \in 1 .. 1 |-> d[i]] /\ DOMAIN d = 1 .. 1 /\ d[1] = <<name, v>>
  OBVIOUS
<1>2. IsList(d)
  BY <1>1, ListFrom
<1> HIDE DEF d
<1>3. Names(d) = {name}
  BY <1>1 DEF Names
<1>4. Find(d, name) = v
  BY <1>1, <1>2, <1>3, FindsFirst
<1> QED BY <1>1, <1>2, <1>3, <1>4 DEF d

LEMMA RefFinds ==
  ASSUME NEW name, IsTopLevel(name), NEW d
  PROVE  Evaluate(d, FieldRef(name)) = Find(d, name)
<1>1. FieldRef(name)[1] = "text" /\ FieldRef(name)[2][1] = 1 /\ FieldRef(name)[2][2] = name
  BY DEF FieldRef
<1>2. Evaluate(d, FieldRef(name)) = ResolvePath(d, FieldRef(name)[2][2])
  BY <1>1 DEF Evaluate, IsText, IsDocument, IsArray
<1> QED BY <1>1, <1>2 DEF ResolvePath

-----------------------------------------------------------------------------
(* Projections.                                                             *)

(* A specification of one field, which is not the _id. *)
LEMMA ProjectsOneField ==
  ASSUME NEW name, name # "_id", NEW v, NEW d
  PROVE  LET spec == << <<name, v>> >>
         IN  /\ Picked(spec, {i \in DOMAIN spec : spec[i][1] # "_id"}) = spec
             /\ IdOf(d, spec) = Present(<< <<"_id", Find(d, "_id")>> >>)
             /\ KeepsId(spec)
             /\ OnFields(spec) = IF TruthyProjection(v) THEN {name} ELSE {}
             /\ OffFields(spec) = IF TruthyProjection(v) THEN {} ELSE {name}
<1> DEFINE spec == << <<name, v>> >>
<1>1. IsList(spec) /\ DOMAIN spec = 1 .. 1 /\ spec[1][1] = name /\ spec[1][2] = v /\ Names(spec) = {name}
  BY OneField
<1> HIDE DEF spec
<1>2. {i \in DOMAIN spec : spec[i][1] # "_id"} = DOMAIN spec
  BY <1>1
<1>3. Picked(spec, {i \in DOMAIN spec : spec[i][1] # "_id"}) = spec
  BY <1>1, <1>2, PickedAll
<1>4. KeepsId(spec) /\ IdOf(d, spec) = Present(<< <<"_id", Find(d, "_id")>> >>)
  BY <1>1 DEF KeepsId, IdOf
<1>5. /\ OnFields(spec) = IF TruthyProjection(v) THEN {name} ELSE {}
      /\ OffFields(spec) = IF TruthyProjection(v) THEN {} ELSE {name}
  BY <1>1 DEF OnFields, OffFields
<1> QED BY <1>3, <1>4, <1>5 DEF spec

LEMMA WantedFieldIsComputed ==
  ASSUME NEW name, name # "_id", IsTopLevel(name), NEW stream
  PROVE  ProjectStage(stream, << <<name, Int32(1)>> >>) = ProjectStage(stream, << <<name, FieldRef(name)>> >>)
<1> DEFINE named == << <<name, Int32(1)>> >>
           computed == << <<name, FieldRef(name)>> >>
<1>1. /\ DOMAIN named = 1 .. 1 /\ named[1][1] = name /\ named[1][2] = Int32(1) /\ Names(named) = {name}
      /\ DOMAIN computed = 1 .. 1 /\ computed[1][1] = name /\ computed[1][2] = FieldRef(name)
      /\ Names(computed) = {name}
  BY OneField
<1>2. /\ TruthyProjection(Int32(1)) /\ IsSwitch(Int32(1)) /\ IsOn(Int32(1))
      /\ ~TruthyProjection(FieldRef(name)) /\ ~IsSwitch(FieldRef(name))
  BY DEF TruthyProjection, IsSwitch, IsOn, IsNumeric, Int32, FieldRef
<1>3. /\ Picked(named, {i \in DOMAIN named : named[i][1] # "_id"}) = named
      /\ OnFields(named) = {name} /\ OffFields(named) = {}
      /\ Picked(computed, {i \in DOMAIN computed : computed[i][1] # "_id"}) = computed
  BY <1>2, ProjectsOneField
<1>4. ASSUME NEW d PROVE IdOf(d, named) = IdOf(d, computed)
  <2>1. IdOf(d, named) = Present(<< <<"_id", Find(d, "_id")>> >>)
    BY ProjectsOneField, ZenonT(30)
  <2>2. IdOf(d, computed) = Present(<< <<"_id", Find(d, "_id")>> >>)
    BY ProjectsOneField, ZenonT(30)
  <2> QED BY <2>1, <2>2
<1> HIDE DEF named, computed
<1>5. ASSUME NEW d PROVE Evaluate(d, FieldRef(name)) = Find(d, name)
  BY RefFinds
<1>6. ASSUME NEW d
      PROVE  /\ Project(d, named) = IdOf(d, named) \o Present(<< <<name, Find(d, name)>> >>)
             /\ Computed(d, computed) = IdOf(d, computed) \o Present(<< <<name, Find(d, name)>> >>)
  <2>1. named # <<>>
    BY <1>1
  <2>2. [i \in DOMAIN named |-> <<named[i][1], IF named[i][1] = "_id" THEN Missing ELSE Find(d, named[i][1])>>]
          = << <<name, Find(d, name)>> >>
    BY <1>1
  <2>3. Project(d, named) = IdOf(d, named) \o Present(<< <<name, Find(d, name)>> >>)
    BY <1>3, <2>1, <2>2 DEF Project
  <2>4. [i \in DOMAIN computed |->
           <<computed[i][1], IF computed[i][1] = "_id" THEN Missing
                             ELSE IF TruthyProjection(computed[i][2]) THEN ResolvePath(d, computed[i][1])
                             ELSE Evaluate(d, computed[i][2])>>]
          = << <<name, Find(d, name)>> >>
    BY <1>1, <1>2, <1>5
  <2>5. Computed(d, computed) = IdOf(d, computed) \o Present(<< <<name, Find(d, name)>> >>)
    BY <2>4 DEF Computed
  <2> QED BY <2>3, <2>5
<1>7. ProjectStage(stream, named) = Yields([i \in DOMAIN stream |-> Project(stream[i], named)])
  <2>1. \A i \in DOMAIN named : IsSwitch(named[i][2])
    BY <1>1, <1>2
  <2> QED BY <1>3, <2>1 DEF ProjectStage, Selected
<1>8. ProjectStage(stream, computed) = Yields([i \in DOMAIN stream |-> Computed(stream[i], computed)])
  BY <1>1, <1>2, <1>3 DEF ProjectStage, Selected
<1>9. [i \in DOMAIN stream |-> Project(stream[i], named)] = [i \in DOMAIN stream |-> Computed(stream[i], computed)]
  <2>1. ASSUME NEW d PROVE Project(d, named) = Computed(d, computed)
    <3>1. Project(d, named) = IdOf(d, named) \o Present(<< <<name, Find(d, name)>> >>)
      BY <1>6
    <3>2. Computed(d, computed) = IdOf(d, computed) \o Present(<< <<name, Find(d, name)>> >>)
      BY <1>6
    <3>3. IdOf(d, named) = IdOf(d, computed)
      BY <1>4
    <3> QED BY <3>1, <3>2, <3>3
  <2> QED BY <2>1
<1> QED BY <1>7, <1>8, <1>9 DEF named, computed

LEMMA UnwantedFieldIsUnset ==
  ASSUME NEW name, name # "_id", IsTopLevel(name), NEW stream
  PROVE  ProjectStage(stream, << <<name, Int32(0)>> >>) = UnsetStage(stream, Text(name))
<1> DEFINE spec == << <<name, Int32(0)>> >>
           fields == <<Text(name)>>
<1>1. DOMAIN spec = 1 .. 1 /\ spec[1][1] = name /\ spec[1][2] = Int32(0) /\ Names(spec) = {name}
  BY OneField
<1>2. ~TruthyProjection(Int32(0)) /\ IsSwitch(Int32(0))
  BY DEF TruthyProjection, IsSwitch, IsOn, IsNumeric, Int32
<1>3. /\ Picked(spec, {i \in DOMAIN spec : spec[i][1] # "_id"}) = spec
      /\ OnFields(spec) = {} /\ OffFields(spec) = {name} /\ KeepsId(spec)
  BY <1>2, ProjectsOneField
<1>4. /\ ~IsArray(Text(name)) /\ DOMAIN fields = 1 .. 1 /\ fields[1] = Text(name)
      /\ IsText(Text(name)) /\ Text(name)[2][2] = name
  BY DEF IsArray, IsText, Text
<1> HIDE DEF spec, fields
<1>5. spec # <<>>
  BY <1>1
<1>6. ASSUME NEW d PROVE Project(d, spec) = Without(d, {name})
  <2>1. Project(d, spec) = Selected(d, LAMBDA field : IF field[1] = "_id" THEN KeepsId(spec) ELSE field[1] \notin {name})
    BY <1>3, <1>5 DEF Project
  <2>2. {i \in DOMAIN d : IF d[i][1] = "_id" THEN KeepsId(spec) ELSE d[i][1] \notin {name}}
          = {i \in DOMAIN d : d[i][1] \notin {name}}
    BY <1>3
  <2> QED BY <2>1, <2>2 DEF Without, Selected
<1>7. ProjectStage(stream, spec) = Yields([i \in DOMAIN stream |-> Project(stream[i], spec)])
  <2>1. \A i \in DOMAIN spec : IsSwitch(spec[i][2])
    BY <1>1, <1>2
  <2> QED BY <1>3, <2>1 DEF ProjectStage, Selected
<1>8. {fields[k][2][2] : k \in DOMAIN fields} = {name}
  BY <1>4
<1>9. UnsetStage(stream, Text(name)) = Yields([i \in DOMAIN stream |-> Without(stream[i], {name})])
  BY <1>4, <1>8 DEF UnsetStage, fields
<1> QED BY <1>6, <1>7, <1>9 DEF spec

(* Naming a field and computing it from its own path project alike, and      *)
(* leaving it out is unsetting it, in every stream.                           *)
THEOREM ProjectionsDoAgree == Spec => []ProjectionsAgree
<1>1. ProjectionsAgree
  BY FieldsAssumption, WantedFieldIsComputed, UnwantedFieldIsUnset DEF ProjectionsAgree
<1> QED BY <1>1, PTL

-----------------------------------------------------------------------------
(* Expressions and filters.  What they call on their own parts is closed:   *)
(* so Query.cfg gives the constants Value and Holds.                         *)
ValuesClosed == \A d, expr : Value(d, expr) = Evaluate(d, expr)
FiltersClosed == \A d, filter : Holds(d, filter) = Matches(d, filter)

(* The first of the elements that are picked. *)
LEMMA HeadOfPicked ==
  ASSUME NEW s, IsList(s), NEW K \in SUBSET (DOMAIN s), K # {}
  PROVE  /\ Picked(s, K) # <<>>
         /\ \E i \in K : (\A j \in K : i <= j) /\ Head(Picked(s, K)) = s[i]
<1> DEFINE p == Picked(s, K)
           a == Ascending(K)
<1>1. /\ IsList(p)
      /\ \A k \in DOMAIN p : a[k] \in K /\ p[k] = s[a[k]]
      /\ \A i \in K : \E k \in DOMAIN p : a[k] = i
      /\ \A k, l \in DOMAIN p : k < l => a[k] < a[l]
  BY PickedLists
<1>2. DOMAIN s \subseteq Nat
  BY ListParts
<1> HIDE DEF p, a
<1>3. Len(p) \in Nat /\ DOMAIN p = 1 .. Len(p)
  BY <1>1, ListParts
<1>4. 1 \in DOMAIN p
  BY <1>1, <1>3
<1>5. p # <<>> /\ Head(p) = p[1]
  BY <1>1, <1>4 DEF IsList
<1>6. \A j \in K : a[1] <= j
  BY <1>1, <1>2, <1>3, <1>4
<1> QED BY <1>1, <1>4, <1>5, <1>6 DEF p

LEMMA TwoElements ==
  ASSUME NEW x, NEW y
  PROVE  LET s == <<x, y>>
         IN  /\ IsList(s) /\ DOMAIN s = {1, 2} /\ Len(s) = 2 /\ s[1] = x /\ s[2] = y /\ s # <<>>
<1> DEFINE s == <<x, y>>
<1>1. s = [i \in 1 .. 2 |-> s[i]] /\ DOMAIN s = {1, 2} /\ Len(s) = 2 /\ s[1] = x /\ s[2] = y /\ s # <<>>
  OBVIOUS
<1>2. IsList(s)
  BY <1>1, ListFrom
<1> QED BY <1>1, <1>2

(* A call of an operator. *)
LEMMA CallEvaluates ==
  ASSUME NEW op \in Dollar, NEW arg, NEW d
  PROVE  Evaluate(d, S(op, arg)) = EvaluateOperator(op, d, arg)
<1> DEFINE expr == S(op, arg)
<1>1. expr[1] = "document" /\ expr[2] # <<>> /\ expr[2][1][1] = op /\ expr[2][1][2] = arg
  BY DEF S, Document
<1> HIDE DEF expr
<1>2. Evaluate(d, expr) = EvaluateOperator(op, d, arg)
  BY <1>1 DEF Evaluate, IsText, IsDocument, IsArray
<1> QED BY <1>2 DEF expr

(* Constants. *)
LEMMA ConstantEvaluates ==
  ASSUME NEW expr, expr[1] \in {"null", "bool", "int32", "int64"}, NEW d
  PROVE  Evaluate(d, expr) = expr
BY DEF Evaluate, IsText, IsDocument, IsArray

LEMMA PairEvaluates ==
  ASSUME ValuesClosed, NEW x, NEW y, NEW d
  PROVE  /\ IsArray(Array(<<x, y>>))
         /\ Elements(d, Array(<<x, y>>)) = <<Evaluate(d, x), Evaluate(d, y)>>
<1> DEFINE arg == Array(<<x, y>>)
<1>1. IsArray(arg) /\ arg[2] = <<x, y>>
  BY DEF IsArray, Array
<1> HIDE DEF arg
<1>2. Elements(d, arg) = <<Evaluate(d, x), Evaluate(d, y)>>
  BY <1>1 DEF ValuesClosed, Elements
<1> QED BY <1>1, <1>2 DEF arg

LEMMA SingleEvaluates ==
  ASSUME ValuesClosed, NEW x, NEW d
  PROVE  LET arg == Array(<<x>>)
         IN  IsArray(arg) /\ Len(arg[2]) = 1 /\ Elements(d, arg)[1] = Evaluate(d, x)
<1> DEFINE arg == Array(<<x>>)
<1>1. IsArray(arg) /\ arg[2] = <<x>>
  BY DEF IsArray, Array
<1> HIDE DEF arg
<1>2. Elements(d, arg)[1] = Evaluate(d, x)
  BY <1>1 DEF ValuesClosed, Elements
<1> QED BY <1>1, <1>2 DEF arg

LEMMA TruthOfBool ==
  ASSUME NEW b \in BOOLEAN
  PROVE  Truthy(Bool(b)) <=> b
<1>1. Bool(b)[1] = "bool" /\ Bool(b)[2] = b /\ Bool(b) # Missing /\ Bool(b) # Null
  BY DEF Bool, Missing, Null
<1> QED BY <1>1 DEF Truthy, IsNullish, IsSwitch, IsOn

LEMMA LogicalEvaluates ==
  ASSUME ValuesClosed, NEW x, NEW y, NEW d
  PROVE  /\ Evaluate(d, S("$and", Array(<<x, y>>))) = Bool(Truthy(Evaluate(d, x)) /\ Truthy(Evaluate(d, y)))
         /\ Evaluate(d, S("$or", Array(<<x, y>>))) = Bool(Truthy(Evaluate(d, x)) \/ Truthy(Evaluate(d, y)))
<1> DEFINE arg == Array(<<x, y>>)
           vs == Elements(d, arg)
<1>1. IsArray(arg) /\ DOMAIN vs = {1, 2} /\ vs[1] = Evaluate(d, x) /\ vs[2] = Evaluate(d, y)
  BY PairEvaluates, TwoElements
<1> HIDE DEF arg, vs
<1>2. ASSUME NEW op \in {"$and", "$or"} PROVE Evaluate(d, S(op, arg)) = Logical(op, Elements(d, arg))
  <2>1. Evaluate(d, S(op, arg)) = EvaluateOperator(op, d, arg)
    BY CallEvaluates DEF Dollar
  <2> QED BY <1>1, <2>1 DEF EvaluateOperator
<1>3. Logical("$and", vs) = Bool(Truthy(vs[1]) /\ Truthy(vs[2]))
  <2>1. (\A i \in DOMAIN vs : Truthy(vs[i])) = (Truthy(vs[1]) /\ Truthy(vs[2]))
    BY <1>1
  <2> QED BY <2>1 DEF Logical
<1>4. Logical("$or", vs) = Bool(Truthy(vs[1]) \/ Truthy(vs[2]))
  <2>1. (\E i \in DOMAIN vs : Truthy(vs[i])) = (Truthy(vs[1]) \/ Truthy(vs[2]))
    BY <1>1
  <2> QED BY <2>1 DEF Logical
<1> QED BY <1>1, <1>2, <1>3, <1>4 DEF arg, vs

LEMMA NotEvaluates ==
  ASSUME ValuesClosed, NEW x, NEW d
  PROVE  Evaluate(d, S("$not", Array(<<x>>))) = Bool(~Truthy(Evaluate(d, x)))
<1> DEFINE arg == Array(<<x>>)
<1>1. IsArray(arg) /\ Len(arg[2]) = 1 /\ Elements(d, arg)[1] = Evaluate(d, x)
  BY SingleEvaluates
<1> HIDE DEF arg
<1>2. Evaluate(d, S("$not", arg)) = Not(d, arg)
  <2>1. Evaluate(d, S("$not", arg)) = EvaluateOperator("$not", d, arg)
    BY CallEvaluates DEF Dollar
  <2> QED BY <2>1 DEF EvaluateOperator
<1>3. Not(d, arg) = Bool(~Truthy(Evaluate(d, x)))
  <2>1. (Len(arg[2]) = 1 /\ ~Truthy(Elements(d, arg)[1])) = ~Truthy(Evaluate(d, x))
    BY <1>1
  <2> QED BY <1>1, <2>1 DEF Not
<1> QED BY <1>2, <1>3 DEF arg

(* A comparison of two values that are there. *)
LEMMA ComparisonEvaluates ==
  ASSUME ValuesClosed, NEW op \in {"$eq", "$ne", "$gt", "$gte", "$lt", "$lte"}, NEW x, NEW y, NEW d,
         Evaluate(d, x) # Missing, Evaluate(d, y) # Missing
  PROVE  LET v == Evaluate(d, x)
             w == Evaluate(d, y)
         IN  Evaluate(d, S(op, Array(<<x, y>>))) =
               Bool(CASE op = "$eq" -> ValueEqual(v, w) [] op = "$ne" -> ~ValueEqual(v, w)
                      [] OTHER -> ValueCompare(v, w) \in Verdict[op])
<1> DEFINE arg == Array(<<x, y>>)
           vs == Elements(d, arg)
           v == Evaluate(d, x)
           w == Evaluate(d, y)
<1>1. vs = <<v, w>>
  BY PairEvaluates
<1> HIDE DEF arg, v, w
<1>2. Evaluate(d, S(op, arg)) = Comparison(op, vs)
  <2>1. Evaluate(d, S(op, arg)) = EvaluateOperator(op, d, arg)
    BY CallEvaluates DEF Dollar
  <2> QED BY <2>1 DEF EvaluateOperator
<1> HIDE DEF vs
<1>3. Len(vs) = 2 /\ vs[1] = v /\ vs[2] = w /\ Missing \notin ToSet(vs)
  BY <1>1, TwoElements DEF ToSet, v, w
<1>4. Comparison(op, vs) = Bool(CASE op = "$eq" -> ValueEqual(v, w) [] op = "$ne" -> ~ValueEqual(v, w)
                                  [] OTHER -> ValueCompare(v, w) \in Verdict[op])
  <2>1. CASE op = "$eq"
    BY <1>3, <2>1 DEF Comparison
  <2>2. CASE op = "$ne"
    BY <1>3, <2>2 DEF Comparison
  <2>3. CASE op \notin {"$eq", "$ne"}
    BY <1>3, <2>3 DEF Comparison
  <2> QED BY <2>1, <2>2, <2>3
<1> QED BY <1>2, <1>4 DEF arg, v, w

LEMMA CondEvaluates ==
  ASSUME ValuesClosed, NEW test, test # Missing, NEW x, x # Missing, NEW y, y # Missing, NEW d
  PROVE  Evaluate(d, S("$cond", Array(<<test, x, y>>))) =
           IF Evaluate(d, test) = Missing THEN Missing
           ELSE Evaluate(d, IF Truthy(Evaluate(d, test)) THEN x ELSE y)
<1> DEFINE arg == Array(<<test, x, y>>)
           parts == <<test, x, y>>
<1>1. IsArray(arg) /\ ~IsDocument(arg) /\ arg[2] = parts
  BY DEF IsArray, IsDocument, Array
<1>2. Len(parts) = 3 /\ DOMAIN parts = 1 .. 3 /\ parts[1] = test /\ parts[2] = x /\ parts[3] = y
  OBVIOUS
<1> HIDE DEF arg, parts
<1>3. Missing \notin ToSet(parts)
  BY <1>2 DEF ToSet
<1>4. Evaluate(d, S("$cond", arg)) = Cond(d, parts)
  <2>1. Evaluate(d, S("$cond", arg)) = EvaluateOperator("$cond", d, arg)
    BY CallEvaluates DEF Dollar
  <2>2. CondParts(arg) = parts
    BY <1>1 DEF CondParts
  <2> QED BY <2>1, <2>2 DEF EvaluateOperator
<1>5. Cond(d, parts) = IF Evaluate(d, test) = Missing THEN Missing
                       ELSE Evaluate(d, IF Truthy(Evaluate(d, test)) THEN x ELSE y)
  BY <1>2, <1>3 DEF Cond, ValuesClosed
<1> QED BY <1>4, <1>5 DEF arg

LEMMA IfNullEvaluates ==
  ASSUME ValuesClosed, NEW x, NEW y, NEW d
  PROVE  LET v == Evaluate(d, x)
             w == Evaluate(d, y)
         IN  Evaluate(d, S("$ifNull", Array(<<x, y>>))) =
               IF v \notin {Missing, Null} THEN v ELSE IF w \notin {Missing, Null} THEN w ELSE Null
<1> DEFINE arg == Array(<<x, y>>)
           v == Evaluate(d, x)
           w == Evaluate(d, y)
           vs == Elements(d, arg)
           K == {i \in DOMAIN vs : vs[i] # Missing /\ ~IsNullish(vs[i])}
<1>1. IsList(vs) /\ DOMAIN vs = {1, 2} /\ vs[1] = v /\ vs[2] = w
  <2>1. vs = <<v, w>>
    BY PairEvaluates
  <2> QED BY <2>1, TwoElements
<1>2. Evaluate(d, S("$ifNull", arg)) = IfNull(vs)
  <2>1. Evaluate(d, S("$ifNull", arg)) = EvaluateOperator("$ifNull", d, arg)
    BY CallEvaluates DEF Dollar
  <2> QED BY <2>1 DEF EvaluateOperator
<1>3. IfNull(vs) = FirstOf(Picked(vs, K), Null)
  BY DEF IfNull, Selected
<1> HIDE DEF arg, vs, v, w
<1>4. /\ 1 \in K <=> v \notin {Missing, Null}
      /\ 2 \in K <=> w \notin {Missing, Null}
      /\ K \subseteq {1, 2} /\ K \in SUBSET (DOMAIN vs)
  BY <1>1 DEF IsNullish
<1> HIDE DEF K
<1>5. CASE K = {}
  <2>1. FirstOf(Picked(vs, K), Null) = Null
    BY <1>1, <1>5, PickedNone DEF FirstOf
  <2> QED BY <1>2, <1>3, <1>4, <1>5, <2>1 DEF arg, v, w
<1>6. CASE K # {}
  <2>1. PICK i \in K : Picked(vs, K) # <<>> /\ (\A j \in K : i <= j) /\ Head(Picked(vs, K)) = vs[i]
    BY <1>1, <1>4, <1>6, HeadOfPicked
  <2>2. FirstOf(Picked(vs, K), Null) = vs[i]
    BY <2>1 DEF FirstOf
  <2>3. vs[i] = IF v \notin {Missing, Null} THEN v ELSE w
    BY <1>1, <1>4, <2>1
  <2>4. v \in {Missing, Null} => w \notin {Missing, Null}
    BY <1>4, <1>6
  <2> QED BY <1>2, <1>3, <2>2, <2>3, <2>4 DEF arg, v, w
<1> QED BY <1>5, <1>6

(* A document of two fields. *)
LEMMA TwoFields ==
  ASSUME NEW name, NEW v, NEW other, other # name, NEW w
  PROVE  LET d == << <<name, v>>, <<other, w>> >>
         IN  /\ IsList(d) /\ Names(d) = {name, other}
             /\ Find(d, name) = v /\ Find(d, other) = w
<1> DEFINE d == << <<name, v>>, <<other, w>> >>
<1>1. IsList(d) /\ DOMAIN d = {1, 2} /\ d[1] = <<name, v>> /\ d[2] = <<other, w>>
  BY TwoElements
<1> HIDE DEF d
<1>2. Names(d) = {name, other}
  BY <1>1 DEF Names
<1>3. Find(d, name) = v
  BY <1>1, <1>2, FindsFirst
<1>4. Find(d, other) = w
  BY <1>1, <1>2, FindsFirst
<1> QED BY <1>1, <1>2, <1>3, <1>4 DEF d

(* A $switch of one branch and a default. *)
LEMMA SwitchEvaluates ==
  ASSUME ValuesClosed, NEW test, NEW x, NEW y, NEW d
  PROVE  Evaluate(d, Doc("$switch", << <<"branches", Array(<<Document(<< <<"case", test>>, <<"then", x>> >>)>>)>>,
                                       <<"default", y>> >>))
           = Evaluate(d, IF Truthy(Evaluate(d, test)) THEN x ELSE y)
<1> DEFINE branch == Document(<< <<"case", test>>, <<"then", x>> >>)
           branches == Array(<<branch>>)
           spec == << <<"branches", branches>>, <<"default", y>> >>
           taken == Selected(branches[2], LAMBDA b : Taken(d, b))
<1>1. IsDocument(branch) /\ Names(branch[2]) = {"case", "then"}
      /\ Find(branch[2], "case") = test /\ Find(branch[2], "then") = x
  BY TwoFields DEF Document, IsDocument
<1>2. Find(spec, "branches") = branches /\ Find(spec, "default") = y /\ "default" \in Names(spec)
  BY TwoFields
<1>3. IsArray(branches) /\ branches[2] = <<branch>>
  BY DEF IsArray, Array
<1>4. IsDocument(Document(spec)) /\ Document(spec)[2] = spec
  BY DEF IsDocument, Document
<1> HIDE DEF spec, branches, branch
<1>5. Evaluate(d, Doc("$switch", spec)) = Switch(d, spec)
  <2>1. Evaluate(d, Doc("$switch", spec)) = EvaluateOperator("$switch", d, Document(spec))
    BY CallEvaluates DEF Doc, Dollar
  <2> QED BY <1>4, <2>1 DEF EvaluateOperator
<1>6. Taken(d, branch) <=> Truthy(Evaluate(d, test))
  BY <1>1 DEF Taken, ValuesClosed
<1>7. taken = IF Truthy(Evaluate(d, test)) THEN <<branch>> ELSE <<>>
  <2>1. IsList(<<branch>>) /\ DOMAIN <<branch>> = {1} /\ <<branch>>[1] = branch
    <3>1. <<branch>> = [i \in 1 .. 1 |-> <<branch>>[i]]
      OBVIOUS
    <3> QED BY <3>1, ListFrom
  <2>2. taken = Picked(<<branch>>, {i \in DOMAIN <<branch>> : Taken(d, <<branch>>[i])})
    BY <1>3 DEF Selected
  <2>3. {i \in DOMAIN <<branch>> : Taken(d, <<branch>>[i])} =
          IF Truthy(Evaluate(d, test)) THEN DOMAIN <<branch>> ELSE {}
    BY <1>6, <2>1
  <2> QED BY <2>1, <2>2, <2>3, PickedAll, PickedNone
<1> HIDE DEF taken
<1>8. Switch(d, spec) = IF taken # <<>> THEN Value(d, Find(Head(taken)[2], "then")) ELSE Value(d, y)
  BY <1>2, <1>3 DEF Switch, taken
<1>9. CASE Truthy(Evaluate(d, test))
  <2>1. taken # <<>> /\ Head(taken) = branch
    BY <1>7, <1>9
  <2> QED BY <1>1, <1>5, <1>8, <1>9, <2>1 DEF ValuesClosed, spec, branches, branch
<1>10. CASE ~Truthy(Evaluate(d, test))
  BY <1>5, <1>7, <1>8, <1>10 DEF ValuesClosed, spec, branches, branch
<1> QED BY <1>9, <1>10

(* $switch, $cond, $ifNull, $and, $or and $not agree about every value, of  *)
(* whatever type, that two fields of a document have or lack.                *)
THEOREM BranchesDoAgree ==
  ASSUME ValuesClosed
  PROVE  Spec => []BranchesAgree
<1>1. BranchesAgree
  <2> SUFFICES ASSUME NEW i \in DOMAIN docs, NEW f \in Fields, NEW g \in Fields
               PROVE  LET Val(expr) == Evaluate(docs[i], expr)
                          Branch(test, x, y) ==
                            Doc("$switch", << <<"branches", Array(<<Document(<< <<"case", test>>, <<"then", x>> >>)>>)>>,
                                              <<"default", y>> >>)
                          Choice(test, x, y) == S("$cond", Array(<<test, x, y>>))
                          No(x) == S("$not", Array(<<x>>))
                          isNull == S("$not", Array(<<Call2("$ne", FieldRef(f), Null)>>))
                      IN  /\ Val(FieldRef(f)) # Missing =>
                               /\ Val(Branch(FieldRef(f), FieldRef(g), Int32(0))) =
                                    Val(Choice(FieldRef(f), FieldRef(g), Int32(0)))
                               /\ OrNull(Val(Call2("$ifNull", FieldRef(f), FieldRef(g)))) =
                                    OrNull(Val(Choice(isNull, FieldRef(g), FieldRef(f))))
                          /\ Val(Branch(FieldRef(f), Int32(1), Int32(0))) =
                               Int32(IF Truthy(Find(docs[i], f)) THEN 1 ELSE 0)
                          /\ Val(No(Call2("$and", FieldRef(f), FieldRef(g)))) =
                               Val(Call2("$or", No(FieldRef(f)), No(FieldRef(g))))
                          /\ Val(No(Call2("$or", FieldRef(f), FieldRef(g)))) =
                               Val(Call2("$and", No(FieldRef(f)), No(FieldRef(g))))
    BY DEF BranchesAgree
  <2> DEFINE d == docs[i]
             Branch(test, x, y) ==
               Doc("$switch", << <<"branches", Array(<<Document(<< <<"case", test>>, <<"then", x>> >>)>>)>>,
                                 <<"default", y>> >>)
             Choice(test, x, y) == S("$cond", Array(<<test, x, y>>))
             No(x) == S("$not", Array(<<x>>))
             ref == FieldRef(f)
             other == FieldRef(g)
             v == Evaluate(d, ref)
             w == Evaluate(d, other)
             isNull == No(Call2("$ne", ref, Null))
  <2>1. /\ ref # Missing /\ other # Missing /\ Int32(0) # Missing /\ isNull # Missing
        /\ Null # Missing /\ Evaluate(d, Null) = Null
        /\ \A n : Evaluate(d, Int32(n)) = Int32(n)
    <3>1. Null[1] = "null" /\ \A n : Int32(n)[1] = "int32"
      BY DEF Null, Int32
    <3> QED BY <3>1, ConstantEvaluates DEF FieldRef, Missing, Int32, Null, S, Document
  <2>2. v = Find(d, f)
    BY RefFinds, FieldsAssumption
  <2>3. Evaluate(d, Branch(ref, other, Int32(0))) = IF Truthy(v) THEN w ELSE Int32(0)
    BY <2>1, SwitchEvaluates
  <2>4. Evaluate(d, Choice(ref, other, Int32(0))) =
          IF v = Missing THEN Missing ELSE IF Truthy(v) THEN w ELSE Int32(0)
    BY <2>1, CondEvaluates
  <2>5. Evaluate(d, Branch(ref, Int32(1), Int32(0))) = Int32(IF Truthy(v) THEN 1 ELSE 0)
    BY <2>1, SwitchEvaluates
  <2>6. ASSUME v # Missing
        PROVE  OrNull(Evaluate(d, Call2("$ifNull", ref, other))) = OrNull(Evaluate(d, Choice(isNull, other, ref)))
    <3>1. Evaluate(d, Call2("$ifNull", ref, other)) =
            IF v # Null THEN v ELSE IF w \notin {Missing, Null} THEN w ELSE Null
      BY <2>6, IfNullEvaluates DEF Call2
    <3>2. Evaluate(d, isNull) = Bool(v = Null)
      <4>1. Evaluate(d, Call2("$ne", ref, Null)) = Bool(~ValueEqual(v, Null))
        BY <2>1, <2>6, ComparisonEvaluates DEF Call2
      <4>2. ValueEqual(v, Null) = (v = Null)
        <5>1. Null # MinKey /\ Null[1] = "null"
          BY DEF Null, MinKey
        <5> QED BY <5>1 DEF ValueEqual, IsNumeric
      <4>3. Evaluate(d, isNull) = Bool(~Truthy(Bool(~(v = Null))))
        BY <4>1, <4>2, NotEvaluates
      <4>4. Truthy(Bool(~(v = Null))) <=> ~(v = Null)
        BY TruthOfBool
      <4>5. (~Truthy(Bool(~(v = Null)))) = (v = Null)
        BY <4>4
      <4> QED BY <4>3, <4>5
    <3>3. Truthy(Bool(v = Null)) <=> v = Null
      BY TruthOfBool
    <3>4. Bool(v = Null) # Missing
      BY DEF Bool, Missing
    <3>5. Evaluate(d, Choice(isNull, other, ref)) =
            IF Evaluate(d, isNull) = Missing THEN Missing
            ELSE Evaluate(d, IF Truthy(Evaluate(d, isNull)) THEN other ELSE ref)
      <4> HIDE DEF isNull, ref, other, d
      <4> QED BY <2>1, CondEvaluates
    <3>6. Evaluate(d, Choice(isNull, other, ref)) = IF v = Null THEN w ELSE v
      BY <3>2, <3>3, <3>4, <3>5
    <3> HIDE DEF v, w, d
    <3>7. OrNull(IF v # Null THEN v ELSE IF w \notin {Missing, Null} THEN w ELSE Null) =
            OrNull(IF v = Null THEN w ELSE v)
      BY <2>1, <2>6 DEF OrNull
    <3> QED BY <3>1, <3>6, <3>7
  <2>7. /\ Evaluate(d, No(Call2("$and", ref, other))) = Bool(~(Truthy(v) /\ Truthy(w)))
        /\ Evaluate(d, No(Call2("$or", ref, other))) = Bool(~(Truthy(v) \/ Truthy(w)))
    <3>1. /\ Evaluate(d, Call2("$and", ref, other)) = Bool(Truthy(v) /\ Truthy(w))
          /\ Evaluate(d, Call2("$or", ref, other)) = Bool(Truthy(v) \/ Truthy(w))
      BY LogicalEvaluates DEF Call2
    <3>2. /\ Truthy(Bool(Truthy(v) /\ Truthy(w))) = (Truthy(v) /\ Truthy(w))
          /\ Truthy(Bool(Truthy(v) \/ Truthy(w))) = (Truthy(v) \/ Truthy(w))
      BY TruthOfBool DEF Truthy
    <3> QED BY <3>1, <3>2, NotEvaluates
  <2>8. /\ Evaluate(d, Call2("$or", No(ref), No(other))) = Bool(~(Truthy(v) /\ Truthy(w)))
        /\ Evaluate(d, Call2("$and", No(ref), No(other))) = Bool(~(Truthy(v) \/ Truthy(w)))
    <3>1. Evaluate(d, No(ref)) = Bool(~Truthy(v)) /\ Evaluate(d, No(other)) = Bool(~Truthy(w))
      BY NotEvaluates
    <3>2. (Truthy(Bool(~Truthy(v))) <=> ~Truthy(v)) /\ (Truthy(Bool(~Truthy(w))) <=> ~Truthy(w))
      BY TruthOfBool
    <3>3. /\ Evaluate(d, Call2("$or", No(ref), No(other))) = Bool(Truthy(Bool(~Truthy(v))) \/ Truthy(Bool(~Truthy(w))))
          /\ Evaluate(d, Call2("$and", No(ref), No(other))) = Bool(Truthy(Bool(~Truthy(v))) /\ Truthy(Bool(~Truthy(w))))
      BY <3>1, LogicalEvaluates DEF Call2
    <3>4. /\ (Truthy(Bool(~Truthy(v))) \/ Truthy(Bool(~Truthy(w)))) = (~(Truthy(v) /\ Truthy(w)))
          /\ (Truthy(Bool(~Truthy(v))) /\ Truthy(Bool(~Truthy(w)))) = (~(Truthy(v) \/ Truthy(w)))
      BY <3>2
    <3> QED BY <3>3, <3>4
  <2> QED BY <2>2, <2>3, <2>4, <2>5, <2>6, <2>7, <2>8
<1> QED BY <1>1, PTL

(* A literal stands for itself, whatever it is. *)
LEMMA LiteralEvaluates ==
  ASSUME NEW v, NEW d
  PROVE  Evaluate(d, S("$literal", v)) = v
<1>1. Evaluate(d, S("$literal", v)) = EvaluateOperator("$literal", d, v)
  BY CallEvaluates DEF Dollar
<1> QED BY <1>1 DEF EvaluateOperator

(* A filter of one field and a document of one operator. *)
LEMMA FieldMatches ==
  ASSUME NEW name, name \notin Dollar, IsTopLevel(name), NEW op \in Dollar, NEW w, NEW d
  PROVE  Matches(d, << <<name, S(op, w)>> >>) <=> EvalOperator(op, w, Find(d, name))
<1> DEFINE clause == S(op, w)
           filter == << <<name, clause>> >>
<1>1. DOMAIN filter = {1} /\ filter[1][1] = name /\ filter[1][2] = clause
  OBVIOUS
<1>2. IsDocument(clause) /\ clause[2] # <<>> /\ DOMAIN clause[2] = {1}
      /\ clause[2][1][1] = op /\ clause[2][1][2] = w
  BY DEF S, Document, IsDocument
<1> HIDE DEF filter, clause
<1>3. Matches(d, filter) <=> EvalField(d, name, clause)
  BY <1>1 DEF Matches
<1>4. EvalField(d, name, clause) <=> EvalOperator(op, w, Find(d, name))
  BY <1>2 DEF EvalField, IsOperatorDoc, ResolvePath
<1> QED BY <1>3, <1>4 DEF filter, clause

LEMMA OperatorMatches ==
  ASSUME NEW op \in Dollar, NEW arg, NEW d
  PROVE  Matches(d, << <<op, arg>> >>) <=> EvalTopOperator(op, arg, d)
<1> DEFINE filter == << <<op, arg>> >>
<1>1. DOMAIN filter = {1} /\ filter[1][1] = op /\ filter[1][2] = arg
  OBVIOUS
<1> HIDE DEF filter
<1>2. Matches(d, filter) <=> EvalTopOperator(op, arg, d)
  BY <1>1 DEF Matches
<1> QED BY <1>2 DEF filter

LEMMA ExprMatches ==
  ASSUME NEW expr, NEW d
  PROVE  Matches(d, << <<"$expr", expr>> >>) <=> Truthy(Evaluate(d, expr))
<1>1. Matches(d, << <<"$expr", expr>> >>) <=> EvalTopOperator("$expr", expr, d)
  BY OperatorMatches DEF Dollar
<1> QED BY <1>1 DEF EvalTopOperator

(* $and and $or of two filters. *)
LEMMA LogicalMatches ==
  ASSUME FiltersClosed, NEW f, NEW g, NEW d
  PROVE  LET both == Array(<<Document(f), Document(g)>>)
         IN  /\ Matches(d, << <<"$and", both>> >>) <=> Matches(d, f) /\ Matches(d, g)
             /\ Matches(d, << <<"$or", both>> >>) <=> Matches(d, f) \/ Matches(d, g)
<1> DEFINE both == Array(<<Document(f), Document(g)>>)
           c == both[2]
<1>1. IsArray(both) /\ c = <<Document(f), Document(g)>>
  BY DEF IsArray, Array
<1>2. IsDocument(Document(f)) /\ Document(f)[2] = f /\ IsDocument(Document(g)) /\ Document(g)[2] = g
  BY DEF IsDocument, Document
<1>3. DOMAIN c = {1, 2} /\ Len(c) = 2 /\ c # <<>> /\ c[1] = Document(f) /\ c[2] = Document(g)
  BY <1>1
<1> HIDE DEF both, c
<1>4. /\ \A i \in DOMAIN c : IsDocument(c[i])
      /\ \A j \in 2 .. 2 : IsDocument(c[j])
      /\ \A j \in 3 .. 2 : IsDocument(c[j])
      /\ Holds(d, c[1][2]) = Matches(d, f) /\ Holds(d, c[2][2]) = Matches(d, g)
  BY <1>2, <1>3 DEF FiltersClosed
<1>5. EvalLogical("$and", both, d) <=> Matches(d, f) /\ Matches(d, g)
  BY <1>1, <1>3, <1>4 DEF EvalLogical, c
<1>6. EvalLogical("$or", both, d) <=> Matches(d, f) \/ Matches(d, g)
  <2>1. EvalLogical("$or", both, d) <=>
          \E i \in DOMAIN c : (IsDocument(c[i]) /\ Holds(d, c[i][2])) /\ \A j \in i + 1 .. Len(c) : IsDocument(c[j])
    BY <1>1, <1>3 DEF EvalLogical, c
  <2>2. \A i \in DOMAIN c : \A j \in i + 1 .. Len(c) : IsDocument(c[j])
    BY <1>3, <1>4
  <2> QED BY <1>3, <1>4, <2>1, <2>2
<1>7. \A op \in {"$and", "$or"} : Matches(d, << <<op, both>> >>) <=> EvalLogical(op, both, d)
  <2> TAKE op \in {"$and", "$or"}
  <2>1. Matches(d, << <<op, both>> >>) <=> EvalTopOperator(op, both, d)
    BY OperatorMatches DEF Dollar
  <2> QED BY <2>1 DEF EvalTopOperator
<1> QED BY <1>5, <1>6, <1>7 DEF both

Comparisons == {"$eq", "$ne", "$gt", "$gte", "$lt", "$lte"}

(* One comparison, by the filter language and by an expression. *)
LEMMA ComparisonsAgree ==
  ASSUME ValuesClosed, NEW name, name \notin Dollar, IsTopLevel(name), NEW w, w # Missing,
         NEW d, Find(d, name) # Missing, ~IsArray(Find(d, name)), NEW op \in Comparisons
  PROVE  Matches(d, << <<name, S(op, w)>> >>) <=>
           Truthy(Evaluate(d, S(op, Array(<<FieldRef(name), S("$literal", w)>>))))
<1> DEFINE v == Find(d, name)
<1>1. Evaluate(d, FieldRef(name)) = v /\ Evaluate(d, S("$literal", w)) = w
  BY RefFinds, LiteralEvaluates
<1>2. Matches(d, << <<name, S(op, w)>> >>) <=> EvalOperator(op, w, v)
  BY FieldMatches DEF Comparisons, Dollar
<1> HIDE DEF v
<1>3. ValueEqual(w, v) <=> ValueEqual(v, w)
  BY DEF ValueEqual, EqualNumbers
<1>4. EqualsOrContains(w, v) <=> ValueEqual(v, w)
  BY <1>3 DEF EqualsOrContains, v
<1> DEFINE verdict == CASE op = "$eq" -> ValueEqual(v, w) [] op = "$ne" -> ~ValueEqual(v, w)
                        [] OTHER -> ValueCompare(v, w) \in Verdict[op]
<1>5. EvalOperator(op, w, v) <=> verdict
  <2>1. v # Missing
    BY DEF v
  <2>2. CASE op = "$eq"
    BY <1>4, <2>1, <2>2 DEF EvalOperator, Verdict
  <2>3. CASE op = "$ne"
    BY <1>4, <2>1, <2>3 DEF EvalOperator, Verdict
  <2>4. CASE op \notin {"$eq", "$ne"}
    <3>1. op \in {"$gt", "$gte", "$lt", "$lte"} /\ op \in DOMAIN Verdict
      BY <2>4 DEF Comparisons, Verdict
    <3>2. EvalOperator(op, w, v) <=> ValueCompare(v, w) \in Verdict[op]
      BY <2>1, <3>1 DEF EvalOperator, Ordered
    <3>3. verdict <=> ValueCompare(v, w) \in Verdict[op]
      BY <2>4
    <3> QED BY <3>2, <3>3
  <2> QED BY <2>2, <2>3, <2>4
<1>6. Evaluate(d, S(op, Array(<<FieldRef(name), S("$literal", w)>>))) = Bool(verdict)
  BY <1>1, ComparisonEvaluates DEF Comparisons, v
<1>7. verdict \in BOOLEAN
  <2>1. ValueEqual(v, w) \in BOOLEAN
    BY DEF ValueEqual, EqualNumbers
  <2>2. CASE op = "$eq"
    BY <2>1, <2>2
  <2>3. CASE op = "$ne"
    BY <2>3
  <2>4. CASE op \notin {"$eq", "$ne"}
    <3>1. verdict = (ValueCompare(v, w) \in Verdict[op])
      BY <2>4
    <3> HIDE DEF verdict
    <3> QED BY <3>1
  <2> QED BY <2>2, <2>3, <2>4
<1> HIDE DEF verdict
<1>8. Truthy(Bool(verdict)) <=> verdict
  BY <1>7, TruthOfBool
<1> QED BY <1>2, <1>5, <1>6, <1>8 DEF v

(* $in, by the filter language and by an expression. *)
LEMMA InsAgree ==
  ASSUME ValuesClosed, NEW name, name \notin Dollar, IsTopLevel(name), NEW x, NEW y,
         NEW d, Find(d, name) # Missing, ~IsArray(Find(d, name))
  PROVE  LET wanted == Array(<<x, y>>)
         IN  Matches(d, << <<name, S("$in", wanted)>> >>) <=>
               Truthy(Evaluate(d, S("$in", Array(<<FieldRef(name), S("$literal", wanted)>>))))
<1> DEFINE v == Find(d, name)
           wanted == Array(<<x, y>>)
           arg == Array(<<FieldRef(name), S("$literal", wanted)>>)
           vs == Elements(d, arg)
<1>1. IsArray(wanted) /\ DOMAIN wanted[2] = {1, 2} /\ wanted[2][1] = x /\ wanted[2][2] = y
  BY DEF IsArray, Array
<1> HIDE DEF wanted
<1>2. vs = <<v, wanted>>
  <2>1. Evaluate(d, FieldRef(name)) = v /\ Evaluate(d, S("$literal", wanted)) = wanted
    BY RefFinds, LiteralEvaluates
  <2> QED BY <2>1, PairEvaluates
<1>3. Matches(d, << <<name, S("$in", wanted)>> >>) <=> EvalOperator("$in", wanted, v)
  BY FieldMatches DEF Dollar
<1>4. Evaluate(d, S("$in", arg)) = In(vs)
  <2>1. Evaluate(d, S("$in", arg)) = EvaluateOperator("$in", d, arg)
    BY CallEvaluates DEF Dollar
  <2> QED BY <2>1 DEF EvaluateOperator
<1> HIDE DEF arg, vs, v
<1>5. Len(vs) = 2 /\ vs[1] = v /\ vs[2] = wanted
  BY <1>2
<1>6. v # Missing /\ ~IsArray(v)
  BY DEF v
<1> DEFINE found == \E i \in DOMAIN wanted[2] : ValueEqual(v, wanted[2][i])
<1>7. In(vs) = Bool(found)
  <2>1. (Len(vs) = 2 /\ IsArray(vs[2]) /\ vs[1] # Missing /\ \E i \in DOMAIN vs[2][2] : ValueEqual(vs[1], vs[2][2][i])) = found
    BY <1>1, <1>5, <1>6
  <2> QED BY <2>1 DEF In
<1>8. EvalOperator("$in", wanted, v) <=> found
  <2>1. \A i : EqualsOrContains(wanted[2][i], v) <=> ValueEqual(v, wanted[2][i])
    BY <1>6 DEF EqualsOrContains, ValueEqual, EqualNumbers
  <2>2. EvalIn(wanted, v) <=> found
    BY <1>1, <2>1 DEF EvalIn
  <2> QED BY <1>6, <2>2 DEF EvalOperator, Verdict
<1>9. Truthy(Bool(found)) <=> found
  BY TruthOfBool
<1> QED BY <1>3, <1>4, <1>7, <1>8, <1>9 DEF v, arg, wanted

(* The filter language and the expressions agree about every field with one *)
(* value, of whatever type, and every value it is compared with.             *)
THEOREM FilterDoesAgreeWithExpr ==
  ASSUME ValuesClosed, FiltersClosed
  PROVE  Spec => []FilterAgreesWithExpr
<1>1. FilterAgreesWithExpr
  <2> SUFFICES ASSUME NEW i \in DOMAIN docs, NEW name \in Fields, NEW w \in Probes,
                      Find(docs[i], name) # Missing, ~IsArray(Find(docs[i], name))
               PROVE  LET Clause(op) == << <<name, S(op, w)>> >>
                          Expr(op) == S(op, Array(<<FieldRef(name), S("$literal", w)>>))
                          Both(op) == Array(<<Document(Clause("$gte")), Document(Clause("$ne"))>>)
                          Tests(op) == Array(<<Expr("$gte"), Expr("$ne")>>)
                      IN  /\ \A op \in {"$eq", "$ne", "$gt", "$gte", "$lt", "$lte"} :
                               Matches(docs[i], Clause(op)) <=> Matches(docs[i], << <<"$expr", Expr(op)>> >>)
                          /\ Matches(docs[i], << <<name, S("$in", Array(<<Null, w>>))>> >>) <=>
                               Truthy(Evaluate(docs[i], S("$in", Array(<<FieldRef(name), S("$literal", Array(<<Null, w>>))>>))))
                          /\ \A op \in {"$and", "$or"} :
                               Matches(docs[i], << <<op, Both(op)>> >>) <=>
                                 Matches(docs[i], << <<"$expr", S(op, Tests(op))>> >>)
    BY DEF FilterAgreesWithExpr
  <2> DEFINE d == docs[i]
             Clause(op) == << <<name, S(op, w)>> >>
             Expr(op) == S(op, Array(<<FieldRef(name), S("$literal", w)>>))
  <2>1. name \notin Dollar /\ IsTopLevel(name) /\ w # Missing
    BY FieldsAssumption
  <2>2. ASSUME NEW op \in Comparisons PROVE Matches(d, Clause(op)) <=> Truthy(Evaluate(d, Expr(op)))
    BY <2>1, ComparisonsAgree
  <2>3. ASSUME NEW op \in Comparisons PROVE Matches(d, Clause(op)) <=> Matches(d, << <<"$expr", Expr(op)>> >>)
    BY <2>2, ExprMatches
  <2>4. Matches(d, << <<name, S("$in", Array(<<Null, w>>))>> >>) <=>
          Truthy(Evaluate(d, S("$in", Array(<<FieldRef(name), S("$literal", Array(<<Null, w>>))>>))))
    BY <2>1, InsAgree
  <2>5. ASSUME NEW op \in {"$and", "$or"}
        PROVE  Matches(d, << <<op, Array(<<Document(Clause("$gte")), Document(Clause("$ne"))>>)>> >>) <=>
                 Matches(d, << <<"$expr", S(op, Array(<<Expr("$gte"), Expr("$ne")>>))>> >>)
    <3> DEFINE p == Matches(d, Clause("$gte"))
               q == Matches(d, Clause("$ne"))
               both == Array(<<Document(Clause("$gte")), Document(Clause("$ne"))>>)
               tests == Array(<<Expr("$gte"), Expr("$ne")>>)
    <3>1. /\ Matches(d, << <<"$and", both>> >>) <=> p /\ q
          /\ Matches(d, << <<"$or", both>> >>) <=> p \/ q
      BY LogicalMatches
    <3>2. (p <=> Truthy(Evaluate(d, Expr("$gte")))) /\ (q <=> Truthy(Evaluate(d, Expr("$ne"))))
      BY <2>2 DEF Comparisons
    <3>3. /\ Evaluate(d, S("$and", tests)) = Bool(Truthy(Evaluate(d, Expr("$gte"))) /\ Truthy(Evaluate(d, Expr("$ne"))))
          /\ Evaluate(d, S("$or", tests)) = Bool(Truthy(Evaluate(d, Expr("$gte"))) \/ Truthy(Evaluate(d, Expr("$ne"))))
      BY LogicalEvaluates
    <3>4. Matches(d, << <<"$expr", S(op, tests)>> >>) <=> Truthy(Evaluate(d, S(op, tests)))
      BY ExprMatches
    <3> HIDE DEF p, q, both, tests, d, Expr
    <3>5. /\ Truthy(Evaluate(d, S("$and", tests))) <=> Truthy(Evaluate(d, Expr("$gte"))) /\ Truthy(Evaluate(d, Expr("$ne")))
          /\ Truthy(Evaluate(d, S("$or", tests))) <=> Truthy(Evaluate(d, Expr("$gte"))) \/ Truthy(Evaluate(d, Expr("$ne")))
      BY <3>3, TruthOfBool
    <3>6. Matches(d, << <<op, both>> >>) <=> Matches(d, << <<"$expr", S(op, tests)>> >>)
      <4>1. CASE op = "$and"
        BY <3>1, <3>2, <3>4, <3>5, <4>1
      <4>2. CASE op = "$or"
        BY <3>1, <3>2, <3>4, <3>5, <4>2
      <4> QED BY <4>1, <4>2
    <3> QED BY <3>6 DEF both, tests, d, Expr
  <2> QED BY <2>3, <2>4, <2>5 DEF Comparisons
<1> QED BY <1>1, PTL

-----------------------------------------------------------------------------
(* Documents in parts.                                                      *)

(* The first field of a name is the one that is found. *)
LEMMA FindIs ==
  ASSUME NEW d, IsList(d), NEW name, NEW i \in DOMAIN d, d[i][1] = name,
         \A j \in DOMAIN d : d[j][1] = name => i <= j
  PROVE  name \in Names(d) /\ Find(d, name) = d[i][2]
<1>1. name \in Names(d)
  BY DEF Names
<1>2. PICK k \in DOMAIN d : d[k][1] = name /\ Find(d, name) = d[k][2] /\ \A j \in DOMAIN d : d[j][1] = name => k <= j
  BY <1>1, FindsFirst
<1>3. i = k
  <2>1. DOMAIN d \subseteq Nat
    BY ListParts
  <2> QED BY <1>2, <2>1
<1> QED BY <1>1, <1>2, <1>3

LEMMA FindIfOnce ==
  ASSUME NEW d, IsList(d), NamesOnce(d), NEW i \in DOMAIN d
  PROVE  d[i][1] \in Names(d) /\ Find(d, d[i][1]) = d[i][2]
<1>1. \A j \in DOMAIN d : d[j][1] = d[i][1] => i <= j
  <2>1. DOMAIN d \subseteq Nat
    BY ListParts
  <2> QED BY <2>1 DEF NamesOnce
<1> QED BY <1>1, FindIs

(* Two documents side by side. *)
LEMMA ConcatFields ==
  ASSUME NEW d, IsList(d), NEW e, IsList(e)
  PROVE  /\ Names(d \o e) = Names(d) \cup Names(e)
         /\ \A name \in Names(d) : Find(d \o e, name) = Find(d, name)
         /\ \A name : name \notin Names(d) => Find(d \o e, name) = Find(e, name)
         /\ NamesOnce(d) /\ NamesOnce(e) /\ Names(d) \cap Names(e) = {} => NamesOnce(d \o e)
         /\ \A i \in DOMAIN (d \o e) : (\E j \in DOMAIN d : (d \o e)[i] = d[j]) \/ (\E j \in DOMAIN e : (d \o e)[i] = e[j])
<1> DEFINE c == d \o e
           n == Len(d)
<1>1. /\ IsList(c)
      /\ \A i \in DOMAIN d : i \in DOMAIN c /\ c[i] = d[i]
      /\ \A i \in DOMAIN e : n + i \in DOMAIN c /\ c[n + i] = e[i]
      /\ \A k \in DOMAIN c : k \in DOMAIN d \/ (k - n \in DOMAIN e /\ c[k] = e[k - n])
  <2>1. IsList(c) /\ \A i \in DOMAIN d : i \in DOMAIN c /\ c[i] = d[i]
    BY ConcatLists
  <2>2. \A i \in DOMAIN e : n + i \in DOMAIN c /\ c[n + i] = e[i]
    BY ConcatLists
  <2>3. \A k \in DOMAIN c : k \in DOMAIN d \/ (k - n \in DOMAIN e /\ c[k] = e[k - n])
    BY ConcatLists
  <2> QED BY <2>1, <2>2, <2>3
<1>2. n \in Nat /\ DOMAIN d = 1 .. n /\ DOMAIN e \subseteq Nat \ {0} /\ DOMAIN c \subseteq Nat
  BY <1>1, ListParts
<1> HIDE DEF c, n
<1>3. Names(c) = Names(d) \cup Names(e)
  BY <1>1 DEF Names
<1>4. ASSUME NEW name \in Names(d) PROVE Find(c, name) = Find(d, name)
  <2>1. PICK i \in DOMAIN d : d[i][1] = name /\ Find(d, name) = d[i][2] /\ \A j \in DOMAIN d : d[j][1] = name => i <= j
    BY FindsFirst
  <2>2. i \in DOMAIN c /\ c[i] = d[i]
    BY <1>1, <2>1
  <2>3. \A j \in DOMAIN c : c[j][1] = name => i <= j
    BY <1>1, <1>2, <2>1
  <2> QED BY <1>1, <2>1, <2>2, <2>3, FindIs
<1>5. ASSUME NEW name, name \notin Names(d) PROVE Find(c, name) = Find(e, name)
  <2>1. CASE name \in Names(e)
    <3>1. PICK i \in DOMAIN e : e[i][1] = name /\ Find(e, name) = e[i][2] /\ \A j \in DOMAIN e : e[j][1] = name => i <= j
      BY <2>1, FindsFirst
    <3>2. n + i \in DOMAIN c /\ c[n + i] = e[i]
      BY <1>1, <3>1
    <3>3. ASSUME NEW j \in DOMAIN c, c[j][1] = name PROVE n + i <= j
      <4>1. j \notin DOMAIN d
        BY <1>1, <1>5, <3>3 DEF Names
      <4>2. j - n \in DOMAIN e /\ c[j] = e[j - n]
        BY <1>1, <4>1
      <4>3. i <= j - n
        BY <3>1, <3>3, <4>2
      <4> QED BY <1>2, <4>2, <4>3
    <3> QED BY <1>1, <3>1, <3>2, <3>3, FindIs
  <2>2. CASE name \notin Names(e)
    BY <1>1, <1>3, <1>5, <2>2, FindsFirst
  <2> QED BY <2>1, <2>2
<1>6. ASSUME NamesOnce(d), NamesOnce(e), Names(d) \cap Names(e) = {} PROVE NamesOnce(c)
  <2> SUFFICES ASSUME NEW i \in DOMAIN c, NEW j \in DOMAIN c, c[i][1] = c[j][1] PROVE i = j
    BY DEF NamesOnce
  <2>1. CASE i \in DOMAIN d /\ j \in DOMAIN d
    BY <1>1, <1>6, <2>1 DEF NamesOnce
  <2>2. CASE i \notin DOMAIN d /\ j \notin DOMAIN d
    <3>1. i - n \in DOMAIN e /\ c[i] = e[i - n] /\ j - n \in DOMAIN e /\ c[j] = e[j - n]
      BY <1>1, <2>2
    <3>2. i - n = j - n
      BY <1>6, <3>1 DEF NamesOnce
    <3> QED BY <1>2, <3>1, <3>2
  <2>3. CASE i \in DOMAIN d /\ j \notin DOMAIN d
    <3>1. c[i][1] \in Names(d) /\ c[j][1] \in Names(e)
      BY <1>1, <2>3 DEF Names
    <3> QED BY <1>6, <3>1
  <2>4. CASE i \notin DOMAIN d /\ j \in DOMAIN d
    <3>1. c[i][1] \in Names(e) /\ c[j][1] \in Names(d)
      BY <1>1, <2>4 DEF Names
    <3> QED BY <1>6, <3>1
  <2> QED BY <2>1, <2>2, <2>3, <2>4
<1>7. \A i \in DOMAIN c : (\E j \in DOMAIN d : c[i] = d[j]) \/ (\E j \in DOMAIN e : c[i] = e[j])
  BY <1>1
<1> QED BY <1>3, <1>4, <1>5, <1>6, <1>7 DEF c

(* A document whose fields are changed one by one, each under its name. *)
LEMMA ChangedFields ==
  ASSUME NEW d, IsList(d), NEW e, e = [i \in DOMAIN d |-> e[i]], \A i \in DOMAIN d : e[i][1] = d[i][1]
  PROVE  /\ IsList(e) /\ DOMAIN e = DOMAIN d /\ Names(e) = Names(d)
         /\ NamesOnce(d) => NamesOnce(e)
         /\ \A name \in Names(d) : \E i \in DOMAIN d :
              d[i][1] = name /\ Find(d, name) = d[i][2] /\ Find(e, name) = e[i][2]
<1>1. DOMAIN d = 1 .. Len(d) /\ Len(d) \in Nat
  BY ListParts
<1>2. e = [i \in 1 .. Len(d) |-> e[i]]
  BY <1>1
<1>3. IsList(e) /\ DOMAIN e = DOMAIN d
  <2>1. IsList(e)
    BY <1>1, <1>2, ListFrom
  <2>2. DOMAIN e = 1 .. Len(d)
    BY <1>1, <1>2, ListFrom
  <2> QED BY <1>1, <2>1, <2>2
<1>4. Names(e) = Names(d)
  BY <1>3 DEF Names
<1>5. NamesOnce(d) => NamesOnce(e)
  BY <1>3 DEF NamesOnce
<1>6. ASSUME NEW name \in Names(d)
      PROVE  \E i \in DOMAIN d : d[i][1] = name /\ Find(d, name) = d[i][2] /\ Find(e, name) = e[i][2]
  <2>1. PICK i \in DOMAIN d : d[i][1] = name /\ Find(d, name) = d[i][2] /\ \A j \in DOMAIN d : d[j][1] = name => i <= j
    BY FindsFirst
  <2>2. Find(e, name) = e[i][2]
    BY <1>3, <2>1, FindIs
  <2> QED BY <2>1, <2>2
<1> QED BY <1>3, <1>4, <1>5, <1>6

(* A document without some of its fields. *)
LEMMA WithoutFields ==
  ASSUME NEW d, IsList(d), NEW R
  PROVE  LET kept == Without(d, R)
         IN  /\ IsList(kept) /\ Names(kept) = Names(d) \ R
             /\ NamesOnce(d) => NamesOnce(kept)
             /\ \A name : name \notin R => Find(kept, name) = Find(d, name)
             /\ \A i \in DOMAIN kept : \E j \in DOMAIN d : kept[i] = d[j]
<1> DEFINE K == {i \in DOMAIN d : d[i][1] \notin R}
           kept == Picked(d, K)
           a == Ascending(K)
<1>1. Without(d, R) = kept
  BY DEF Without, Selected
<1>2. /\ IsList(kept)
      /\ \A k \in DOMAIN kept : a[k] \in K /\ kept[k] = d[a[k]]
      /\ \A i \in K : \E k \in DOMAIN kept : a[k] = i
      /\ \A k, l \in DOMAIN kept : k < l => a[k] < a[l]
  BY PickedLists
<1>3. DOMAIN kept \subseteq Nat /\ DOMAIN d \subseteq Nat
  BY <1>2, ListParts
<1> HIDE DEF kept, a
<1>4. Names(kept) = Names(d) \ R
  BY <1>2 DEF Names
<1>5. ASSUME NamesOnce(d) PROVE NamesOnce(kept)
  <2> SUFFICES ASSUME NEW k \in DOMAIN kept, NEW l \in DOMAIN kept, kept[k][1] = kept[l][1] PROVE k = l
    BY DEF NamesOnce
  <2>1. a[k] = a[l]
    BY <1>2, <1>5 DEF NamesOnce
  <2>2. a[k] \in Nat
    BY <1>2, <1>3
  <2> QED BY <1>2, <1>3, <2>1, <2>2
<1>6. ASSUME NEW name, name \notin R PROVE Find(kept, name) = Find(d, name)
  <2>1. CASE name \in Names(d)
    <3>1. PICK i \in DOMAIN d : d[i][1] = name /\ Find(d, name) = d[i][2] /\ \A j \in DOMAIN d : d[j][1] = name => i <= j
      BY <2>1, FindsFirst
    <3>2. PICK k \in DOMAIN kept : a[k] = i
      BY <1>2, <1>6, <3>1
    <3>3. ASSUME NEW l \in DOMAIN kept, kept[l][1] = name PROVE k <= l
      <4>1. a[k] <= a[l] /\ a[k] \in Nat /\ a[l] \in Nat
        BY <1>2, <1>3, <3>1, <3>2, <3>3
      <4>2. l < k => a[l] < a[k]
        BY <1>2
      <4> QED BY <1>3, <4>1, <4>2
    <3> QED BY <1>2, <3>1, <3>2, <3>3, FindIs
  <2>2. CASE name \notin Names(d)
    BY <1>2, <1>4, <2>2, FindsFirst
  <2> QED BY <2>1, <2>2
<1>7. \A i \in DOMAIN kept : \E j \in DOMAIN d : kept[i] = d[j]
  BY <1>2
<1> QED BY <1>1, <1>2, <1>4, <1>5, <1>6, <1>7

-----------------------------------------------------------------------------
(* The update engine.                                                       *)

LEMMA RemainderInRange ==
  ASSUME NEW a \in Int, NEW m \in Nat \ {0}
  PROVE  a % m \in 0 .. m - 1 /\ a \div m \in Int /\ a = m * (a \div m) + (a % m)
OBVIOUS

LEMMA OneQuotient ==
  ASSUME NEW m \in Nat \ {0}, NEW p \in Int, NEW q \in Int,
         NEW r \in 0 .. m - 1, NEW s \in 0 .. m - 1, m * p + r = m * q + s
  PROVE  p = q
OBVIOUS

LEMMA OneRemainder ==
  ASSUME NEW a \in Int, NEW m \in Nat \ {0}, NEW k \in Int, NEW r \in 0 .. m - 1, a = m * k + r
  PROVE  a % m = r
<1>1. a % m \in 0 .. m - 1 /\ a \div m \in Int /\ a = m * (a \div m) + (a % m)
  BY RemainderInRange
<1>2. a \div m = k
  BY <1>1, OneQuotient
<1> QED BY <1>1, <1>2

(* int64 arithmetic: a sum fits, and what is added can be taken away.       *)
LEMMA WrapFits ==
  ASSUME NEW n \in Int
  PROVE  Wrap(n) \in -IntBound .. IntBound - 1
<1>1. 2 * IntBound \in Nat \ {0} /\ n + IntBound \in Int /\ IntBound \in Nat
  BY BsonAssumption
<1>2. (n + IntBound) % (2 * IntBound) \in 0 .. 2 * IntBound - 1
  BY <1>1, RemainderInRange
<1> QED BY <1>1, <1>2 DEF Wrap

LEMMA WrapCancels ==
  ASSUME NEW n \in -IntBound .. IntBound - 1, NEW delta \in Int
  PROVE  Wrap(Wrap(n + delta) - delta) = n
<1> DEFINE m == 2 * IntBound
           a == n + delta + IntBound
           k == a \div m
<1>1. m \in Nat \ {0} /\ IntBound \in Nat /\ a \in Int /\ n \in Int
  BY BsonAssumption
<1>2. k \in Int /\ a = m * k + (a % m) /\ a % m \in 0 .. m - 1
  BY <1>1, RemainderInRange
<1>3. Wrap(n + delta) = (a % m) - IntBound
  BY DEF Wrap
<1>4. Wrap(n + delta) - delta + IntBound = (a % m) - delta /\ (a % m) - delta \in Int
  BY <1>1, <1>2, <1>3
<1>5. (a % m) - delta = m * (-k) + (n + IntBound)
  <2>1. (a % m) = n + delta + IntBound - m * k
    BY <1>1, <1>2
  <2>2. m * (-k) = -(m * k) /\ m * k \in Int
    BY <1>1, <1>2
  <2> HIDE DEF m, k
  <2> QED BY <1>1, <1>2, <2>1, <2>2
<1>6. n + IntBound \in 0 .. m - 1 /\ -k \in Int
  BY <1>1, <1>2
<1> HIDE DEF m, a, k
<1>7. ((a % m) - delta) % m = n + IntBound
  BY <1>1, <1>4, <1>5, <1>6, OneRemainder
<1>8. Wrap(Wrap(n + delta) - delta) = ((Wrap(n + delta) - delta + IntBound) % m) - IntBound
  BY DEF Wrap, m
<1> QED BY <1>1, <1>4, <1>7, <1>8

LEMMA GreatestNumber ==
  ASSUME NEW n \in Nat, NEW U \in SUBSET (1 .. n), U # {}
  PROVE  \E x \in U : \A y \in U : y <= x
<1> DEFINE T == {n - x : x \in U}
<1>1. T \subseteq Nat /\ T # {}
  <2>1. \A x \in U : n - x \in Nat
    OBVIOUS
  <2>2. PICK x \in U : TRUE
    OBVIOUS
  <2>3. n - x \in T
    BY <2>2
  <2> QED BY <2>1, <2>3
<1>2. PICK z \in T : \A y \in T : z <= y
  <2> HIDE DEF T
  <2> QED BY <1>1, LeastNumber
<1>3. PICK x \in U : z = n - x
  BY <1>2
<1>4. \A y \in U : n - x <= n - y
  BY <1>2, <1>3
<1> QED BY <1>3, <1>4

LEMMA FindsLast ==
  ASSUME NEW d, IsList(d), NEW name \in Names(d)
  PROVE  \E i \in DOMAIN d : d[i][1] = name /\ FindLast(d, name) = d[i][2]
<1> DEFINE at == {i \in DOMAIN d : d[i][1] = name}
<1>1. at # {} /\ at \in SUBSET (1 .. Len(d)) /\ Len(d) \in Nat
  BY ListParts DEF Names
<1>2. FindLast(d, name) = d[CHOOSE i \in at : \A j \in at : j <= i][2]
  BY <1>1 DEF FindLast
<1>3. (CHOOSE i \in at : \A j \in at : j <= i) \in at
  <2> HIDE DEF at
  <2>1. \E i \in at : \A j \in at : j <= i
    BY <1>1, GreatestNumber
  <2> QED BY <2>1
<1> QED BY <1>2, <1>3

(* The names of a list, and those an operator of an update names, are finite. *)
LEMMA NamesAreFinite ==
  ASSUME NEW d, IsList(d)
  PROVE  IsFiniteSet(Names(d))
<1> DEFINE f == [i \in DOMAIN d |-> d[i][1]]
<1>1. IsFiniteSet({f[i] : i \in DOMAIN d})
  <2> HIDE DEF f
  <2> QED BY FiniteListDomain, FiniteImage
<1>2. Names(d) = {f[i] : i \in DOMAIN d}
  BY DEF Names
<1> QED BY <1>1, <1>2

(* An update specification of a call. *)
IsSpec(spec) ==
  /\ IsObject(spec)
  /\ NamesOnce(spec)
  /\ \A op \in Operators : \A i \in Operands(spec, op) : IsObject(spec[i][2][2])

LEMMA NamedAreFinite ==
  ASSUME NEW spec, IsSpec(spec), NEW op \in Operators
  PROVE  IsFiniteSet(NamedBy(spec, op))
<1> DEFINE f == [i \in Operands(spec, op) |-> Names(spec[i][2][2])]
           T == {f[i] : i \in Operands(spec, op)}
<1>1. IsFiniteSet(Operands(spec, op))
  <2>1. Operands(spec, op) \subseteq DOMAIN spec
    BY DEF Operands
  <2> QED BY <2>1, FiniteListDomain, FS_Subset DEF IsSpec, IsObject
<1>2. \A i \in Operands(spec, op) : IsFiniteSet(Names(spec[i][2][2]))
  BY NamesAreFinite DEF IsSpec, IsObject
<1>3. \A t \in T : IsFiniteSet(t)
  BY <1>2
<1>4. NamedBy(spec, op) = UNION T
  BY DEF NamedBy
<1>5. IsFiniteSet(T)
  <2> HIDE DEF f
  <2> QED BY <1>1, FiniteImage
<1> HIDE DEF T
<1> QED BY <1>3, <1>4, <1>5, FS_UNION

(* A value that a document may have. *)
Fits(v) == v # Missing /\ FitsWidth(v)

LEMMA ArgumentFits ==
  ASSUME NEW spec, IsSpec(spec), NEW op \in Operators, NEW name \in NamedBy(spec, op)
  PROVE  Fits(Argument(spec, op, name))
<1> DEFINE naming == {i \in Operands(spec, op) : name \in Names(spec[i][2][2])}
           last == CHOOSE i \in naming : \A j \in naming : j <= i
<1>1. naming # {} /\ naming \in SUBSET (1 .. Len(spec)) /\ Len(spec) \in Nat
  BY ListParts DEF NamedBy, Operands, IsSpec, IsObject
<1>2. last \in naming
  <2> HIDE DEF naming
  <2>1. \E i \in naming : \A j \in naming : j <= i
    BY <1>1, GreatestNumber
  <2> QED BY <2>1
<1>3. Argument(spec, op, name) = FindLast(spec[last][2][2], name)
  BY DEF Argument
<1>4. IsObject(spec[last][2][2]) /\ name \in Names(spec[last][2][2])
  BY <1>2 DEF IsSpec
<1> HIDE DEF last
<1>5. PICK i \in DOMAIN spec[last][2][2] : FindLast(spec[last][2][2], name) = spec[last][2][2][i][2]
  BY <1>4, FindsLast DEF IsObject
<1> QED BY <1>3, <1>4, <1>5 DEF IsObject, Fits

LEMMA AmountIsNumber ==
  ASSUME NEW v, FitsWidth(v)
  PROVE  /\ AsInt(Amount(v)) \in Int /\ AsDouble(Amount(v)) \in Int
         /\ v[1] # "double" => AsInt(Amount(v)) \in -IntBound .. IntBound - 1
<1>0. IntBound \in Nat \ {0, 1} /\ Scale \in Nat \ {0} /\ Doubles \subseteq Int
  BY BsonAssumption, DoublesAssumption, DoublesAreNumbers
<1>1. CASE v[1] = "double"
  <2>1. v[2] \in Int /\ Amount(v) = v
    BY <1>0, <1>1 DEF FitsWidth, Amount, IsNumeric
  <2>2. v[2] \div Scale \in Int /\ (-v[2]) \div Scale \in Int
    BY <1>0, <2>1, RemainderInRange
  <2> QED BY <1>1, <2>1, <2>2 DEF AsInt, AsDouble
<1>2. CASE v[1] # "double"
  <2>1. Amount(v)[1] # "double" /\ Amount(v)[2] \in -IntBound .. IntBound - 1
    <3>1. CASE IsNumeric(v)
      BY <1>2, <3>1 DEF FitsWidth, Amount, IsNumeric
    <3>2. CASE ~IsNumeric(v)
      <4>1. PICK n \in {0, 1} : Amount(v) = Int64(n)
        BY <3>2 DEF Amount
      <4>2. n \in -IntBound .. IntBound - 1
        BY <1>0
      <4> QED BY <4>1, <4>2 DEF Int64
    <3> QED BY <3>1, <3>2
  <2>2. Rounded(Scale * Amount(v)[2]) \in Int
    <3>1. Scale * Amount(v)[2] \in Int
      BY <1>0, <2>1
    <3> QED BY <1>0, <3>1, RoundedIsDouble
  <2> QED BY <2>1, <2>2 DEF AsInt, AsDouble
<1> QED BY <1>1, <1>2

LEMMA SumFits ==
  ASSUME NEW v, IsNumeric(v), FitsWidth(v), NEW delta, FitsWidth(delta)
  PROVE  Fits(IncSum(v, delta)) /\ IsNumeric(IncSum(v, delta))
<1>1. Amount(v) = v
  BY DEF Amount
<1>2. /\ AsInt(v) + AsInt(Amount(delta)) \in Int
      /\ AsDouble(v) + AsDouble(Amount(delta)) \in Int
  BY <1>1, AmountIsNumber
<1>3. Wrap(AsInt(v) + AsInt(Amount(delta))) \in -IntBound .. IntBound - 1
  BY <1>2, WrapFits
<1>4. Rounded(AsDouble(v) + AsDouble(Amount(delta))) \in Doubles
  BY <1>2, RoundedIsDouble
<1> QED BY <1>3, <1>4 DEF IncSum, Fits, FitsWidth, IsNumeric, Missing, Int64, Double

LEMMA FreshFits ==
  ASSUME NEW delta, Fits(delta)
  PROVE  Fits(IncFresh(delta))
<1>1. delta[1] # "double" => AsInt(Amount(delta)) \in -IntBound .. IntBound - 1
  BY AmountIsNumber DEF Fits
<1> QED BY <1>1 DEF IncFresh, Fits, FitsWidth, Missing, Int64

(* Fields whose names are a list without repetitions. *)
LEMMA NamedFromList ==
  ASSUME NEW list, IsList(list), \A i, j \in DOMAIN list : list[i] = list[j] => i = j,
         NEW d, d = [i \in DOMAIN list |-> d[i]], \A i \in DOMAIN list : d[i][1] = list[i]
  PROVE  IsList(d) /\ DOMAIN d = DOMAIN list /\ NamesOnce(d) /\ Names(d) = {list[i] : i \in DOMAIN list}
<1>1. DOMAIN list = 1 .. Len(list) /\ Len(list) \in Nat
  BY ListParts
<1>2. IsList(d) /\ DOMAIN d = 1 .. Len(list)
  <2>1. d = [i \in 1 .. Len(list) |-> d[i]]
    BY <1>1
  <2> QED BY <1>1, <2>1, ListFrom
<1> QED BY <1>1, <1>2 DEF NamesOnce, Names

(* What an update of operators appends. *)
LEMMA FreshFieldsApply ==
  ASSUME NEW doc, IsObject(doc), NEW spec, IsSpec(spec)
  PROVE  LET fresh == FreshFields(doc, spec)
             left == Names(doc) \ NamedBy(spec, "$unset")
         IN  /\ IsObject(fresh)
             /\ Names(fresh) \subseteq (NamedBy(spec, "$set") \ left) \cup (NamedBy(spec, "$inc") \ AppliesInc(spec, Names(doc)))
             /\ NamedBy(spec, "$set") \cap NamedBy(spec, "$inc") = {} => NamesOnce(fresh)
             /\ (\A op \in {"$set", "$inc"} : NamedBy(spec, op) \subseteq left)
                   /\ NamedBy(spec, "$set") \cap NamedBy(spec, "$inc") = {} => fresh = <<>>
<1> DEFINE left == Names(doc) \ NamedBy(spec, "$unset")
           U == NamedBy(spec, "$set") \ AppliesSet(spec, Names(doc))
           T == NamedBy(spec, "$inc") \ AppliesInc(spec, Names(doc))
           set == Listed(U)
           inc == Listed(T)
           d == [i \in DOMAIN set |-> <<set[i], Argument(spec, "$set", set[i])>>]
           e == [i \in DOMAIN inc |-> <<inc[i], IncFresh(Argument(spec, "$inc", inc[i]))>>]
<1>1. FreshFields(doc, spec) = d \o e
  BY DEF FreshFields
<1>2. IsFiniteSet(U) /\ IsFiniteSet(T)
  BY NamedAreFinite, FS_Difference DEF Operators
<1>3. /\ U = NamedBy(spec, "$set") \ left
      /\ NamedBy(spec, "$set") \cap NamedBy(spec, "$inc") = {} => T = NamedBy(spec, "$inc") \ left
  BY DEF AppliesSet, AppliesInc
<1>4. U \subseteq NamedBy(spec, "$set") /\ T \subseteq NamedBy(spec, "$inc")
  OBVIOUS
<1>5. /\ \A i \in DOMAIN set : d[i][1] = set[i] /\ d[i][2] = Argument(spec, "$set", set[i])
      /\ \A i \in DOMAIN inc : e[i][1] = inc[i] /\ e[i][2] = IncFresh(Argument(spec, "$inc", inc[i]))
      /\ d = [i \in DOMAIN set |-> d[i]] /\ e = [i \in DOMAIN inc |-> e[i]]
  OBVIOUS
<1> HIDE DEF U, T
<1>6. /\ IsList(set) /\ (\A i \in DOMAIN set : set[i] \in U)
      /\ (\A i, j \in DOMAIN set : set[i] = set[j] => i = j) /\ (U = {} => set = <<>>)
  BY <1>2, ListedOnce
<1>7. /\ IsList(inc) /\ (\A i \in DOMAIN inc : inc[i] \in T)
      /\ (\A i, j \in DOMAIN inc : inc[i] = inc[j] => i = j) /\ (T = {} => inc = <<>>)
  BY <1>2, ListedOnce
<1> HIDE DEF d, e, set, inc, left
<1>8. IsList(d) /\ DOMAIN d = DOMAIN set /\ NamesOnce(d) /\ Names(d) = {set[i] : i \in DOMAIN set}
  BY <1>5, <1>6, NamedFromList
<1>9. IsList(e) /\ DOMAIN e = DOMAIN inc /\ NamesOnce(e) /\ Names(e) = {inc[i] : i \in DOMAIN inc}
  BY <1>5, <1>7, NamedFromList
<1>10. /\ \A i \in DOMAIN d : Fits(d[i][2])
       /\ \A i \in DOMAIN e : Fits(e[i][2])
  <2>1. ASSUME NEW i \in DOMAIN d PROVE Fits(d[i][2])
    BY <1>4, <1>5, <1>6, <1>8, ArgumentFits DEF Operators
  <2>2. ASSUME NEW i \in DOMAIN e PROVE Fits(e[i][2])
    <3>1. Fits(Argument(spec, "$inc", inc[i]))
      BY <1>4, <1>7, <1>9, ArgumentFits DEF Operators
    <3> QED BY <1>5, <1>9, <3>1, FreshFits
  <2> QED BY <2>1, <2>2
<1>11. IsObject(d \o e)
  <2>1. IsList(d \o e)
    BY <1>8, <1>9, ConcatLists
  <2>2. \A i \in DOMAIN (d \o e) : (\E j \in DOMAIN d : (d \o e)[i] = d[j]) \/ (\E j \in DOMAIN e : (d \o e)[i] = e[j])
    BY <1>8, <1>9, ConcatFields
  <2> QED BY <1>10, <2>1, <2>2 DEF IsObject, Fits
<1>12. Names(d \o e) = Names(d) \cup Names(e) /\ (Names(d) \cap Names(e) = {} => NamesOnce(d \o e))
  BY <1>8, <1>9, ConcatFields
<1>13. Names(d) \subseteq U /\ Names(e) \subseteq T
  BY <1>6, <1>7, <1>8, <1>9
<1>14. Names(d \o e) \subseteq (NamedBy(spec, "$set") \ left) \cup (NamedBy(spec, "$inc") \ AppliesInc(spec, Names(doc)))
  BY <1>3, <1>12, <1>13 DEF T
<1>15. NamedBy(spec, "$set") \cap NamedBy(spec, "$inc") = {} => NamesOnce(d \o e)
  BY <1>4, <1>12, <1>13
<1>16. ASSUME \A op \in {"$set", "$inc"} : NamedBy(spec, op) \subseteq left,
              NamedBy(spec, "$set") \cap NamedBy(spec, "$inc") = {}
       PROVE  d \o e = <<>>
  <2>1. U = {} /\ T = {}
    BY <1>3, <1>16
  <2>2. DOMAIN d = {} /\ DOMAIN e = {}
    BY <1>6, <1>7, <1>8, <1>9, <2>1
  <2>3. Len(d) = 0 /\ Len(e) = 0
    BY <1>8, <1>9, <2>2, ListParts
  <2>4. IsList(d \o e) /\ Len(d \o e) = 0
    BY <1>8, <1>9, <2>3, ConcatLists
  <2> QED BY <2>4 DEF IsList
<1> QED BY <1>1, <1>11, <1>14, <1>15, <1>16 DEF left

(* The fields an update of operators keeps, changed under their names. *)
LEMMA KeptFieldsApply ==
  ASSUME NEW doc, IsObject(doc), NEW spec, IsSpec(spec), ApplyOperators(doc, spec).err = 0
  PROVE  LET kept == Without(doc, NamedBy(spec, "$unset"))
             changed == [i \in DOMAIN kept |-> UpdatedField(spec, kept[i])]
         IN  /\ ApplyOperators(doc, spec).doc = changed \o FreshFields(doc, spec)
             /\ IsObject(changed)
             /\ Names(changed) = Names(doc) \ NamedBy(spec, "$unset")
             /\ NamesOnce(doc) => NamesOnce(changed)
             /\ \A name \in Names(doc) : name \notin NamedFields(spec) => Find(changed, name) = Find(doc, name)
<1> DEFINE kept == Without(doc, NamedBy(spec, "$unset"))
           changed == [i \in DOMAIN kept |-> UpdatedField(spec, kept[i])]
           summed == {i \in DOMAIN kept : kept[i][1] \in NamedBy(spec, "$inc") \ NamedBy(spec, "$set")}
<1>1. /\ ApplyOperators(doc, spec).doc = changed \o FreshFields(doc, spec)
      /\ \A i \in summed : IsNumeric(kept[i][2])
  <2>1. /\ ~(\E i \in DOMAIN spec : spec[i][1] \notin Operators)
        /\ ~(\E i \in summed : ~IsNumeric(kept[i][2]))
    BY DEF ApplyOperators, Refused, FailedToParse, TypeMismatch
  <2>2. ApplyOperators(doc, spec) = Changed(changed \o FreshFields(doc, spec))
    BY <2>1 DEF ApplyOperators
  <2> QED BY <2>1, <2>2 DEF Changed
<1>2. /\ IsList(kept) /\ Names(kept) = Names(doc) \ NamedBy(spec, "$unset")
      /\ NamesOnce(doc) => NamesOnce(kept)
      /\ \A name : name \notin NamedBy(spec, "$unset") => Find(kept, name) = Find(doc, name)
      /\ \A i \in DOMAIN kept : \E j \in DOMAIN doc : kept[i] = doc[j]
  BY WithoutFields DEF IsObject
<1>3. changed = [i \in DOMAIN kept |-> changed[i]] /\ \A i \in DOMAIN kept : changed[i] = UpdatedField(spec, kept[i])
  OBVIOUS
<1> HIDE DEF kept, changed
<1>4. \A i \in DOMAIN kept : changed[i][1] = kept[i][1]
  BY <1>3 DEF UpdatedField
<1>5. /\ IsList(changed) /\ DOMAIN changed = DOMAIN kept /\ Names(changed) = Names(kept)
      /\ NamesOnce(kept) => NamesOnce(changed)
      /\ \A name \in Names(kept) : \E i \in DOMAIN kept :
           kept[i][1] = name /\ Find(kept, name) = kept[i][2] /\ Find(changed, name) = changed[i][2]
  BY <1>2, <1>3, <1>4, ChangedFields
<1>6. ASSUME NEW i \in DOMAIN kept PROVE Fits(changed[i][2])
  <2>1. Fits(kept[i][2])
    BY <1>2 DEF IsObject, Fits
  <2>2. CASE kept[i][1] \in NamedBy(spec, "$set")
    <3>1. Fits(Argument(spec, "$set", kept[i][1]))
      BY <2>2, ArgumentFits DEF Operators
    <3> QED BY <1>3, <2>2, <3>1 DEF UpdatedField
  <2>3. CASE kept[i][1] \in NamedBy(spec, "$inc") \ NamedBy(spec, "$set")
    <3>1. Fits(Argument(spec, "$inc", kept[i][1]))
      BY <2>3, ArgumentFits DEF Operators
    <3>2. IsNumeric(kept[i][2])
      BY <1>1, <2>3
    <3>3. Fits(IncSum(kept[i][2], Argument(spec, "$inc", kept[i][1])))
      BY <2>1, <3>1, <3>2, SumFits DEF Fits
    <3> QED BY <1>3, <2>3, <3>3 DEF UpdatedField
  <2>4. CASE kept[i][1] \notin NamedBy(spec, "$inc") \cup NamedBy(spec, "$set")
    BY <1>3, <2>1, <2>4 DEF UpdatedField
  <2> QED BY <2>2, <2>3, <2>4
<1>7. IsObject(changed)
  BY <1>5, <1>6 DEF IsObject, Fits
<1>8. ASSUME NEW name \in Names(doc), name \notin NamedFields(spec) PROVE Find(changed, name) = Find(doc, name)
  <2>1. \A op \in {"$set", "$unset", "$inc"} : name \notin NamedBy(spec, op)
    BY <1>8 DEF NamedFields, Operators
  <2>2. PICK i \in DOMAIN kept : kept[i][1] = name /\ Find(kept, name) = kept[i][2] /\ Find(changed, name) = changed[i][2]
    BY <1>2, <1>5, <2>1
  <2>3. changed[i] = kept[i]
    BY <1>3, <2>1, <2>2 DEF UpdatedField
  <2> QED BY <1>2, <2>1, <2>2, <2>3
<1> QED BY <1>1, <1>2, <1>5, <1>7, <1>8 DEF kept, changed

(* An update of operators leaves the other fields alone, gives an object,   *)
(* and no field twice unless it names it twice.                              *)
LEMMA OperatorsApply ==
  ASSUME NEW doc, IsObject(doc), NEW spec, IsSpec(spec), ApplyOperators(doc, spec).err = 0
  PROVE  LET made == ApplyOperators(doc, spec).doc
         IN  /\ IsObject(made)
             /\ \A name \in Names(doc) : name \notin NamedFields(spec) => Find(made, name) = Find(doc, name)
             /\ NamesOnce(doc) /\ NamedBy(spec, "$set") \cap NamedBy(spec, "$inc") = {} => NamesOnce(made)
<1> DEFINE kept == Without(doc, NamedBy(spec, "$unset"))
           changed == [i \in DOMAIN kept |-> UpdatedField(spec, kept[i])]
           fresh == FreshFields(doc, spec)
<1>1. /\ ApplyOperators(doc, spec).doc = changed \o fresh
      /\ IsObject(changed)
      /\ Names(changed) = Names(doc) \ NamedBy(spec, "$unset")
      /\ NamesOnce(doc) => NamesOnce(changed)
      /\ \A name \in Names(doc) : name \notin NamedFields(spec) => Find(changed, name) = Find(doc, name)
  BY KeptFieldsApply
<1>2. /\ IsObject(fresh)
      /\ Names(fresh) \subseteq (NamedBy(spec, "$set") \ (Names(doc) \ NamedBy(spec, "$unset")))
                               \cup (NamedBy(spec, "$inc") \ AppliesInc(spec, Names(doc)))
      /\ NamedBy(spec, "$set") \cap NamedBy(spec, "$inc") = {} => NamesOnce(fresh)
  BY FreshFieldsApply
<1> HIDE DEF changed, fresh
<1>3. /\ IsList(changed \o fresh)
      /\ \A name \in Names(changed) : Find(changed \o fresh, name) = Find(changed, name)
      /\ NamesOnce(changed) /\ NamesOnce(fresh) /\ Names(changed) \cap Names(fresh) = {} => NamesOnce(changed \o fresh)
      /\ \A i \in DOMAIN (changed \o fresh) :
           (\E j \in DOMAIN changed : (changed \o fresh)[i] = changed[j]) \/ (\E j \in DOMAIN fresh : (changed \o fresh)[i] = fresh[j])
  <2>1. IsList(changed) /\ IsList(fresh)
    BY <1>1, <1>2 DEF IsObject
  <2>2. IsList(changed \o fresh)
    BY <2>1, ConcatLists
  <2> QED BY <2>1, <2>2, ConcatFields
<1>4. IsObject(changed \o fresh)
  BY <1>1, <1>2, <1>3 DEF IsObject
<1>5. ASSUME NEW name \in Names(doc), name \notin NamedFields(spec)
      PROVE  Find(changed \o fresh, name) = Find(doc, name)
  <2>1. name \in Names(changed)
    BY <1>1, <1>5 DEF NamedFields, Operators
  <2> QED BY <1>1, <1>3, <1>5, <2>1
<1>6. ASSUME NamesOnce(doc), NamedBy(spec, "$set") \cap NamedBy(spec, "$inc") = {}
      PROVE  NamesOnce(changed \o fresh)
  <2>1. Names(changed) \cap Names(fresh) = {}
    BY <1>1, <1>2, <1>6 DEF AppliesInc
  <2> QED BY <1>1, <1>2, <1>3, <1>6, <2>1
<1> QED BY <1>1, <1>4, <1>5, <1>6

(* A replacement keeps the _id, and is an object with no field twice.       *)
LEMMA ReplacementApplies ==
  ASSUME NEW doc, IsObject(doc), NEW spec, IsSpec(spec), ApplyReplacement(doc, spec).err = 0
  PROVE  LET made == ApplyReplacement(doc, spec).doc
         IN  IsObject(made) /\ NamesOnce(made)
             /\ ("_id" \in Names(doc) => Find(made, "_id") = Find(doc, "_id"))
<1> DEFINE made == ApplyReplacement(doc, spec).doc
           id == << <<"_id", Find(doc, "_id")>> >>
<1>1. ~IdsDiffer(doc, spec)
  BY DEF ApplyReplacement, Refused, ImmutableField
<1>2. CASE "_id" \in Names(doc) \ Names(spec)
  <2>1. made = id \o spec
    BY <1>1, <1>2 DEF ApplyReplacement, Changed
  <2>2. IsList(id) /\ DOMAIN id = 1 .. 1 /\ id[1] = <<"_id", Find(doc, "_id")>> /\ Names(id) = {"_id"}
        /\ Find(id, "_id") = Find(doc, "_id")
    BY OneField
  <2>3. Fits(Find(doc, "_id"))
    BY <1>2, FindsFirst DEF IsObject, Fits
  <2> HIDE DEF id
  <2>4. NamesOnce(id) /\ \A i \in DOMAIN id : Fits(id[i][2])
    BY <2>2, <2>3 DEF NamesOnce
  <2>5. /\ IsList(id \o spec)
        /\ Find(id \o spec, "_id") = Find(id, "_id")
        /\ NamesOnce(id) /\ NamesOnce(spec) /\ Names(id) \cap Names(spec) = {} => NamesOnce(id \o spec)
        /\ \A i \in DOMAIN (id \o spec) :
             (\E j \in DOMAIN id : (id \o spec)[i] = id[j]) \/ (\E j \in DOMAIN spec : (id \o spec)[i] = spec[j])
    <3>1. IsList(id) /\ IsList(spec) /\ "_id" \in Names(id)
      BY <2>2 DEF IsSpec, IsObject
    <3>2. IsList(id \o spec)
      BY <3>1, ConcatLists
    <3> QED BY <3>1, <3>2, ConcatFields
  <2>6. IsObject(id \o spec)
    BY <2>4, <2>5 DEF IsObject, IsSpec, Fits
  <2> QED BY <1>2, <2>1, <2>2, <2>4, <2>5, <2>6 DEF IsSpec
<1>3. CASE ~("_id" \in Names(doc) \ Names(spec))
  <2>1. made = spec
    BY <1>1, <1>3 DEF ApplyReplacement, Changed
  <2>2. ASSUME "_id" \in Names(doc) PROVE Find(spec, "_id") = Find(doc, "_id")
    <3>1. Find(doc, "_id") # Missing /\ Find(spec, "_id") # Missing
      BY <1>3, <2>2, FindsFirst DEF IsObject, IsSpec
    <3> QED BY <1>1, <3>1 DEF IdsDiffer
  <2> QED BY <2>1, <2>2 DEF IsSpec
<1> QED BY <1>2, <1>3

LEMMA UpdateApplies ==
  ASSUME NEW doc, IsObject(doc), NEW spec, IsSpec(spec), ApplyUpdate(doc, spec).err = 0
  PROVE  LET made == ApplyUpdate(doc, spec).doc
         IN  /\ IsObject(made)
             /\ NamesOnce(doc) /\ NamedBy(spec, "$set") \cap NamedBy(spec, "$inc") = {} => NamesOnce(made)
             /\ "_id" \in Names(doc) /\ "_id" \notin NamedFields(spec) => Find(made, "_id") = Find(doc, "_id")
             /\ spec # <<>> /\ Names(spec) \subseteq Dollar =>
                  \A name \in Names(doc) : name \notin NamedFields(spec) => Find(made, name) = Find(doc, name)
<1>0. spec # <<>> => Names(spec) # {}
  <2>1. SUFFICES ASSUME Names(spec) = {} PROVE spec = <<>>
    OBVIOUS
  <2>2. IsList(spec) /\ DOMAIN spec = {}
    BY <2>1 DEF IsSpec, IsObject, Names
  <2>3. Len(spec) = 0
    BY <2>2, ListParts
  <2> QED BY <2>2, <2>3 DEF IsList
<1>1. CASE Names(spec) \cap Dollar = {}
  <2>1. ~(spec # <<>> /\ Names(spec) \subseteq Dollar)
    BY <1>0, <1>1
  <2>2. ApplyUpdate(doc, spec) = ApplyReplacement(doc, spec)
    BY <1>1, <2>1 DEF ApplyUpdate
  <2> QED BY <2>1, <2>2, ReplacementApplies
<1>2. CASE spec # <<>> /\ Names(spec) \subseteq Dollar
  <2>1. Names(spec) \cap Dollar # {}
    BY <1>0, <1>2
  <2>2. ApplyUpdate(doc, spec) = ApplyOperators(doc, spec)
    BY <1>2, <2>1 DEF ApplyUpdate
  <2> QED BY <2>2, OperatorsApply
<1>3. CASE Names(spec) \cap Dollar # {} /\ ~(spec # <<>> /\ Names(spec) \subseteq Dollar)
  <2>1. ApplyUpdate(doc, spec) = Refused(FailedToParse)
    BY <1>3 DEF ApplyUpdate
  <2> QED BY <2>1 DEF Refused, FailedToParse
<1> QED BY <1>1, <1>2, <1>3

-----------------------------------------------------------------------------
(* The collection (Coll).  Its only index is that of the _id, which is not   *)
(* unique, so nothing clashes.                                              *)

LEMMA NothingClashes == \A m, self, doc : ~Coll!UniqueClash(m, self, doc)
  BY DEF Coll!UniqueClash, Coll!SharesKey, NoKeys

(* The collection with the documents at some slots updated. *)
UpdatedDocs(m, spec, slots) ==
  [i \in DOMAIN m.docs |->
     IF i \in slots THEN [rid |-> m.docs[i].rid, doc |-> ApplyUpdate(m.docs[i].doc, spec).doc] ELSE m.docs[i]]

(* An update that finds a document updates those before the first failure. *)
LEMMA UpdateParts ==
  ASSUME NEW m, IsStored(m), NEW call, call.op = "update",
         ~(Coll!Targets(m, call.filter, call.multi) = {} /\ call.upsert)
  PROVE  \E slots \in SUBSET Coll!Targets(m, call.filter, call.multi) :
           /\ \A i \in slots : ApplyUpdate(m.docs[i].doc, call.spec).err = 0
           /\ Exec(m, call).mem = [m EXCEPT !.docs = UpdatedDocs(m, call.spec, slots)]
           /\ Exec(m, call).err = 0 => slots = Coll!Targets(m, call.filter, call.multi)
<1> DEFINE spec == call.spec
           targets == Coll!Targets(m, call.filter, call.multi)
           stops == Coll!UpdateStops(m, targets, spec)
           p == CHOOSE p \in stops : \A q \in stops : p <= q
           result == Exec(m, call)
           Parts(slots) == /\ \A i \in slots : ApplyUpdate(m.docs[i].doc, spec).err = 0
                           /\ result.mem = [m EXCEPT !.docs = UpdatedDocs(m, spec, slots)]
                           /\ result.err = 0 => slots = targets
<1>1. targets \subseteq DOMAIN m.docs /\ DOMAIN m.docs \subseteq 1 .. m.end /\ m.end \in Nat
  BY DEF Coll!Targets, IsStored
<1>2. \A i \in targets : i \notin stops => ApplyUpdate(m.docs[i].doc, spec).err = 0
  BY DEF Coll!UpdateStops, Coll!UpdateAt
<1>3. \A n : Coll!UpdatedBelow(m, targets, spec, n)
               = [m EXCEPT !.docs = UpdatedDocs(m, spec, {i \in targets : i < n})]
  BY DEF Coll!UpdatedBelow, Coll!UpdateAt, UpdatedDocs
<1>4. result = IF stops = {} THEN [mem |-> Coll!UpdatedBelow(m, targets, spec, m.end + 1), err |-> 0]
               ELSE [mem |-> Coll!UpdatedBelow(m, targets, spec, p),
                     err |-> IF Coll!UpdateAt(m, spec, p).err # 0
                             THEN Coll!UpdateAt(m, spec, p).err ELSE Coll!DuplicateKey]
  BY DEF Exec, Coll!Exec, Coll!Update
<1>5. ASSUME stops # {} PROVE \A q \in stops : p <= q /\ p \in Nat
  <2>1. stops \subseteq Nat
    BY <1>1 DEF Coll!UpdateStops
  <2> HIDE DEF stops
  <2>2. \E x \in stops : \A y \in stops : x <= y
    BY <1>5, <2>1, LeastNumber
  <2> QED BY <2>1, <2>2
<1> HIDE DEF spec, targets, stops, p, result
<1>6. CASE stops = {}
  <2>1. result.mem = Coll!UpdatedBelow(m, targets, spec, m.end + 1)
    BY <1>4, <1>6
  <2>2. {i \in targets : i < m.end + 1} = targets
    BY <1>1
  <2>3. result.mem = [m EXCEPT !.docs = UpdatedDocs(m, spec, targets)]
    BY <1>3, <2>1, <2>2
  <2>4. Parts(targets)
    BY <1>2, <1>6, <2>3
  <2> QED BY <2>4 DEF spec, targets, result
<1>7. CASE stops # {}
  <2> DEFINE before == {i \in targets : i < p}
  <2>1. result.mem = Coll!UpdatedBelow(m, targets, spec, p) /\ result.err # 0
    BY <1>4, <1>7 DEF Coll!DuplicateKey
  <2>2. \A i \in before : i \notin stops
    <3> SUFFICES ASSUME NEW i \in before, i \in stops PROVE FALSE
      OBVIOUS
    <3>1. p <= i /\ p \in Nat /\ i \in Nat
      BY <1>1, <1>5, <1>7
    <3> QED BY <3>1
  <2>3. result.mem = [m EXCEPT !.docs = UpdatedDocs(m, spec, before)]
    BY <1>3, <2>1
  <2>4. Parts(before) /\ before \in SUBSET targets
    BY <1>2, <2>1, <2>2, <2>3
  <2> HIDE DEF before
  <2> QED BY <2>4 DEF spec, targets, result
<1> QED BY <1>6, <1>7

(* What seed_upsert applies an update to: the literal fields of the filter, *)
(* behind a generated _id if there is none.                                  *)
LEMMA SeedStarts ==
  ASSUME NEW filter, IsObject(filter), NEW spec, NEW oid
  PROVE  \E start :
           /\ SeedUpsert(filter, spec, oid) = ApplyUpdate(start, spec)
           /\ IsObject(start)
           /\ NamesOnce(filter) => NamesOnce(start)
           /\ (\A i \in DOMAIN filter : filter[i][1] \notin Dollar /\ ~IsOperatorDoc(filter[i][2])) =>
                \A name \in Names(filter) : name \in Names(start) /\ Find(start, name) = Find(filter, name)
<1> DEFINE K == {i \in DOMAIN filter : filter[i][1] \notin Dollar /\ ~IsOperatorDoc(filter[i][2])}
           fields == Picked(filter, K)
           id == << <<"_id", Oid(oid)>> >>
           start == IF "_id" \in Names(fields) \cup Names(spec) THEN fields ELSE id \o fields
           a == Ascending(K)
<1>1. SeedUpsert(filter, spec, oid) = ApplyUpdate(start, spec)
  BY DEF SeedUpsert, LiteralFields, Selected
<1>2. /\ IsList(filter)
      /\ IsList(fields)
      /\ \A k \in DOMAIN fields : a[k] \in K /\ fields[k] = filter[a[k]]
      /\ \A k, l \in DOMAIN fields : k < l => a[k] < a[l]
  BY PickedLists, ZenonT(30) DEF IsObject
<1>3. K = DOMAIN filter => fields = filter
  BY <1>2, PickedAll
<1>4. DOMAIN fields \subseteq Nat /\ DOMAIN filter \subseteq Nat
  BY <1>2, ListParts
<1>5. IsList(id) /\ DOMAIN id = 1 .. 1 /\ id[1] = <<"_id", Oid(oid)>> /\ Names(id) = {"_id"}
  BY OneField
<1>6. Fits(Oid(oid))
  BY DEF Fits, FitsWidth, Oid, Missing
<1>7. (\A i \in DOMAIN filter : filter[i][1] \notin Dollar /\ ~IsOperatorDoc(filter[i][2])) => fields = filter
  BY <1>3
<1>8. IsObject(fields)
  BY <1>2 DEF IsObject
<1>9. ASSUME NamesOnce(filter) PROVE NamesOnce(fields)
  <2> HIDE DEF fields, a
  <2> SUFFICES ASSUME NEW k \in DOMAIN fields, NEW l \in DOMAIN fields, fields[k][1] = fields[l][1] PROVE k = l
    BY DEF NamesOnce
  <2>1. a[k] = a[l]
    BY <1>2, <1>9 DEF NamesOnce
  <2>2. a[k] \in Nat
    BY <1>2, <1>4
  <2> QED BY <1>2, <1>4, <2>1, <2>2
<1> HIDE DEF fields, id
<1>10. IsList(id \o fields)
  BY <1>2, <1>5, ConcatLists
<1>11. /\ Names(id \o fields) = Names(id) \cup Names(fields)
       /\ \A name : name \notin Names(id) => Find(id \o fields, name) = Find(fields, name)
       /\ NamesOnce(id) /\ NamesOnce(fields) /\ Names(id) \cap Names(fields) = {} => NamesOnce(id \o fields)
       /\ \A i \in DOMAIN (id \o fields) :
            (\E j \in DOMAIN id : (id \o fields)[i] = id[j]) \/ (\E j \in DOMAIN fields : (id \o fields)[i] = fields[j])
  BY <1>2, <1>5, ConcatFields
<1>12. NamesOnce(id) /\ \A i \in DOMAIN id : Fits(id[i][2])
  BY <1>5, <1>6 DEF NamesOnce
<1>13. IsObject(id \o fields)
  BY <1>8, <1>10, <1>11, <1>12 DEF IsObject, Fits
<1>14. IsObject(start)
  BY <1>8, <1>13
<1>15. ASSUME NamesOnce(filter) PROVE NamesOnce(start)
  BY <1>5, <1>9, <1>11, <1>12, <1>15
<1>16. ASSUME fields = filter, NEW name \in Names(filter)
       PROVE  name \in Names(start) /\ Find(start, name) = Find(filter, name)
  <2>1. CASE "_id" \in Names(fields) \cup Names(spec)
    BY <1>16, <2>1
  <2>2. CASE "_id" \notin Names(fields) \cup Names(spec)
    BY <1>5, <1>11, <1>16, <2>2
  <2> QED BY <2>1, <2>2
<1> HIDE DEF start
<1> QED BY <1>1, <1>7, <1>14, <1>15, <1>16

(* A batch of objects appended to the collection. *)
LEMMA GrowStores ==
  ASSUME NEW m, IsStored(m), NEW first, NEW batch, IsList(batch), \A i \in DOMAIN batch : IsObject(batch[i])
  PROVE  LET grown == Coll!Grow(m, first, batch)
         IN  /\ IsStored(grown)
             /\ DOMAIN grown.docs = DOMAIN m.docs \cup (m.end + 1 .. m.end + Len(batch))
             /\ \A i \in DOMAIN m.docs : grown.docs[i] = m.docs[i]
             /\ \A i \in 1 .. Len(batch) : grown.docs[m.end + i].doc = batch[i]
<1> DEFINE grown == Coll!Grow(m, first, batch)
           slots == DOMAIN m.docs \cup (m.end + 1 .. m.end + Len(batch))
<1>1. Len(batch) \in Nat /\ DOMAIN batch = 1 .. Len(batch)
  BY ListParts
<1>2. m.end \in Nat /\ DOMAIN m.docs \subseteq 1 .. m.end /\ \A i \in DOMAIN m.docs : IsObject(m.docs[i].doc)
  BY DEF IsStored
<1>3. /\ grown = [docs |-> grown.docs, end |-> grown.end, next |-> grown.next, idx |-> grown.idx]
      /\ grown.end = m.end + Len(batch)
      /\ grown.docs = [i \in slots |-> IF i <= m.end THEN m.docs[i]
                                       ELSE [rid |-> first + (i - m.end - 1), doc |-> batch[i - m.end]]]
  BY DEF Coll!Grow
<1> HIDE DEF grown
<1>4. \A i \in DOMAIN m.docs : grown.docs[i] = m.docs[i]
  BY <1>2, <1>3
<1>5. \A i \in 1 .. Len(batch) : m.end + i \in slots /\ grown.docs[m.end + i].doc = batch[i]
  BY <1>1, <1>2, <1>3
<1>6. \A i \in slots : i \in DOMAIN m.docs \/ (i - m.end \in 1 .. Len(batch) /\ i = m.end + (i - m.end))
  BY <1>1, <1>2
<1>7. \A i \in slots : IsObject(grown.docs[i].doc)
  BY <1>1, <1>2, <1>4, <1>5, <1>6
<1>8. slots \subseteq 1 .. grown.end /\ grown.end \in Nat
  BY <1>1, <1>2, <1>3
<1> QED BY <1>3, <1>4, <1>5, <1>7, <1>8 DEF IsStored, grown

LEMMA OneElement ==
  ASSUME NEW x
  PROVE  IsList(<<x>>) /\ Len(<<x>>) = 1 /\ DOMAIN <<x>> = 1 .. 1 /\ <<x>>[1] = x
<1>1. <<x>> = [i \in 1 .. 1 |-> <<x>>[i]]
  OBVIOUS
<1>2. IsList(<<x>>) /\ Len(<<x>>) = 1 /\ DOMAIN <<x>> = 1 .. 1
  BY <1>1, ListFrom
<1> QED BY <1>2

LEMMA SeedApplies ==
  ASSUME NEW filter, IsObject(filter), NEW spec, IsSpec(spec), NEW oid, SeedUpsert(filter, spec, oid).err = 0
  PROVE  LET made == SeedUpsert(filter, spec, oid).doc
         IN  /\ IsObject(made)
             /\ NamesOnce(filter) /\ NamedBy(spec, "$set") \cap NamedBy(spec, "$inc") = {} => NamesOnce(made)
<1>1. PICK start : /\ SeedUpsert(filter, spec, oid) = ApplyUpdate(start, spec)
                   /\ IsObject(start)
                   /\ NamesOnce(filter) => NamesOnce(start)
  BY SeedStarts
<1>2. ApplyUpdate(start, spec).err = 0
  BY <1>1
<1>3. /\ IsObject(ApplyUpdate(start, spec).doc)
      /\ NamesOnce(start) /\ NamedBy(spec, "$set") \cap NamedBy(spec, "$inc") = {} => NamesOnce(ApplyUpdate(start, spec).doc)
  BY <1>1, <1>2, UpdateApplies
<1> QED BY <1>1, <1>3

(* An upsert that finds nothing appends the seed, unless it makes none. *)
LEMMA UpsertParts ==
  ASSUME NEW m, IsStored(m), NEW call \in Calls, call.op = "update", IsObject(call.filter), IsSpec(call.spec),
         Coll!Targets(m, call.filter, call.multi) = {}, call.upsert
  PROVE  LET seed == SeedUpsert(call.filter, call.spec, m.next)
             result == Exec(m, call)
         IN  \/ seed.err # 0 /\ result.mem = m /\ result.err # 0
             \/ /\ seed.err = 0 /\ result.err = 0
                /\ IsStored(result.mem)
                /\ DOMAIN result.mem.docs = DOMAIN m.docs \cup {m.end + 1}
                /\ \A i \in DOMAIN m.docs : result.mem.docs[i] = m.docs[i]
                /\ result.mem.docs[m.end + 1].doc = seed.doc
<1> DEFINE seed == SeedUpsert(call.filter, call.spec, m.next)
           batch == <<seed.doc>>
           grown == Coll!Grow(m, m.next, batch)
           result == Exec(m, call)
<1>1. result = Coll!InsertSeed(m, seed)
  BY DEF Exec, Coll!Exec, Coll!Update
<1>2. seed.err = 0 => IsObject(seed.doc)
  BY SeedApplies
<1>3. m.end \in Nat /\ DOMAIN m.docs \subseteq 1 .. m.end
  BY DEF IsStored
<1>4. IsList(batch) /\ Len(batch) = 1 /\ DOMAIN batch = 1 .. 1 /\ batch[1] = seed.doc
  BY OneElement
<1>5. result = IF seed.err # 0 THEN [mem |-> m, err |-> seed.err] ELSE [mem |-> grown, err |-> 0]
  BY <1>1, NothingClashes DEF Coll!InsertSeed
<1> HIDE DEF seed, result, batch
<1>6. CASE seed.err # 0
  <2>1. result.mem = m /\ result.err # 0
    BY <1>5, <1>6
  <2> QED BY <1>6, <2>1 DEF seed, result
<1>7. CASE seed.err = 0
  <2>1. \A i \in DOMAIN batch : IsObject(batch[i])
    BY <1>2, <1>4, <1>7
  <2>2. /\ IsStored(grown)
        /\ DOMAIN grown.docs = DOMAIN m.docs \cup (m.end + 1 .. m.end + Len(batch))
        /\ \A i \in DOMAIN m.docs : grown.docs[i] = m.docs[i]
        /\ \A i \in 1 .. Len(batch) : grown.docs[m.end + i].doc = batch[i]
    <3> DEFINE first == m.next
    <3> HIDE DEF first
    <3>0. IsList(batch)
      BY <1>4
    <3>1. IsStored(Coll!Grow(m, first, batch))
      BY <2>1, <3>0, GrowStores
    <3>2. DOMAIN Coll!Grow(m, first, batch).docs = DOMAIN m.docs \cup (m.end + 1 .. m.end + Len(batch))
      BY <2>1, <3>0, GrowStores
    <3>3. \A i \in DOMAIN m.docs : Coll!Grow(m, first, batch).docs[i] = m.docs[i]
      BY <2>1, <3>0, GrowStores
    <3>4. \A i \in 1 .. Len(batch) : Coll!Grow(m, first, batch).docs[m.end + i].doc = batch[i]
      BY <2>1, <3>0, GrowStores
    <3> QED BY <3>1, <3>2, <3>3, <3>4 DEF first
  <2> HIDE DEF grown
  <2>3. result.mem = grown /\ result.err = 0
    BY <1>5, <1>7
  <2>4. DOMAIN grown.docs = DOMAIN m.docs \cup {m.end + 1} /\ grown.docs[m.end + 1].doc = seed.doc
    BY <1>3, <1>4, <2>2
  <2> QED BY <1>7, <2>2, <2>3, <2>4 DEF seed, result
<1> QED BY <1>6, <1>7

(* What one call does to each document of the collection. *)
LEMMA CallsAreTyped ==
  ASSUME NEW call \in Calls, call.op = "update"
  PROVE  IsObject(call.filter) /\ NamesOnce(call.filter) /\ IsSpec(call.spec)
BY CallsAssumption DEF IsSpec

LEMMA UpdateStores ==
  ASSUME NEW m, IsStored(m), NEW slots \in SUBSET (DOMAIN m.docs), NEW spec, IsSpec(spec),
         \A i \in slots : ApplyUpdate(m.docs[i].doc, spec).err = 0
  PROVE  IsStored([m EXCEPT !.docs = UpdatedDocs(m, spec, slots)])
<1> DEFINE n == [m EXCEPT !.docs = UpdatedDocs(m, spec, slots)]
<1>1. n = [docs |-> n.docs, end |-> n.end, next |-> n.next, idx |-> n.idx] /\ n.docs = UpdatedDocs(m, spec, slots) /\ n.end = m.end
  BY DEF IsStored
<1>2. DOMAIN n.docs = DOMAIN m.docs
      /\ \A i \in DOMAIN m.docs : n.docs[i].doc = IF i \in slots THEN ApplyUpdate(m.docs[i].doc, spec).doc ELSE m.docs[i].doc
  BY <1>1 DEF UpdatedDocs
<1> HIDE DEF n
<1>3. \A i \in slots : IsObject(ApplyUpdate(m.docs[i].doc, spec).doc)
  BY UpdateApplies DEF IsStored
<1> QED BY <1>1, <1>2, <1>3 DEF IsStored, n

(* Every call leaves objects in the collection. *)
LEMMA ExecStores ==
  ASSUME NEW m, IsStored(m), NEW call \in Calls
  PROVE  IsStored(Exec(m, call).mem)
<1>1. CASE call.op = "insert"
  <2>1. Exec(m, call) = Coll!Insert(m, call.docs)
    BY <1>1 DEF Exec, Coll!Exec
  <2>2. Coll!Insert(m, call.docs).mem = Coll!Grow(m, m.next, call.docs)
    BY NothingClashes DEF Coll!Insert, Coll!InsertClashes
  <2>3. IsList(call.docs) /\ \A i \in DOMAIN call.docs : IsObject(call.docs[i])
    BY <1>1, CallsAssumption
  <2> QED BY <2>1, <2>2, <2>3, GrowStores
<1>2. CASE call.op = "erase"
  <2>1. Exec(m, call) = Coll!Erase(m, call.filter, call.single)
    BY <1>2 DEF Exec, Coll!Exec
  <2> QED BY <2>1 DEF Coll!Erase, IsStored
<1>3. CASE call.op = "update"
  <2> DEFINE targets == Coll!Targets(m, call.filter, call.multi)
  <2>2. IsObject(call.filter) /\ IsSpec(call.spec)
    BY <1>3, CallsAreTyped
  <2>3. CASE targets = {} /\ call.upsert
    <3>1. Exec(m, call).mem = m \/ IsStored(Exec(m, call).mem)
      BY <1>3, <2>2, <2>3, UpsertParts
    <3> QED BY <3>1
  <2>4. CASE ~(targets = {} /\ call.upsert)
    <3>1. PICK slots \in SUBSET targets :
            /\ \A i \in slots : ApplyUpdate(m.docs[i].doc, call.spec).err = 0
            /\ Exec(m, call).mem = [m EXCEPT !.docs = UpdatedDocs(m, call.spec, slots)]
      BY <1>3, <2>4, UpdateParts
    <3>2. slots \in SUBSET (DOMAIN m.docs)
      BY DEF Coll!Targets
    <3> QED BY <2>2, <3>1, <3>2, UpdateStores
  <2> QED BY <2>3, <2>4
<1> QED BY <1>1, <1>2, <1>3, CallsAssumption

(* What a call of update makes of each document that was there, and of a   *)
(* document that was not: either one call of apply_update, or the seed.     *)
LEMMA UpdateCallParts ==
  ASSUME NEW m, IsStored(m), NEW call \in Calls, call.op = "update"
  PROVE  LET after == Exec(m, call).mem
         IN  /\ DOMAIN m.docs \subseteq DOMAIN after.docs
             /\ \A i \in DOMAIN m.docs :
                  \/ after.docs[i] = m.docs[i]
                  \/ /\ ApplyUpdate(m.docs[i].doc, call.spec).err = 0
                     /\ after.docs[i].doc = ApplyUpdate(m.docs[i].doc, call.spec).doc
             /\ \A i \in DOMAIN after.docs \ DOMAIN m.docs :
                  /\ SeedUpsert(call.filter, call.spec, m.next).err = 0
                  /\ after.docs[i].doc = SeedUpsert(call.filter, call.spec, m.next).doc
<1> DEFINE result == Exec(m, call)
           targets == Coll!Targets(m, call.filter, call.multi)
<1>2. IsObject(call.filter) /\ IsSpec(call.spec)
  BY CallsAreTyped
<1>3. CASE targets = {} /\ call.upsert
  <2>1. \/ result.mem = m
        \/ /\ SeedUpsert(call.filter, call.spec, m.next).err = 0
           /\ DOMAIN result.mem.docs = DOMAIN m.docs \cup {m.end + 1}
           /\ \A i \in DOMAIN m.docs : result.mem.docs[i] = m.docs[i]
           /\ result.mem.docs[m.end + 1].doc = SeedUpsert(call.filter, call.spec, m.next).doc
    BY <1>2, <1>3, UpsertParts
  <2> HIDE DEF result
  <2> QED BY <2>1 DEF result
<1>4. CASE ~(targets = {} /\ call.upsert)
  <2>1. PICK slots \in SUBSET targets :
          /\ \A i \in slots : ApplyUpdate(m.docs[i].doc, call.spec).err = 0
          /\ result.mem = [m EXCEPT !.docs = UpdatedDocs(m, call.spec, slots)]
    BY <1>4, UpdateParts
  <2> HIDE DEF result
  <2>2. result.mem.docs = UpdatedDocs(m, call.spec, slots)
    BY <2>1 DEF IsStored
  <2> QED BY <2>1, <2>2 DEF UpdatedDocs, result
<1> QED BY <1>3, <1>4

LEMMA StoredInvariant == Spec => []IsStored(mem)
<1>1. Init => IsStored(mem)
  BY DEF Init, Coll!Fresh, IsStored
<1>2. IsStored(mem) /\ [Next]_vars => IsStored(mem)'
  <2> SUFFICES ASSUME IsStored(mem), [Next]_vars PROVE IsStored(mem)'
    OBVIOUS
  <2>1. CASE Write
    BY <2>1, ExecStores DEF Write, Performs, IsStored
  <2>2. CASE Aggregate \/ Stage \/ Return \/ UNCHANGED vars
    BY <2>2 DEF Aggregate, Stage, Return, vars, IsStored
  <2> QED BY <2>1, <2>2 DEF Next
<1> QED BY <1>1, <1>2, PTL DEF Spec

(* No call of update changes the _id of a document that has one, unless an  *)
(* operator names it (ids_compatible, apply_replacement, the loop of        *)
(* apply_operator_spec), whichever slot it is in and wherever the call stops. *)
THEOREM EveryIdStays == Spec => IdsStay
<1>1. ASSUME NEW m, IsStored(m), NEW call \in Calls, call.op = "update", "_id" \notin NamedFields(call.spec),
             NEW i \in DOMAIN m.docs, "_id" \in Names(m.docs[i].doc)
      PROVE  Find(Exec(m, call).mem.docs[i].doc, "_id") = Find(m.docs[i].doc, "_id")
  <2> DEFINE after == Exec(m, call).mem
  <2>1. IsSpec(call.spec) /\ IsObject(m.docs[i].doc)
    BY <1>1, CallsAreTyped DEF IsStored
  <2>2. \/ after.docs[i] = m.docs[i]
        \/ /\ ApplyUpdate(m.docs[i].doc, call.spec).err = 0
           /\ after.docs[i].doc = ApplyUpdate(m.docs[i].doc, call.spec).doc
    BY <1>1, UpdateCallParts
  <2> HIDE DEF after
  <2>3. ASSUME ApplyUpdate(m.docs[i].doc, call.spec).err = 0
        PROVE  Find(ApplyUpdate(m.docs[i].doc, call.spec).doc, "_id") = Find(m.docs[i].doc, "_id")
    BY <1>1, <2>1, <2>3, UpdateApplies
  <2> QED BY <2>2, <2>3 DEF after
<1>2. IsStored(mem) /\ [Next]_vars =>
        [Write => \A call \in Calls :
           (call.op = "update" /\ "_id" \notin NamedFields(call.spec) /\ Performs(call)) =>
             \A i \in DOMAIN mem.docs :
               "_id" \in Names(mem.docs[i].doc) =>
                 Find(mem'.docs[i].doc, "_id") = Find(mem.docs[i].doc, "_id")]_vars
  BY <1>1 DEF Performs
<1> QED BY <1>2, StoredInvariant, PTL DEF Spec, IdsStay

(* No update leaves a document with two fields of one name that had none,   *)
(* or upserts one, unless $set and $inc name the same field                  *)
(* (apply_operator_spec, seed_upsert).                                       *)
THEOREM NoFieldComesTwice == Spec => NoFieldTwice
<1>1. ASSUME NEW m, IsStored(m), NEW call \in Calls, call.op = "update",
             NamedBy(call.spec, "$set") \cap NamedBy(call.spec, "$inc") = {},
             NEW i \in DOMAIN Exec(m, call).mem.docs,
             i \in DOMAIN m.docs => NamesOnce(m.docs[i].doc)
      PROVE  NamesOnce(Exec(m, call).mem.docs[i].doc)
  <2> DEFINE after == Exec(m, call).mem
  <2>1. IsObject(call.filter) /\ NamesOnce(call.filter) /\ IsSpec(call.spec)
    BY <1>1, CallsAreTyped
  <2>2. CASE i \in DOMAIN m.docs
    <3>1. \/ after.docs[i] = m.docs[i]
          \/ /\ ApplyUpdate(m.docs[i].doc, call.spec).err = 0
             /\ after.docs[i].doc = ApplyUpdate(m.docs[i].doc, call.spec).doc
      BY <1>1, <2>2, UpdateCallParts
    <3>2. ASSUME ApplyUpdate(m.docs[i].doc, call.spec).err = 0
          PROVE  NamesOnce(ApplyUpdate(m.docs[i].doc, call.spec).doc)
      BY <1>1, <2>1, <2>2, <3>2, UpdateApplies DEF IsStored
    <3> HIDE DEF after
    <3> QED BY <1>1, <2>2, <3>1, <3>2 DEF after
  <2>3. CASE i \notin DOMAIN m.docs
    <3>1. /\ SeedUpsert(call.filter, call.spec, m.next).err = 0
          /\ after.docs[i].doc = SeedUpsert(call.filter, call.spec, m.next).doc
      BY <1>1, <2>3, UpdateCallParts
    <3>2. NamesOnce(SeedUpsert(call.filter, call.spec, m.next).doc)
      BY <1>1, <2>1, <3>1, SeedApplies
    <3> QED BY <3>1, <3>2
  <2> QED BY <2>2, <2>3
<1>2. IsStored(mem) /\ [Next]_vars =>
        [Write => \A call \in Calls :
           (call.op = "update" /\ NamedBy(call.spec, "$set") \cap NamedBy(call.spec, "$inc") = {} /\ Performs(call)) =>
             \A i \in DOMAIN mem'.docs :
               (i \in DOMAIN mem.docs => NamesOnce(mem.docs[i].doc)) => NamesOnce(mem'.docs[i].doc)]_vars
  BY <1>1 DEF Performs
<1> QED BY <1>2, StoredInvariant, PTL DEF Spec, NoFieldTwice

-----------------------------------------------------------------------------
(* Adding and taking away.                                                  *)

(* The update that adds n to one field. *)
IncSpec(name, n) == << <<"$inc", Document(<< <<name, Int64(n)>> >>)>> >>

LEMMA IncNames ==
  ASSUME NEW name, NEW n \in Int
  PROVE  LET spec == IncSpec(name, n)
         IN  /\ spec # <<>> /\ DOMAIN spec = 1 .. 1 /\ spec[1][1] = "$inc" /\ Names(spec) = {"$inc"}
             /\ NamedBy(spec, "$inc") = {name} /\ NamedBy(spec, "$set") = {} /\ NamedBy(spec, "$unset") = {}
             /\ Argument(spec, "$inc", name) = Int64(n)
<1> DEFINE fields == << <<name, Int64(n)>> >>
           spec == IncSpec(name, n)
<1>1. IsList(fields) /\ DOMAIN fields = 1 .. 1 /\ fields[1] = <<name, Int64(n)>> /\ Names(fields) = {name}
  BY OneField
<1>2. DOMAIN spec = 1 .. 1 /\ spec[1] = <<"$inc", Document(fields)>> /\ Names(spec) = {"$inc"} /\ spec # <<>>
  <2>1. DOMAIN spec = 1 .. 1 /\ spec[1] = <<"$inc", Document(fields)>> /\ Names(spec) = {"$inc"}
    BY OneField DEF IncSpec
  <2> QED BY <2>1 DEF IncSpec
<1> HIDE DEF fields, spec
<1>3. spec[1][1] = "$inc" /\ IsDocument(spec[1][2]) /\ spec[1][2][2] = fields
  BY <1>2 DEF IsDocument, Document
<1>4. Operands(spec, "$inc") = {1} /\ Operands(spec, "$set") = {} /\ Operands(spec, "$unset") = {}
  BY <1>2, <1>3 DEF Operands
<1>5. NamedBy(spec, "$inc") = {name} /\ NamedBy(spec, "$set") = {} /\ NamedBy(spec, "$unset") = {}
  BY <1>1, <1>3, <1>4 DEF NamedBy
<1>6. Argument(spec, "$inc", name) = FindLast(fields, name)
  <2>1. {i \in Operands(spec, "$inc") : name \in Names(spec[i][2][2])} = {1}
    BY <1>1, <1>3, <1>4
  <2>2. (CHOOSE i \in {1} : \A j \in {1} : j <= i) = 1
    OBVIOUS
  <2> QED BY <1>3, <2>1, <2>2 DEF Argument
<1>7. FindLast(fields, name) = Int64(n)
  BY <1>1, FindsLast
<1> QED BY <1>2, <1>3, <1>5, <1>6, <1>7 DEF spec

LEMMA IncAddsNone ==
  ASSUME NEW d, NEW name \in Names(d), NEW n \in Int
  PROVE  FreshFields(d, IncSpec(name, n)) = <<>>
<1> DEFINE spec == IncSpec(name, n)
<1>1. NamedBy(spec, "$inc") = {name} /\ NamedBy(spec, "$set") = {} /\ NamedBy(spec, "$unset") = {}
  BY IncNames
<1> HIDE DEF spec
<1>2. /\ NamedBy(spec, "$set") \ AppliesSet(spec, Names(d)) = {}
      /\ NamedBy(spec, "$inc") \ AppliesInc(spec, Names(d)) = {}
  BY <1>1 DEF AppliesInc, AppliesSet
<1>3. Listed({}) = <<>>
  BY ListedOnce, FS_EmptySet
<1> DEFINE set == [i \in DOMAIN << >> |-> << << >>[i], Argument(spec, "$set", << >>[i])>>]
           inc == [i \in DOMAIN << >> |-> << << >>[i], IncFresh(Argument(spec, "$inc", << >>[i]))>>]
<1>4. FreshFields(d, spec) = set \o inc
  BY <1>2, <1>3 DEF FreshFields
<1>5. set = <<>> /\ inc = <<>>
  OBVIOUS
<1> QED BY <1>4, <1>5 DEF spec

LEMMA IncApplies ==
  ASSUME NEW d, IsList(d), NEW name \in Names(d), NEW n \in Int,
         \A i \in DOMAIN d : d[i][1] = name => IsNumeric(d[i][2])
  PROVE  /\ ApplyUpdate(d, IncSpec(name, n)).err = 0
         /\ ApplyUpdate(d, IncSpec(name, n)).doc =
              [i \in DOMAIN d |-> IF d[i][1] = name THEN <<name, IncSum(d[i][2], Int64(n))>> ELSE d[i]]
<1> DEFINE spec == IncSpec(name, n)
           changed == [i \in DOMAIN d |-> UpdatedField(spec, d[i])]
<1>1. /\ spec # <<>> /\ DOMAIN spec = 1 .. 1 /\ spec[1][1] = "$inc" /\ Names(spec) = {"$inc"}
      /\ NamedBy(spec, "$inc") = {name} /\ NamedBy(spec, "$set") = {} /\ NamedBy(spec, "$unset") = {}
      /\ Argument(spec, "$inc", name) = Int64(n)
  BY IncNames
<1>2. FreshFields(d, spec) = <<>>
  BY IncAddsNone
<1> HIDE DEF spec
<1>3. ApplyUpdate(d, spec) = ApplyOperators(d, spec)
  <2>1. Names(spec) \cap Dollar # {} /\ Names(spec) \subseteq Dollar
    BY <1>1 DEF Dollar
  <2> QED BY <1>1, <2>1 DEF ApplyUpdate
<1>4. Without(d, NamedBy(spec, "$unset")) = d
  <2>1. {i \in DOMAIN d : d[i][1] \notin {}} = DOMAIN d
    OBVIOUS
  <2> QED BY <1>1, <2>1, PickedAll DEF Without, Selected
<1>5. ~(\E i \in DOMAIN spec : spec[i][1] \notin Operators)
  BY <1>1 DEF Operators
<1>6. ~(\E i \in {i \in DOMAIN d : d[i][1] \in NamedBy(spec, "$inc") \ NamedBy(spec, "$set")} : ~IsNumeric(d[i][2]))
  BY <1>1
<1>7. ApplyOperators(d, spec) = Changed(changed \o FreshFields(d, spec))
  BY <1>4, <1>5, <1>6 DEF ApplyOperators
<1>8. changed = [i \in DOMAIN d |-> IF d[i][1] = name THEN <<name, IncSum(d[i][2], Int64(n))>> ELSE d[i]]
  BY <1>1 DEF UpdatedField
<1>9. IsList(changed)
  <2>1. DOMAIN d = 1 .. Len(d) /\ Len(d) \in Nat
    BY ListParts
  <2>2. changed = [i \in 1 .. Len(d) |-> changed[i]]
    BY <2>1
  <2> HIDE DEF changed
  <2> QED BY <2>1, <2>2, ListFrom
<1> HIDE DEF changed
<1>10. changed \o <<>> = changed
  BY <1>9 DEF IsList
<1> QED BY <1>2, <1>3, <1>7, <1>8, <1>10 DEF Changed, spec

LEMMA SumsCancel ==
  ASSUME NEW v, IsNumeric(v), FitsWidth(v), NEW n \in 1 .. Significand,
         v[1] = "double" => v[2] + Scale * n \in Doubles
  PROVE  /\ IsNumeric(IncSum(v, Int64(n)))
         /\ ValueEqual(IncSum(IncSum(v, Int64(n)), Int64(-n)), v)
<1>1. \A k \in Int : Int64(k)[1] = "int64" /\ Amount(Int64(k)) = Int64(k) /\ AsInt(Int64(k)) = k
  BY DEF Int64, Amount, AsInt, IsNumeric
<1>2. \A k \in -Significand .. Significand : AsDouble(Int64(k)) = Scale * k
  BY WholeIsDouble DEF Int64, AsDouble, Rounded
<1>3. n \in Int /\ -n \in Int /\ n \in -Significand .. Significand /\ -n \in -Significand .. Significand
  BY DoublesAssumption
<1>4. CASE v[1] = "double"
  <2> DEFINE sum == v[2] + Scale * n
  <2>1. v[2] \in Doubles /\ sum \in Doubles /\ v[2] \in Int
    BY <1>4, DoublesAreNumbers DEF FitsWidth
  <2>2. IncSum(v, Int64(n)) = Double(sum)
    <3>1. AsDouble(v) = v[2]
      BY <1>4 DEF AsDouble
    <3>2. IncSum(v, Int64(n)) = Double(Rounded(v[2] + Scale * n))
      BY <1>1, <1>2, <1>3, <1>4, <3>1 DEF IncSum
    <3> QED BY <2>1, <3>2 DEF Rounded
  <2>3. sum + Scale * (-n) = v[2]
    <3>1. Scale * n \in Int /\ Scale * (-n) = -(Scale * n)
      BY <1>3, DoublesAssumption
    <3> QED BY <2>1, <3>1
  <2> HIDE DEF sum
  <2>4. IncSum(Double(sum), Int64(-n)) = Double(v[2])
    <3>1. Double(sum)[1] = "double" /\ AsDouble(Double(sum)) = sum
      BY DEF Double, AsDouble
    <3>2. IncSum(Double(sum), Int64(-n)) = Double(Rounded(sum + Scale * (-n)))
      BY <1>1, <1>2, <1>3, <3>1 DEF IncSum
    <3> QED BY <2>1, <2>3, <3>2 DEF Rounded
  <2> QED BY <1>4, <2>2, <2>4 DEF ValueEqual, EqualNumbers, AsDouble, IsNumeric, Double
<1>5. CASE v[1] \in {"int32", "int64"}
  <2> DEFINE sum == Wrap(v[2] + n)
  <2>1. IncSum(v, Int64(n)) = Int64(sum) /\ v[2] \in -IntBound .. IntBound - 1
    BY <1>1, <1>3, <1>5 DEF IncSum, AsInt, FitsWidth
  <2>2. IncSum(Int64(sum), Int64(-n)) = Int64(Wrap(sum + (-n)))
    <3>1. Int64(sum)[1] = "int64" /\ AsInt(Int64(sum)) = sum
      BY DEF AsInt, Int64
    <3> HIDE DEF sum
    <3> QED BY <1>1, <1>3, <3>1 DEF IncSum
  <2>3. Wrap(sum - n) = v[2]
    BY <1>3, <2>1, WrapCancels
  <2>4. sum + (-n) = sum - n
    <3>1. sum \in Int
      BY <1>3, <2>1, WrapFits, BsonAssumption
    <3> QED BY <1>3, <3>1
  <2> HIDE DEF sum
  <2> QED BY <1>5, <2>1, <2>2, <2>3, <2>4 DEF ValueEqual, EqualNumbers, IsNumeric, Int64
<1> QED BY <1>4, <1>5 DEF IsNumeric

(* Two updates that cancel leave one field as it was, and touch no other. *)
LEMMA IncsCancelInDocument ==
  ASSUME NEW d, IsObject(d), NamesOnce(d), NEW name, IsNumeric(Find(d, name)),
         NEW n \in 1 .. Significand, Find(d, name)[1] = "double" => Find(d, name)[2] + Scale * n \in Doubles
  PROVE  LET back == ApplyUpdate(ApplyUpdate(d, IncSpec(name, n)).doc, IncSpec(name, -n))
         IN  /\ back.err = 0
             /\ ValueEqual(Find(back.doc, name), Find(d, name))
             /\ Without(back.doc, {name}) = Without(d, {name})
<1> DEFINE After(e, m) == [i \in DOMAIN e |-> IF e[i][1] = name THEN <<name, IncSum(e[i][2], Int64(m))>> ELSE e[i]]
           once == After(d, n)
           twice == After(once, -n)
           K == {i \in DOMAIN d : d[i][1] \notin {name}}
<1>1. IsList(d) /\ name \in Names(d)
  <2>1. IsList(d)
    BY DEF IsObject
  <2>2. Find(d, name) # Missing
    BY DEF IsNumeric, Missing
  <2> QED BY <2>1, <2>2, FindsFirst
<1>2. PICK k \in DOMAIN d : d[k][1] = name /\ Find(d, name) = d[k][2]
  BY <1>1, FindsFirst
<1>3. \A i \in DOMAIN d : d[i][1] = name => i = k
  BY <1>2 DEF NamesOnce
<1>4. IsNumeric(d[k][2]) /\ FitsWidth(d[k][2])
  BY <1>2 DEF IsObject
<1>5. /\ IsNumeric(IncSum(d[k][2], Int64(n)))
      /\ ValueEqual(IncSum(IncSum(d[k][2], Int64(n)), Int64(-n)), d[k][2])
  BY <1>2, <1>4, SumsCancel
<1>6. ApplyUpdate(d, IncSpec(name, n)).doc = once
  BY <1>1, <1>3, <1>4, IncApplies
<1>7. once = [i \in DOMAIN d |-> once[i]] /\ \A i \in DOMAIN d : once[i][1] = d[i][1]
  OBVIOUS
<1>8. once[k] = <<name, IncSum(d[k][2], Int64(n))>> /\ \A i \in DOMAIN d : i # k => once[i] = d[i]
  BY <1>2, <1>3
<1>9. twice = [i \in DOMAIN once |-> twice[i]] /\ \A i \in DOMAIN once : twice[i][1] = once[i][1]
  OBVIOUS
<1>10. \A i \in DOMAIN once : twice[i] = IF once[i][1] = name THEN <<name, IncSum(once[i][2], Int64(-n))>> ELSE once[i]
  OBVIOUS
<1>11. ASSUME IsList(once), name \in Names(once), \A i \in DOMAIN once : once[i][1] = name => IsNumeric(once[i][2])
       PROVE  /\ ApplyUpdate(once, IncSpec(name, -n)).err = 0
              /\ ApplyUpdate(once, IncSpec(name, -n)).doc = twice
  <2>1. -n \in Int
    OBVIOUS
  <2> HIDE DEF once
  <2> QED BY <1>11, <2>1, IncApplies
<1> HIDE DEF once, twice
<1>12. IsList(once) /\ DOMAIN once = DOMAIN d /\ Names(once) = Names(d) /\ NamesOnce(once)
  BY <1>1, <1>7, ChangedFields
<1>13. IsList(twice) /\ DOMAIN twice = DOMAIN d /\ NamesOnce(twice)
  BY <1>9, <1>12, ChangedFields
<1>14. \A i \in DOMAIN once : once[i][1] = name => IsNumeric(once[i][2])
  BY <1>3, <1>5, <1>7, <1>8, <1>12
<1>15. /\ ApplyUpdate(once, IncSpec(name, -n)).err = 0
       /\ ApplyUpdate(once, IncSpec(name, -n)).doc = twice
  BY <1>1, <1>11, <1>12, <1>14
<1>16. twice[k] = <<name, IncSum(IncSum(d[k][2], Int64(n)), Int64(-n))>> /\ \A i \in DOMAIN d : i # k => twice[i] = d[i]
  <2> DEFINE sum == IncSum(d[k][2], Int64(n))
  <2>1. once[k][1] = name /\ once[k][2] = sum
    BY <1>8
  <2>2. \A i \in DOMAIN d : i # k => once[i] = d[i] /\ once[i][1] # name
    BY <1>3, <1>8
  <2> HIDE DEF sum
  <2>3. twice[k] = <<name, IncSum(sum, Int64(-n))>>
    BY <1>10, <1>12, <2>1
  <2>4. \A i \in DOMAIN d : i # k => twice[i] = d[i]
    BY <1>10, <1>12, <2>2
  <2> QED BY <2>3, <2>4 DEF sum
<1>17. Find(twice, name) = IncSum(IncSum(d[k][2], Int64(n)), Int64(-n))
  BY <1>13, <1>16, FindIfOnce
<1>18. Without(twice, {name}) = Without(d, {name})
  <2>1. {i \in DOMAIN twice : twice[i][1] \notin {name}} = K /\ K \in SUBSET (DOMAIN d)
    BY <1>7, <1>9, <1>12, <1>13
  <2>2. \A j \in DOMAIN Ascending(K) : Ascending(K)[j] \in K
    <3>1. \A j \in DOMAIN Picked(d, K) : Ascending(K)[j] \in K
      BY <1>1, <2>1, PickedLists
    <3>2. DOMAIN Picked(d, K) = DOMAIN Ascending(K)
      BY DEF Picked
    <3> QED BY <3>1, <3>2
  <2>3. \A i \in K : twice[i] = d[i]
    BY <1>2, <1>16
  <2> HIDE DEF K
  <2>4. Picked(twice, K) = Picked(d, K)
    BY <2>2, <2>3 DEF Picked
  <2> QED BY <2>1, <2>4 DEF Without, Selected, K
<1> QED BY <1>2, <1>5, <1>6, <1>15, <1>17, <1>18

(* In a collection of documents that name no field twice, $inc by a whole   *)
(* number that a double can hold and then by its negative gives every int32 and *)
(* int64 back, over the ends of int64 too, and every double whose sum with the   *)
(* number need not be rounded, and leaves the other fields as they were         *)
(* (append_inc_sum).                                                           *)
THEOREM IncsDoCancel == Spec => []IncsCancel
<1>1. IsStored(mem) => IncsCancel
  <2> SUFFICES ASSUME IsStored(mem), NEW i \in DOMAIN mem.docs, NEW name \in Fields, NEW delta \in 1 .. Significand,
                      NamesOnce(mem.docs[i].doc), IsNumeric(Find(mem.docs[i].doc, name)),
                      Find(mem.docs[i].doc, name)[1] = "double"
                        => Find(mem.docs[i].doc, name)[2] + Scale * delta \in Doubles
               PROVE  LET back == ApplyUpdate(ApplyUpdate(mem.docs[i].doc, IncSpec(name, delta)).doc, IncSpec(name, -delta))
                      IN  /\ back.err = 0
                          /\ ValueEqual(Find(back.doc, name), Find(mem.docs[i].doc, name))
                          /\ Without(back.doc, {name}) = Without(mem.docs[i].doc, {name})
    BY DEF IncsCancel, IncSpec
  <2>1. IsObject(mem.docs[i].doc)
    BY DEF IsStored
  <2> QED BY <2>1, IncsCancelInDocument
<1> QED BY <1>1, StoredInvariant, PTL

-----------------------------------------------------------------------------
(* An upsert made again.                                                    *)

(* What such an update makes has the fields of the filter as they were. *)
LEMMA FilterFieldsStay ==
  ASSUME NEW filter, NEW spec, IsSpec(spec), FindsWhatItMakes(filter, spec),
         NEW doc, IsObject(doc), Names(filter) \subseteq Names(doc), ApplyUpdate(doc, spec).err = 0,
         NEW name \in Names(filter)
  PROVE  Find(ApplyUpdate(doc, spec).doc, name) = Find(doc, name)
<1>1. CASE spec # <<>> /\ Names(spec) \subseteq Dollar
  <2>1. name \notin NamedFields(spec)
    BY <1>1 DEF FindsWhatItMakes
  <2> QED BY <1>1, <2>1, UpdateApplies
<1>2. CASE ~(spec # <<>> /\ Names(spec) \subseteq Dollar)
  <2>1. name = "_id"
    BY <1>2 DEF FindsWhatItMakes
  <2>2. Names(spec) \cap Dollar = {}
    BY <1>2 DEF ApplyUpdate, Refused, FailedToParse
  <2>3. ApplyUpdate(doc, spec) = ApplyReplacement(doc, spec)
    BY <1>2, <2>2 DEF ApplyUpdate
  <2> QED BY <2>1, <2>3, ReplacementApplies
<1> QED BY <1>1, <1>2

(* A filter of literal values of top-level fields looks at those fields only. *)
LEMMA LiteralMatches ==
  ASSUME NEW filter, NEW spec, FindsWhatItMakes(filter, spec), NEW doc
  PROVE  Matches(doc, filter) <=>
           \A i \in DOMAIN filter : LET v == Find(doc, filter[i][1])
                                    IN  v # Missing /\ EqualsOrContains(filter[i][2], v)
<1>1. ASSUME NEW i \in DOMAIN filter
      PROVE  /\ filter[i][1] \notin Dollar /\ ~IsOperatorDoc(filter[i][2])
             /\ ResolvePath(doc, filter[i][1]) = Find(doc, filter[i][1])
  <2>1. filter[i][1] \in Names(filter)
    BY DEF Names
  <2> QED BY <2>1 DEF FindsWhatItMakes, ResolvePath
<1> QED BY <1>1 DEF Matches, EvalField

LEMMA LiteralsMatchThemselves ==
  ASSUME NEW filter, IsObject(filter), NamesOnce(filter), NEW spec, FindsWhatItMakes(filter, spec), NEW doc,
         \A name \in Names(filter) : Find(doc, name) = Find(filter, name)
  PROVE  Matches(doc, filter)
<1> SUFFICES ASSUME NEW i \in DOMAIN filter
             PROVE  Find(doc, filter[i][1]) # Missing /\ EqualsOrContains(filter[i][2], Find(doc, filter[i][1]))
  BY LiteralMatches
<1>1. filter[i][1] \in Names(filter) /\ Find(filter, filter[i][1]) = filter[i][2]
  BY FindIfOnce DEF IsObject
<1>2. Find(doc, filter[i][1]) = filter[i][2]
  BY <1>1
<1>3. filter[i][2] # Missing /\ filter[i][2] # MinKey
  BY DEF IsObject, FindsWhatItMakes
<1> QED BY <1>2, <1>3 DEF EqualsOrContains, ValueEqual, EqualNumbers

(* A match of such a filter is one after the update, too. *)
LEMMA MatchStaysMatch ==
  ASSUME NEW filter, IsObject(filter), NEW spec, IsSpec(spec), FindsWhatItMakes(filter, spec),
         NEW doc, IsObject(doc), Matches(doc, filter), ApplyUpdate(doc, spec).err = 0
  PROVE  Matches(ApplyUpdate(doc, spec).doc, filter)
<1>1. \A i \in DOMAIN filter : Find(doc, filter[i][1]) # Missing /\ EqualsOrContains(filter[i][2], Find(doc, filter[i][1]))
  BY LiteralMatches
<1>2. Names(filter) \subseteq Names(doc)
  BY <1>1, FindsFirst DEF Names, IsObject
<1>3. \A name \in Names(filter) : Find(ApplyUpdate(doc, spec).doc, name) = Find(doc, name)
  BY <1>2, FilterFieldsStay
<1>4. \A i \in DOMAIN filter : filter[i][1] \in Names(filter)
  BY DEF Names
<1>5. \A i \in DOMAIN filter :
        LET v == Find(ApplyUpdate(doc, spec).doc, filter[i][1])
        IN  v # Missing /\ EqualsOrContains(filter[i][2], v)
  BY <1>1, <1>3, <1>4
<1> QED BY <1>5, LiteralMatches

(* The seed of such an upsert is a match. *)
LEMMA SeedMatches ==
  ASSUME NEW filter, IsObject(filter), NamesOnce(filter), NEW spec, IsSpec(spec), FindsWhatItMakes(filter, spec),
         NEW oid, SeedUpsert(filter, spec, oid).err = 0
  PROVE  Matches(SeedUpsert(filter, spec, oid).doc, filter)
<1>1. \A i \in DOMAIN filter : filter[i][1] \notin Dollar /\ ~IsOperatorDoc(filter[i][2])
  BY DEF FindsWhatItMakes, Names
<1>2. PICK start : /\ SeedUpsert(filter, spec, oid) = ApplyUpdate(start, spec)
                   /\ IsObject(start)
                   /\ \A name \in Names(filter) : name \in Names(start) /\ Find(start, name) = Find(filter, name)
  BY <1>1, SeedStarts
<1>3. \A name \in Names(filter) : Find(ApplyUpdate(start, spec).doc, name) = Find(start, name)
  BY <1>2, FilterFieldsStay
<1>4. \A name \in Names(filter) : Find(ApplyUpdate(start, spec).doc, name) = Find(filter, name)
  BY <1>2, <1>3
<1> QED BY <1>2, <1>4, LiteralsMatchThemselves

(* Whichever of the matches a call visits, it visits one if there is one. *)
LEMMA MatchIsTarget ==
  ASSUME NEW m, IsStored(m), NEW filter, NEW multi, NEW i \in DOMAIN m.docs, Matches(m.docs[i].doc, filter)
  PROVE  Coll!Targets(m, filter, multi) # {}
<1> DEFINE hits == {j \in DOMAIN m.docs : Matches(m.docs[j].doc, filter)}
<1>1. hits \subseteq Nat /\ hits # {}
  BY DEF IsStored
<1>2. Coll!Targets(m, filter, multi) = IF multi THEN hits ELSE {j \in hits : \A k \in hits : j <= k}
  BY DEF Coll!Targets
<1> HIDE DEF hits
<1>3. PICK j \in hits : \A k \in hits : j <= k
  BY <1>1, LeastNumber
<1> QED BY <1>1, <1>2, <1>3

(* After an upsert that succeeded, the collection holds a match. *)
LEMMA UpsertLeavesMatch ==
  ASSUME NEW m, IsStored(m), NEW call \in Calls, call.op = "update", call.upsert,
         FindsWhatItMakes(call.filter, call.spec), Exec(m, call).err = 0
  PROVE  LET after == Exec(m, call).mem
         IN  \E i \in DOMAIN after.docs : Matches(after.docs[i].doc, call.filter)
<1> DEFINE result == Exec(m, call)
           targets == Coll!Targets(m, call.filter, call.multi)
<1>2. IsObject(call.filter) /\ NamesOnce(call.filter) /\ IsSpec(call.spec)
  BY CallsAreTyped
<1>3. CASE targets = {} /\ call.upsert
  <2>1. /\ SeedUpsert(call.filter, call.spec, m.next).err = 0
        /\ m.end + 1 \in DOMAIN result.mem.docs
        /\ result.mem.docs[m.end + 1].doc = SeedUpsert(call.filter, call.spec, m.next).doc
    BY <1>2, <1>3, UpsertParts
  <2> HIDE DEF result
  <2>2. Matches(SeedUpsert(call.filter, call.spec, m.next).doc, call.filter)
    BY <1>2, <2>1, SeedMatches
  <2> QED BY <2>1, <2>2 DEF result
<1>4. CASE targets # {}
  <2>1. PICK slots \in SUBSET targets :
          /\ \A i \in slots : ApplyUpdate(m.docs[i].doc, call.spec).err = 0
          /\ result.mem = [m EXCEPT !.docs = UpdatedDocs(m, call.spec, slots)]
          /\ result.err = 0 => slots = targets
    BY <1>4, UpdateParts
  <2>2. slots = targets
    BY <2>1
  <2>3. PICK i \in targets : i \in DOMAIN m.docs /\ Matches(m.docs[i].doc, call.filter)
    BY <1>4 DEF Coll!Targets
  <2> HIDE DEF result, targets
  <2>4. result.mem.docs = UpdatedDocs(m, call.spec, slots)
    BY <2>1 DEF IsStored
  <2>5. i \in DOMAIN result.mem.docs /\ result.mem.docs[i].doc = ApplyUpdate(m.docs[i].doc, call.spec).doc
    BY <2>2, <2>3, <2>4 DEF UpdatedDocs
  <2>6. IsObject(m.docs[i].doc) /\ ApplyUpdate(m.docs[i].doc, call.spec).err = 0
    BY <2>1, <2>2, <2>3 DEF IsStored
  <2>7. Matches(ApplyUpdate(m.docs[i].doc, call.spec).doc, call.filter)
    BY <1>2, <2>3, <2>6, MatchStaysMatch
  <2> QED BY <2>5, <2>7 DEF result
<1> QED BY <1>3, <1>4

(* A call of update that has something to update inserts nothing. *)
LEMMA UpdateOfMatchInsertsNone ==
  ASSUME NEW m, IsStored(m), NEW call \in Calls, call.op = "update",
         NEW i \in DOMAIN m.docs, Matches(m.docs[i].doc, call.filter)
  PROVE  DOMAIN Exec(m, call).mem.docs = DOMAIN m.docs
<1> DEFINE result == Exec(m, call)
<1>2. Coll!Targets(m, call.filter, call.multi) # {}
  BY MatchIsTarget
<1>3. PICK slots : result.mem = [m EXCEPT !.docs = UpdatedDocs(m, call.spec, slots)]
  BY <1>2, UpdateParts
<1> HIDE DEF result
<1>4. result.mem.docs = UpdatedDocs(m, call.spec, slots)
  BY <1>3 DEF IsStored
<1> QED BY <1>4 DEF UpdatedDocs, result

(* An upsert that is made again inserts no second document, if its filter  *)
(* is of literal values that its update leaves alone: the seed, and every    *)
(* document the update has changed, still pass the filter (seed_upsert,      *)
(* apply_update and match_doc).                                              *)
THEOREM RetryOfUpsertInsertsOnce == Spec => []RetriedUpsertInsertsOnce
<1>1. IsStored(mem) => RetriedUpsertInsertsOnce
  <2> SUFFICES ASSUME IsStored(mem), NEW call \in Calls, call.op = "update", call.upsert,
                      FindsWhatItMakes(call.filter, call.spec), Exec(mem, call).err = 0
               PROVE  DOMAIN Exec(Exec(mem, call).mem, call).mem.docs = DOMAIN Exec(mem, call).mem.docs
    BY DEF RetriedUpsertInsertsOnce
  <2> DEFINE after == Exec(mem, call).mem
  <2>1. IsStored(after)
    BY ExecStores
  <2>2. PICK i \in DOMAIN after.docs : Matches(after.docs[i].doc, call.filter)
    BY UpsertLeavesMatch
  <2> HIDE DEF after
  <2>3. DOMAIN Exec(after, call).mem.docs = DOMAIN after.docs
    BY <2>1, <2>2, UpdateOfMatchInsertsNone
  <2> QED BY <2>3 DEF after
<1> QED BY <1>1, StoredInvariant, PTL

-----------------------------------------------------------------------------
(* $lookup by two fields.                                                   *)

(* The operands of the law of joins. *)
LEMMA LookupFields ==
  ASSUME NEW from, NEW local, NEW foreign
  PROVE  LET spec == Lookup(from, local, foreign)
         IN  /\ Find(spec, "from") = Text(from) /\ Find(spec, "as") = Text("x")
             /\ Find(spec, "localField") = Text(local) /\ Find(spec, "foreignField") = Text(foreign)
             /\ Find(spec, "let") = Missing /\ Find(spec, "pipeline") = Missing
<1> DEFINE spec == Lookup(from, local, foreign)
<1>1. /\ spec = [i \in 1 .. 4 |-> spec[i]] /\ DOMAIN spec = 1 .. 4
      /\ spec[1] = <<"from", Text(from)>> /\ spec[2] = <<"localField", Text(local)>>
      /\ spec[3] = <<"foreignField", Text(foreign)>> /\ spec[4] = <<"as", Text("x")>>
  BY DEF Lookup
<1> HIDE DEF spec
<1>2. IsList(spec)
  BY <1>1, ListFrom
<1>3. spec[1][1] = "from" /\ spec[2][1] = "localField" /\ spec[3][1] = "foreignField" /\ spec[4][1] = "as"
  BY <1>1
<1>4. \A i \in DOMAIN spec : i \in {1, 2, 3, 4}
  BY <1>1
<1>5. Find(spec, "from") = spec[1][2]
  BY <1>1, <1>2, <1>3, <1>4, FindIs
<1>6. Find(spec, "localField") = spec[2][2]
  BY <1>1, <1>2, <1>3, <1>4, FindIs
<1>7. Find(spec, "foreignField") = spec[3][2]
  BY <1>1, <1>2, <1>3, <1>4, FindIs
<1>8. Find(spec, "as") = spec[4][2]
  BY <1>1, <1>2, <1>3, <1>4, FindIs
<1>9. "let" \notin Names(spec) /\ "pipeline" \notin Names(spec)
  BY <1>3, <1>4 DEF Names
<1> QED BY <1>1, <1>2, <1>5, <1>6, <1>7, <1>8, <1>9, FindsFirst DEF spec

(* The stage puts the documents that join into a field of each document. *)
LEMMA LookupYields ==
  ASSUME NEW stream, NEW from, NEW local \in Fields, NEW foreign \in Fields, NEW owner, from \in DOMAIN owner
  PROVE  LookupStage(stream, Lookup(from, local, foreign), owner).docs =
           [i \in DOMAIN stream |->
              WithArray(stream[i], "x",
                        Picked(owner[from], {k \in DOMAIN owner[from] : Joins(Find(stream[i], local), Find(owner[from][k], foreign))}))]
<1> DEFINE spec == Lookup(from, local, foreign)
           Joined(i) == Picked(owner[from], {k \in DOMAIN owner[from] : Joins(Find(stream[i], local), Find(owner[from][k], foreign))})
<1>1. /\ Find(spec, "from") = Text(from) /\ Find(spec, "as") = Text("x")
      /\ Find(spec, "localField") = Text(local) /\ Find(spec, "foreignField") = Text(foreign)
      /\ Find(spec, "let") = Missing /\ Find(spec, "pipeline") = Missing
  BY LookupFields
<1>2. \A word : IsText(Text(word)) /\ Text(word)[2][2] = word /\ Text(word) # Missing
  BY DEF IsText, Text, Missing
<1>3. IsTopLevel("x") /\ \A d : ResolvePath(d, local) = Find(d, local) /\ ResolvePath(d, foreign) = Find(d, foreign)
  BY FieldsAssumption DEF ResolvePath
<1> HIDE DEF spec
<1>4. IsLookup(spec)
  BY <1>1, <1>2, <1>3 DEF IsLookup
<1>5. \A d : ForeignDocs(d, spec, owner) =
               Picked(owner[from], {k \in DOMAIN owner[from] : Joins(Find(d, local), Find(owner[from][k], foreign))})
  BY <1>1, <1>2, <1>3 DEF ForeignDocs, Selected
<1>6. \A i \in DOMAIN stream : LookedUp(stream[i], spec, owner) = Yields(Joined(i))
  <2>1. ASSUME NEW i \in DOMAIN stream PROVE LookedUp(stream[i], spec, owner) = Yields(Joined(i))
    <3>1. LookedUp(stream[i], spec, owner) = Yields(ForeignDocs(stream[i], spec, owner))
      BY <1>1 DEF LookedUp
    <3> QED BY <1>5, <3>1
  <2> QED BY <2>1
<1> HIDE DEF Joined
<1> DEFINE found == [i \in DOMAIN stream |-> LookedUp(stream[i], spec, owner)]
<1>7. LookupStage(stream, spec, owner) = WithFound(stream, "x", found)
  BY <1>1, <1>2, <1>4 DEF LookupStage
<1>8. \A i \in DOMAIN stream : found[i].thrown = FALSE /\ found[i].docs = Joined(i)
  BY <1>6 DEF Yields
<1> HIDE DEF found
<1>9. WithFound(stream, "x", found) = Yields([i \in DOMAIN stream |-> WithArray(stream[i], "x", found[i].docs)])
  BY <1>8 DEF WithFound
<1>10. [i \in DOMAIN stream |-> WithArray(stream[i], "x", found[i].docs)] = [i \in DOMAIN stream |-> WithArray(stream[i], "x", Joined(i))]
  BY <1>8
<1>11. LookupStage(stream, spec, owner).docs = [i \in DOMAIN stream |-> WithArray(stream[i], "x", found[i].docs)]
  BY <1>7, <1>9 DEF Yields
<1> QED BY <1>10, <1>11 DEF spec, Joined

(* What a document has found stands in its field x. *)
LEMMA WithArrayFinds ==
  ASSUME NEW doc, IsList(doc), NEW list, IsList(list), NEW K \in SUBSET (DOMAIN list)
  PROVE  FoundBy(WithArray(doc, "x", Picked(list, K))) = {Document(list[k]) : k \in K}
<1> DEFINE kept == Without(doc, {"x"})
           p == Picked(list, K)
           found == [k \in DOMAIN p |-> Document(p[k])]
           x == << <<"x", Array(found)>> >>
<1>1. IsList(kept) /\ "x" \notin Names(kept)
  BY WithoutFields
<1>2. IsList(x) /\ Find(x, "x") = Array(found)
  BY OneField
<1>3. WithArray(doc, "x", p) = Append(kept, <<"x", Array(found)>>)
  BY DEF WithArray
<1>4. \A e : Append(kept, e) = kept \o <<e>>
  <2> HIDE DEF kept
  <2> TAKE e
  <2> DEFINE U == {kept[i] : i \in DOMAIN kept} \cup {e}
  <2>1. kept \in Seq(U) /\ e \in U
    <3>1. Len(kept) \in Nat /\ kept \in [1 .. Len(kept) -> U]
      BY <1>1, ListParts
    <3> QED BY <3>1
  <2> HIDE DEF U
  <2> QED BY <2>1, AppendIsConcat
<1> HIDE DEF kept, x, found
<1>5. Find(kept \o x, "x") = Array(found)
  BY <1>1, <1>2, ConcatFields
<1>6. FoundBy(WithArray(doc, "x", p)) = ToSet(found)
  <2>1. WithArray(doc, "x", p) = kept \o x
    BY <1>3, <1>4 DEF x
  <2>2. Array(found)[2] = found
    BY DEF Array
  <2> QED BY <1>5, <2>1, <2>2 DEF FoundBy
<1>7. /\ \A k \in DOMAIN p : Ascending(K)[k] \in K /\ p[k] = list[Ascending(K)[k]]
      /\ \A i \in K : \E k \in DOMAIN p : Ascending(K)[k] = i
  <2>1. \A k \in DOMAIN p : Ascending(K)[k] \in K /\ p[k] = list[Ascending(K)[k]]
    BY PickedLists
  <2>2. \A i \in K : \E k \in DOMAIN p : Ascending(K)[k] = i
    BY PickedLists
  <2> QED BY <2>1, <2>2
<1> HIDE DEF p
<1>8. ToSet(found) = {Document(p[k]) : k \in DOMAIN p}
  BY DEF ToSet, found
<1>9. {Document(p[k]) : k \in DOMAIN p} = {Document(list[k]) : k \in K}
  <2>1. ASSUME NEW i \in K PROVE \E k \in DOMAIN p : Document(p[k]) = Document(list[i])
    BY <1>7
  <2>2. ASSUME NEW k \in DOMAIN p PROVE \E i \in K : Document(p[k]) = Document(list[i])
    BY <1>7
  <2> QED BY <2>1, <2>2
<1> QED BY <1>6, <1>8, <1>9 DEF p

LEMMA JoinsBothWays ==
  ASSUME NEW v, ~IsArray(v), NEW w, ~IsArray(w)
  PROVE  Joins(v, w) <=> Joins(w, v)
<1>1. ValueEqual(v, w) <=> ValueEqual(w, v)
  BY DEF ValueEqual, EqualNumbers
<1>2. CASE v = Missing
  BY <1>2 DEF Joins, Missing, Null, IsArray
<1>3. CASE w = Missing
  BY <1>3 DEF Joins, Missing, Null, IsArray
<1>4. CASE v # Missing /\ w # Missing
  BY <1>1, <1>4 DEF Joins
<1> QED BY <1>2, <1>3, <1>4

LEMMA SameDocument == \A d, e : Document(d) = Document(e) <=> d = e
  BY DEF Document

(* A document is found from a stream if a field of it joins. *)
LEMMA FoundIfJoined ==
  ASSUME NEW stream, NEW from, NEW local \in Fields, NEW foreign \in Fields, NEW owner, from \in DOMAIN owner,
         IsList(owner[from]), NEW i \in DOMAIN stream, IsList(stream[i]), NEW e
  PROVE  Document(e) \in FoundBy(LookupStage(stream, Lookup(from, local, foreign), owner).docs[i]) <=>
           \E k \in DOMAIN owner[from] : owner[from][k] = e /\ Joins(Find(stream[i], local), Find(e, foreign))
<1> DEFINE list == owner[from]
           K == {k \in DOMAIN list : Joins(Find(stream[i], local), Find(list[k], foreign))}
<1>1. LookupStage(stream, Lookup(from, local, foreign), owner).docs[i] = WithArray(stream[i], "x", Picked(list, K))
  <2>1. LookupStage(stream, Lookup(from, local, foreign), owner).docs =
          [j \in DOMAIN stream |->
             WithArray(stream[j], "x",
                       Picked(owner[from], {k \in DOMAIN owner[from] : Joins(Find(stream[j], local), Find(owner[from][k], foreign))}))]
    BY LookupYields
  <2> QED BY <2>1
<1>2. FoundBy(WithArray(stream[i], "x", Picked(list, K))) = {Document(list[k]) : k \in K}
  BY WithArrayFinds
<1>3. Document(e) \in {Document(list[k]) : k \in K} <=> \E k \in K : list[k] = e
  BY SameDocument
<1> QED BY <1>1, <1>2, <1>3

(* Where no field is an array, a document finds by $lookup those documents  *)
(* of another collection that would find it, whether the fields are there,   *)
(* missing or null (local_matches_foreign, filter_foreign_docs_for_local).    *)
THEOREM JoinsAreSymmetric == Spec => [](IsStream(docs) => JoinIsSymmetric)
<1>1. IsStream(docs) => JoinIsSymmetric
  <2> SUFFICES ASSUME IsStream(docs), NEW f \in Fields, NEW g \in Fields, NEW k \in DOMAIN Others, NEW i \in DOMAIN docs,
                      ~IsArray(Find(docs[i], f)), ~IsArray(Find(Others[k], g))
               PROVE  Document(Others[k]) \in FoundBy(LookupStage(docs, Lookup("other", f, g), Owner).docs[i]) <=>
                      Document(docs[i]) \in FoundBy(LookupStage(<<Others[k]>>, Lookup("main", g, f), [main |-> docs]).docs[1])
    BY DEF JoinIsSymmetric, FindEachOther
  <2> DEFINE here == Document(Others[k]) \in FoundBy(LookupStage(docs, Lookup("other", f, g), Owner).docs[i])
             there == Document(docs[i]) \in FoundBy(LookupStage(<<Others[k]>>, Lookup("main", g, f), [main |-> docs]).docs[1])
  <2>1. IsList(Others) /\ IsList(Others[k]) /\ IsList(docs) /\ IsList(docs[i])
    BY OthersAssumption DEF IsStream
  <2>2. here <=> Joins(Find(docs[i], f), Find(Others[k], g))
    <3>1. "other" \in DOMAIN Owner /\ Owner["other"] = Others
      BY DEF Owner
    <3>2. here <=> \E j \in DOMAIN Others : Others[j] = Others[k] /\ Joins(Find(docs[i], f), Find(Others[k], g))
      BY <2>1, <3>1, FoundIfJoined
    <3> QED BY <3>2
  <2>3. there <=> Joins(Find(Others[k], g), Find(docs[i], f))
    <3> DEFINE owner == [main |-> docs]
               stream == <<Others[k]>>
    <3>1. "main" \in DOMAIN owner /\ owner["main"] = docs
      OBVIOUS
    <3>2. 1 \in DOMAIN stream /\ stream[1] = Others[k]
      OBVIOUS
    <3> HIDE DEF owner, stream
    <3>3. IsList(owner["main"]) /\ IsList(stream[1])
      BY <2>1, <3>1, <3>2
    <3>4. Document(docs[i]) \in FoundBy(LookupStage(stream, Lookup("main", g, f), owner).docs[1]) <=>
            \E j \in DOMAIN owner["main"] : owner["main"][j] = docs[i] /\ Joins(Find(stream[1], g), Find(docs[i], f))
      BY <3>1, <3>2, <3>3, FoundIfJoined
    <3> QED BY <3>1, <3>2, <3>4 DEF owner, stream
  <2> HIDE DEF here, there
  <2>4. here <=> there
    BY <2>2, <2>3, JoinsBothWays
  <2> QED BY <2>4 DEF here, there
<1> QED BY <1>1, PTL

-----------------------------------------------------------------------------
(* $unwind, and the $group of one group.                                    *)

(* The lists of a list of one list. *)
LEMMA FlattenOne ==
  ASSUME NEW s, IsList(s), Len(s) = 1
  PROVE  FlattenSeq(s) = s[1]
<1> DEFINE Step(f) == [i \in 1 .. Len(s) |-> IF i = 1 THEN s[i] ELSE f[i - 1] \o s[i]]
           flatten == CHOOSE f : f = Step(f)
           once == [i \in 1 .. 1 |-> s[1]]
<1>1. once = Step(once)
  OBVIOUS
<1>2. flatten = Step(flatten)
  <2> HIDE DEF once, Step
  <2>1. \E f : f = Step(f)
    BY <1>1
  <2> QED BY <2>1
<1>3. flatten[1] = s[1]
  BY <1>2
<1>4. FlattenSeq(s) = flatten[Len(s)]
  BY DEF FlattenSeq
<1> QED BY <1>3, <1>4

(* Two fields at the end of a document that had them elsewhere. *)
LEMMA MovedFields ==
  ASSUME NEW doc, IsList(doc), NEW name, NEW other, other # name, NEW v, v # Missing, NEW n, n # Missing
  PROVE  LET row == Without(doc, {name, other}) \o Present(<< <<name, v>>, <<other, n>> >>)
         IN  IsList(row) /\ Find(row, name) = v /\ Find(row, other) = n
<1> DEFINE kept == Without(doc, {name, other})
           added == << <<name, v>>, <<other, n>> >>
<1>1. IsList(kept) /\ name \notin Names(kept) /\ other \notin Names(kept)
  <2>1. IsList(kept) /\ Names(kept) = Names(doc) \ {name, other}
    BY WithoutFields
  <2> HIDE DEF kept
  <2> QED BY <2>1
<1>2. /\ IsList(added) /\ Find(added, name) = v /\ Find(added, other) = n
  BY TwoFields
<1>3. DOMAIN added = {1, 2} /\ added[1] = <<name, v>> /\ added[2] = <<other, n>>
  BY TwoElements
<1> HIDE DEF kept, added
<1>4. Present(added) = added
  <2>1. \A i \in DOMAIN added : added[i][2] # Missing
    BY <1>3
  <2>2. {i \in DOMAIN added : added[i][2] # Missing} = DOMAIN added
    BY <2>1
  <2> QED BY <1>2, <2>2, PickedAll DEF Present, Selected
<1>5. IsList(kept \o added)
  BY <1>1, <1>2, ConcatLists
<1>6. Find(kept \o added, name) = v
  BY <1>1, <1>2, ConcatFields
<1>7. Find(kept \o added, other) = n
  BY <1>1, <1>2, ConcatFields
<1> QED BY <1>4, <1>5, <1>6, <1>7 DEF kept, added

(* Two names, neither of them empty. *)
AreApart(name, index) == "" \notin {name, index} /\ index # name

(* A row of $unwind with an index. *)
LEMMA RebuiltFinds ==
  ASSUME NEW doc, IsList(doc), NEW name, NEW index, AreApart(name, index),
         NEW v, v # Missing, NEW n, n # Missing
  PROVE  LET row == Rebuilt(doc, name, v, index, n)
         IN  IsList(row) /\ Find(row, name) = v /\ Find(row, index) = n
<1> DEFINE row == Without(doc, {name, index}) \o Present(<< <<name, v>>, <<index, n>> >>)
<1>1. IsList(row) /\ Find(row, name) = v /\ Find(row, index) = n
  <2>1. index # name
    BY DEF AreApart
  <2> QED BY <2>1, MovedFields
<1>2. Rebuilt(doc, name, v, index, n) = row
  <2>1. {name, index} \ {""} = {name, index} /\ index # ""
    BY DEF AreApart
  <2> QED BY <2>1 DEF Rebuilt
<1> HIDE DEF row
<1> QED BY <1>1, <1>2

(* The stage makes a row of every element. *)
LEMMA UnwindYields ==
  ASSUME NEW doc, NEW name \in Fields, IsArray(Find(doc, name)), Find(doc, name)[2] # <<>>
  PROVE  UnwindStage(<<doc>>, Document(<< <<"path", FieldRef(name)>>, <<"includeArrayIndex", Text("x")>> >>)).docs =
           [i \in DOMAIN Find(doc, name)[2] |-> Rebuilt(doc, name, Find(doc, name)[2][i], "x", Int64(i - 1))]
<1> DEFINE fields == << <<"path", FieldRef(name)>>, <<"includeArrayIndex", Text("x")>> >>
           arg == Document(fields)
           v == Find(doc, name)
           stream == <<doc>>
           rows == [i \in DOMAIN stream |-> Unwound(stream[i], name, FALSE, "x")]
<1>1. IsList(fields) /\ Names(fields) = {"path", "includeArrayIndex"}
      /\ Find(fields, "path") = FieldRef(name) /\ Find(fields, "includeArrayIndex") = Text("x")
  <2>1. IsList(fields) /\ Names(fields) = {"path", "includeArrayIndex"}
    BY TwoFields, SMTT(30)
  <2>2. Find(fields, "path") = FieldRef(name)
    BY TwoFields, SMTT(30)
  <2>3. Find(fields, "includeArrayIndex") = Text("x")
    BY TwoFields, SMTT(30)
  <2> QED BY <2>1, <2>2, <2>3
<1>2. ~IsText(arg) /\ arg[2] = fields
  BY DEF IsText, Document
<1>3. DOMAIN stream = 1 .. 1 /\ stream[1] = doc
  OBVIOUS
<1> HIDE DEF fields, arg, stream
<1>4. Find(fields, "preserveNullAndEmptyArrays") = Missing
  BY <1>1, FindsFirst
<1>5. Truthy(Missing) = FALSE
  BY DEF Truthy
<1>6. FieldRef(name)[2][2] = name /\ FieldRef(name) # Missing /\ Text("x")[2][2] = "x" /\ Text("x") # Missing
  BY DEF FieldRef, Text, Missing
<1>7. IsTopLevel(name)
  BY FieldsAssumption
<1>8. UnwindStage(stream, arg) = Yields(FlattenSeq(rows))
  BY <1>1, <1>2, <1>4, <1>5, <1>6, <1>7 DEF UnwindStage
<1>9. v # Missing
  BY DEF IsArray, Missing
<1>10. rows[1] = [i \in DOMAIN v[2] |-> Rebuilt(doc, name, v[2][i], "x", Int64(i - 1))]
  BY <1>3, <1>9 DEF Unwound
<1>11. IsList(rows) /\ Len(rows) = 1
  <2>1. rows = [i \in 1 .. 1 |-> rows[i]]
    BY <1>3
  <2> HIDE DEF rows
  <2> QED BY <2>1, ListFrom
<1> HIDE DEF rows
<1>12. FlattenSeq(rows) = rows[1]
  BY <1>11, FlattenOne
<1> QED BY <1>8, <1>10, <1>12 DEF Yields, stream, arg, fields

(* The specification of a $group: each field but _id has an accumulator. *)
AreAccumulators(spec) ==
  \A i \in DOMAIN spec :
    spec[i][1] # "_id" => \E op \in Accumulators : \E expr : spec[i][2] = S(op, expr)

LEMMA CallParts ==
  ASSUME NEW op, NEW expr
  PROVE  LET call == S(op, expr)
         IN  IsDocument(call) /\ call[2][1][1] = op /\ call[2][1][2] = expr /\ Names(call[2]) # {}
<1> DEFINE call == S(op, expr)
<1>1. IsDocument(call) /\ call[2] = << <<op, expr>> >>
  BY DEF IsDocument, S, Document
<1>2. Names(<< <<op, expr>> >>) = {op}
  BY OneField
<1> HIDE DEF call
<1> QED BY <1>1, <1>2 DEF call

LEMMA AccumulatorFields ==
  ASSUME NEW spec, IsList(spec), AreAccumulators(spec)
  PROVE  LET fields == Without(spec, {"_id"})
         IN  /\ IsList(fields) /\ Names(fields) = Names(spec) \ {"_id"}
             /\ \A name \in Names(fields) : Find(fields, name) = Find(spec, name)
             /\ \A i \in DOMAIN fields :
                  /\ IsDocument(fields[i][2]) /\ Names(fields[i][2][2]) # {}
                  /\ fields[i][2][2][1][1] \in Accumulators
<1> DEFINE fields == Without(spec, {"_id"})
<1>1. IsList(fields) /\ Names(fields) = Names(spec) \ {"_id"}
  BY WithoutFields
<1>2. \A name \in Names(fields) : Find(fields, name) = Find(spec, name)
  <2>1. \A name : name \notin {"_id"} => Find(fields, name) = Find(spec, name)
    BY WithoutFields
  <2> QED BY <1>1, <2>1
<1>3. \A i \in DOMAIN fields : \E j \in DOMAIN spec : fields[i] = spec[j]
  BY WithoutFields
<1> HIDE DEF fields
<1>4. ASSUME NEW i \in DOMAIN fields
      PROVE  /\ IsDocument(fields[i][2]) /\ Names(fields[i][2][2]) # {}
             /\ fields[i][2][2][1][1] \in Accumulators
  <2>1. PICK j \in DOMAIN spec : fields[i] = spec[j]
    BY <1>3
  <2>2. fields[i][1] \in Names(fields)
    BY DEF Names
  <2>3. spec[j][1] # "_id"
    BY <1>1, <2>1, <2>2
  <2>4. PICK op \in Accumulators : \E expr : fields[i][2] = S(op, expr)
    BY <2>1, <2>3 DEF AreAccumulators
  <2>5. PICK expr : fields[i][2] = S(op, expr)
    BY <2>4
  <2> QED BY <2>5, CallParts
<1> QED BY <1>1, <1>2, <1>4 DEF fields

(* The row of a group: its key, and what each accumulator makes of it. *)
LEMMA RowFinds ==
  ASSUME NEW spec, IsList(spec), AreAccumulators(spec), NEW key, NEW group,
         NEW field \in Names(spec) \ {"_id"}, NEW op, NEW expr, Find(spec, field) = S(op, expr)
  PROVE  LET row == GroupRow(key, group, Without(spec, {"_id"}))
         IN  IsList(row) /\ Find(row, "_id") = key /\ Find(row, field) = Accumulate(op, Evaluated(group, expr))
<1> DEFINE fields == Without(spec, {"_id"})
           id == << <<"_id", key>> >>
           cells == [i \in DOMAIN fields |->
                       <<fields[i][1], Accumulate(fields[i][2][2][1][1], Evaluated(group, fields[i][2][2][1][2]))>>]
<1>1. IsList(fields) /\ Names(fields) = Names(spec) \ {"_id"}
  BY AccumulatorFields
<1>2. Find(fields, field) = S(op, expr)
  BY <1>1, AccumulatorFields
<1> HIDE DEF fields
<1>3. IsList(cells) /\ DOMAIN cells = DOMAIN fields
  <2>1. Len(fields) \in Nat /\ DOMAIN fields = 1 .. Len(fields)
    BY <1>1, ListParts
  <2>2. DOMAIN cells = DOMAIN fields /\ cells = [i \in 1 .. Len(fields) |-> cells[i]]
    BY <2>1
  <2> HIDE DEF cells
  <2> QED BY <2>1, <2>2, ListFrom
<1>4. Find(cells, field) = Accumulate(op, Evaluated(group, expr))
  <2>1. PICK i \in DOMAIN fields :
          /\ fields[i][1] = field /\ Find(fields, field) = fields[i][2]
          /\ \A j \in DOMAIN fields : fields[j][1] = field => i <= j
    BY <1>1, FindsFirst
  <2>2. fields[i][2][2][1][1] = op /\ fields[i][2][2][1][2] = expr
    <3>1. fields[i][2] = S(op, expr)
      BY <1>2, <2>1
    <3>2. S(op, expr)[2][1][1] = op /\ S(op, expr)[2][1][2] = expr
      BY CallParts
    <3> QED BY <3>1, <3>2
  <2>3. cells[i][1] = field /\ cells[i][2] = Accumulate(op, Evaluated(group, expr))
    BY <2>1, <2>2
  <2>4. \A j \in DOMAIN cells : cells[j][1] = field => i <= j
    BY <2>1
  <2> HIDE DEF cells
  <2> QED BY <1>3, <2>3, <2>4, FindIs
<1>5. GroupRow(key, group, fields) = id \o cells
  BY DEF GroupRow
<1>6. IsList(id) /\ Names(id) = {"_id"} /\ Find(id, "_id") = key
  BY OneField
<1> HIDE DEF id, cells
<1>7. IsList(id \o cells)
  BY <1>3, <1>6, ConcatLists
<1>8. Find(id \o cells, "_id") = key
  BY <1>3, <1>6, ConcatFields
<1>9. Find(id \o cells, field) = Find(cells, field)
  <2>1. field \notin Names(id)
    BY <1>6
  <2> QED BY <1>3, <1>6, <2>1, ConcatFields
<1> QED BY <1>4, <1>5, <1>7, <1>8, <1>9 DEF fields

LEMMA StageGroups ==
  ASSUME NEW stream, NEW spec, IsList(spec), AreAccumulators(spec), Find(spec, "_id") # Missing
  PROVE  LET expr == Find(spec, "_id")
         IN  GroupStage(stream, spec).docs =
               GroupRows(stream, expr, Without(spec, {"_id"}),
                         FirstSeen([i \in DOMAIN stream |-> GroupKey(stream[i], expr)]))
<1> DEFINE fields == Without(spec, {"_id"})
<1>1. \A i \in DOMAIN fields :
        /\ IsDocument(fields[i][2]) /\ Names(fields[i][2][2]) # {}
        /\ fields[i][2][2][1][1] \in Accumulators
  BY AccumulatorFields
<1> HIDE DEF fields
<1> QED BY <1>1 DEF GroupStage, Yields, fields

(* The $group of all documents into one. *)
LEMMA OneGroup ==
  ASSUME NEW pieces, IsList(pieces), pieces # <<>>, NEW name, IsTopLevel(name),
         NEW spec, IsList(spec), Find(spec, "_id") = Null, AreAccumulators(spec),
         NEW field \in Names(spec) \ {"_id"}, NEW op, Find(spec, field) = S(op, FieldRef(name))
  PROVE  LET row == GroupStage(pieces, spec).docs[1]
             values == [i \in DOMAIN pieces |-> Find(pieces[i], name)]
         IN  Find(row, field) = Accumulate(op, values)
<1> DEFINE fields == Without(spec, {"_id"})
           keys == [i \in DOMAIN pieces |-> GroupKey(pieces[i], Null)]
           values == [i \in DOMAIN pieces |-> Find(pieces[i], name)]
<1>1. DOMAIN pieces = 1 .. Len(pieces) /\ Len(pieces) \in Nat /\ 1 \in DOMAIN pieces
  BY ListParts
<1>2. \A i \in DOMAIN keys : keys[i] = Null
  <2>1. \A d : Evaluate(d, Null) = Null
    BY ConstantEvaluates DEF Null
  <2>2. OrNull(Null) = Null
    BY DEF OrNull
  <2> QED BY <2>1, <2>2 DEF GroupKey
<1>3. IsList(keys) /\ DOMAIN keys = DOMAIN pieces
  <2>1. DOMAIN keys = DOMAIN pieces /\ keys = [i \in 1 .. Len(pieces) |-> keys[i]]
    BY <1>1
  <2> HIDE DEF keys
  <2> QED BY <1>1, <2>1, ListFrom
<1> HIDE DEF keys
<1>4. FirstSeen(keys)[1] = Null /\ 1 \in DOMAIN FirstSeen(keys)
  <2> DEFINE K == {i \in DOMAIN keys : \A j \in 1 .. i - 1 : keys[j] # keys[i]}
             seen == Picked(keys, K)
  <2>1. K \in SUBSET (DOMAIN keys) /\ 1 \in K
    BY <1>1, <1>3
  <2>2. FirstSeen(keys) = seen
    BY DEF FirstSeen
  <2> HIDE DEF K
  <2>3. seen # <<>> /\ IsList(seen) /\ \A k \in DOMAIN seen : Ascending(K)[k] \in K /\ seen[k] = keys[Ascending(K)[k]]
    BY <1>3, <2>1, HeadOfPicked, PickedLists
  <2> HIDE DEF seen
  <2>4. 1 \in DOMAIN seen
    BY <2>3, ListParts
  <2>5. seen[1] = Null
    BY <1>2, <2>1, <2>3, <2>4
  <2> QED BY <2>2, <2>4, <2>5
<1>5. GroupOf(pieces, Null, Null) = pieces
  <2>1. {i \in DOMAIN pieces : GroupKey(pieces[i], Null) = Null} = DOMAIN pieces
    BY <1>2 DEF keys
  <2> QED BY <2>1, PickedAll DEF GroupOf, Selected
<1>6. GroupStage(pieces, spec).docs = GroupRows(pieces, Null, fields, FirstSeen(keys))
  <2>1. Null # Missing
    BY DEF Null, Missing
  <2> QED BY <2>1, StageGroups DEF keys
<1> HIDE DEF fields
<1>7. GroupRows(pieces, Null, fields, FirstSeen(keys))[1] = GroupRow(Null, pieces, fields)
  BY <1>4, <1>5 DEF GroupRows
<1>8. Find(GroupRow(Null, pieces, fields), field) = Accumulate(op, Evaluated(pieces, FieldRef(name)))
  BY RowFinds DEF fields
<1>9. Evaluated(pieces, FieldRef(name)) = values
  BY RefFinds DEF Evaluated
<1> QED BY <1>6, <1>7, <1>8, <1>9

(* $push collects the values of a field. *)
LEMMA GroupPushes ==
  ASSUME NEW pieces, IsList(pieces), pieces # <<>>, NEW name, IsTopLevel(name)
  PROVE  LET row == GroupStage(pieces, << <<"_id", Null>>, <<"a", S("$push", FieldRef(name))>> >>).docs[1]
             values == [i \in DOMAIN pieces |-> Find(pieces[i], name)]
         IN  Find(row, "a") = Array(Picked(values, {i \in DOMAIN values : values[i] # Missing}))
<1> DEFINE push == S("$push", FieldRef(name))
           spec == << <<"_id", Null>>, <<"a", push>> >>
           values == [i \in DOMAIN pieces |-> Find(pieces[i], name)]
<1> HIDE DEF push
<1>1. IsList(spec) /\ DOMAIN spec = {1, 2} /\ spec[1] = <<"_id", Null>> /\ spec[2] = <<"a", push>>
  BY TwoElements
<1>2. Find(spec, "_id") = Null /\ Names(spec) = {"_id", "a"}
  BY TwoFields
<1>3. Find(spec, "a") = push
  BY TwoFields
<1> HIDE DEF spec
<1>4. "$push" \in Accumulators
  BY DEF Accumulators
<1>5. AreAccumulators(spec)
  BY <1>1, <1>4 DEF AreAccumulators, push
<1>6. "a" \in Names(spec) \ {"_id"}
  BY <1>2
<1>7. Find(GroupStage(pieces, spec).docs[1], "a") = Accumulate("$push", values)
  BY <1>1, <1>2, <1>3, <1>4, <1>5, <1>6, OneGroup DEF push
<1>8. Accumulate("$push", values) = Array(Picked(values, {i \in DOMAIN values : values[i] # Missing}))
  BY DEF Accumulate, Selected, IsPresent
<1> QED BY <1>7, <1>8 DEF spec, push

(* The element of an array at an index that it has, counted from 0. *)
LEMMA ElementEvaluates ==
  ASSUME ValuesClosed, NEW name, IsTopLevel(name), NEW d, IsArray(Find(d, name)), IsList(Find(d, name)[2]),
         NEW k \in DOMAIN Find(d, name)[2]
  PROVE  Evaluate(d, S("$arrayElemAt", Array(<<FieldRef(name), Int64(k - 1)>>))) = Find(d, name)[2][k]
<1> DEFINE v == Find(d, name)
           index == Int64(k - 1)
           arg == Array(<<FieldRef(name), index>>)
           vs == <<v, index>>
<1>1. Len(v[2]) \in Nat /\ DOMAIN v[2] = 1 .. Len(v[2])
  BY ListParts
<1>2. IsNumeric(index) /\ AsInt(index) = k - 1
  BY DEF IsNumeric, AsInt, Int64
<1>3. Evaluate(d, index) = index
  BY ConstantEvaluates DEF Int64
<1> HIDE DEF index
<1>4. Elements(d, arg) = vs
  <2>1. Evaluate(d, FieldRef(name)) = v
    BY RefFinds
  <2> QED BY <1>3, <2>1, PairEvaluates
<1>5. Evaluate(d, S("$arrayElemAt", arg)) = EvaluateOperator("$arrayElemAt", d, arg)
  BY CallEvaluates DEF Dollar
<1> HIDE DEF arg
<1>6. EvaluateOperator("$arrayElemAt", d, arg) = ArrayElemAt(vs)
  BY <1>4 DEF EvaluateOperator
<1>7. Len(vs) = 2 /\ vs[1] = v /\ vs[2] = index
  BY TwoElements
<1> HIDE DEF vs, v
<1>8. ArrayElemAt(vs) = v[2][k]
  <2>1. k \in 1 .. Len(v[2])
    BY <1>1 DEF v
  <2>2. k - 1 \in 0 .. Len(v[2]) - 1 /\ ~(k - 1 < 0) /\ (k - 1) + 1 = k
    BY <1>1, <2>1
  <2> QED BY <1>2, <1>7, <2>2 DEF ArrayElemAt, v
<1> QED BY <1>5, <1>6, <1>8 DEF v, arg, index

(* The rows of an array, each with its index. *)
LEMMA PiecesArePieces ==
  ASSUME ValuesClosed, NEW doc, IsList(doc), NEW name, IsTopLevel(name), NEW index, AreApart(name, index),
         NEW v, v = Find(doc, name), IsArray(v), v = Array(v[2]), v[2] # <<>>, IsList(v[2]),
         \A k \in DOMAIN v[2] : v[2][k] # Missing
  PROVE  LET pieces == [k \in DOMAIN v[2] |-> Rebuilt(doc, name, v[2][k], index, Int64(k - 1))]
         IN  /\ Find(GroupStage(pieces, << <<"_id", Null>>, <<"a", S("$push", FieldRef(name))>> >>).docs[1], "a") = v
             /\ \A k \in DOMAIN pieces :
                  Find(pieces[k], name) = Evaluate(doc, S("$arrayElemAt", Array(<<FieldRef(name), Find(pieces[k], index)>>)))
<1> DEFINE pieces == [k \in DOMAIN v[2] |-> Rebuilt(doc, name, v[2][k], index, Int64(k - 1))]
           values == [k \in DOMAIN pieces |-> Find(pieces[k], name)]
<1>1. Len(v[2]) \in Nat /\ DOMAIN v[2] = 1 .. Len(v[2]) /\ Len(v[2]) # 0
  BY ListParts
<1>2. \A k \in DOMAIN pieces : Find(pieces[k], name) = v[2][k] /\ Find(pieces[k], index) = Int64(k - 1)
  <2> SUFFICES ASSUME NEW k \in DOMAIN v[2]
               PROVE  LET row == Rebuilt(doc, name, v[2][k], index, Int64(k - 1))
                      IN  Find(row, name) = v[2][k] /\ Find(row, index) = Int64(k - 1)
    OBVIOUS
  <2> DEFINE n == Int64(k - 1)
  <2>1. n # Missing /\ v[2][k] # Missing
    BY DEF Int64, Missing
  <2> HIDE DEF n
  <2>2. LET row == Rebuilt(doc, name, v[2][k], index, n)
        IN  Find(row, name) = v[2][k] /\ Find(row, index) = n
    BY <2>1, RebuiltFinds
  <2> QED BY <2>2 DEF n
<1>3. DOMAIN pieces = DOMAIN v[2] /\ IsList(pieces) /\ pieces # <<>>
  <2>1. DOMAIN pieces = DOMAIN v[2] /\ pieces = [k \in 1 .. Len(v[2]) |-> pieces[k]]
    BY <1>1
  <2> HIDE DEF pieces
  <2>2. IsList(pieces) /\ Len(pieces) = Len(v[2])
    BY <1>1, <2>1, ListFrom
  <2> QED BY <1>1, <2>1, <2>2
<1> HIDE DEF pieces
<1>4. values = v[2]
  <2>1. DOMAIN values = DOMAIN v[2] /\ \A k \in DOMAIN v[2] : values[k] = v[2][k]
    BY <1>2, <1>3
  <2>2. v[2] = [k \in DOMAIN v[2] |-> v[2][k]] /\ values = [k \in DOMAIN v[2] |-> values[k]]
    BY <1>1, <2>1, ListParts
  <2> QED BY <2>1, <2>2
<1>5. Picked(values, {k \in DOMAIN values : values[k] # Missing}) = v[2]
  <2>1. {k \in DOMAIN v[2] : v[2][k] # Missing} = DOMAIN v[2]
    OBVIOUS
  <2> HIDE DEF values
  <2> QED BY <1>4, <2>1, PickedAll
<1>6. Find(GroupStage(pieces, << <<"_id", Null>>, <<"a", S("$push", FieldRef(name))>> >>).docs[1], "a") = v
  <2> DEFINE row == GroupStage(pieces, << <<"_id", Null>>, <<"a", S("$push", FieldRef(name))>> >>).docs[1]
  <2>1. Find(row, "a") = Array(Picked(values, {k \in DOMAIN values : values[k] # Missing}))
    BY <1>3, GroupPushes
  <2> HIDE DEF row, values
  <2>2. Find(row, "a") = v
    BY <1>5, <2>1
  <2> QED BY <2>2 DEF row
<1>7. \A k \in DOMAIN pieces :
        Find(pieces[k], name) = Evaluate(doc, S("$arrayElemAt", Array(<<FieldRef(name), Find(pieces[k], index)>>)))
  <2> SUFFICES ASSUME NEW k \in DOMAIN pieces
               PROVE  Find(pieces[k], name) =
                        Evaluate(doc, S("$arrayElemAt", Array(<<FieldRef(name), Find(pieces[k], index)>>)))
    OBVIOUS
  <2>1. Evaluate(doc, S("$arrayElemAt", Array(<<FieldRef(name), Int64(k - 1)>>))) = v[2][k]
    BY <1>3, ElementEvaluates
  <2> QED BY <1>2, <2>1
<1> QED BY <1>6, <1>7 DEF pieces

(* Unwinding an array and pushing what comes out gives the array back, and   *)
(* the index tells where in the array each piece was, for every document of  *)
(* a stream (apply_unwind_stage, apply_group_stage).                          *)
THEOREM UnwindingIsUndone ==
  ASSUME ValuesClosed
  PROVE  Spec => [](IsStream(docs) => UnwindThenGroup)
<1>1. IsStream(docs) => UnwindThenGroup
  <2> SUFFICES ASSUME IsStream(docs), NEW i \in DOMAIN docs, NEW name \in Fields,
                      IsArray(Find(docs[i], name)), Find(docs[i], name) # Array(<<>>), name # "x"
               PROVE  ArePieces(docs[i], name, Find(docs[i], name),
                        UnwindStage(<<docs[i]>>,
                          Document(<< <<"path", FieldRef(name)>>, <<"includeArrayIndex", Text("x")>> >>)).docs)
    BY DEF UnwindThenGroup
  <2> DEFINE doc == docs[i]
             v == Find(doc, name)
             pieces == [k \in DOMAIN v[2] |-> Rebuilt(doc, name, v[2][k], "x", Int64(k - 1))]
  <2>1. IsList(doc) /\ IsTopLevel(name)
    BY FieldsAssumption DEF IsStream
  <2>2. AreApart(name, "x")
    BY FieldsAssumption DEF AreApart
  <2>3. v = <<v[1], v[2]>> /\ IsList(v[2]) /\ \A k \in DOMAIN v[2] : v[2][k] # Missing
    <3>1. v # Missing
      BY DEF IsArray, Missing
    <3>2. name \in Names(doc)
      BY <2>1, <3>1, FindsFirst
    <3>3. PICK j \in DOMAIN doc : v = doc[j][2]
      BY ONLY <2>1, <3>2, FindsFirst
    <3> QED BY <3>3 DEF IsStream, IsCell
  <2>4. IsArray(v) /\ v = Array(v[2]) /\ v[2] # <<>>
    <3>1. v[1] = "array"
      BY DEF IsArray
    <3> HIDE DEF v
    <3>2. v = Array(v[2])
      BY <2>3, <3>1 DEF Array
    <3> QED BY <3>1, <3>2 DEF IsArray, v
  <2>5. UnwindStage(<<doc>>, Document(<< <<"path", FieldRef(name)>>, <<"includeArrayIndex", Text("x")>> >>)).docs = pieces
    BY <2>4, UnwindYields
  <2>6. v = Find(doc, name)
    OBVIOUS
  <2> HIDE DEF v, doc
  <2>7. /\ Find(GroupStage(pieces, << <<"_id", Null>>, <<"a", S("$push", FieldRef(name))>> >>).docs[1], "a") = v
        /\ \A k \in DOMAIN pieces :
             Find(pieces[k], name) = Evaluate(doc, S("$arrayElemAt", Array(<<FieldRef(name), Find(pieces[k], "x")>>)))
    BY <2>1, <2>2, <2>3, <2>4, <2>6, PiecesArePieces
  <2> HIDE DEF pieces
  <2> QED BY <2>5, <2>7 DEF ArePieces, v, doc
<1> QED BY <1>1, PTL

-----------------------------------------------------------------------------
(* Sums.                                                                    *)

(* The exact sum goes through these numbers. *)
LEMMA ExactTotalRuns ==
  ASSUME NEW numbers, IsList(numbers), \A i \in DOMAIN numbers : Units(numbers[i]) \in Int
  PROVE  \E g \in [0 .. Len(numbers) -> Int] :
           /\ g[0] = 0
           /\ \A k \in 1 .. Len(numbers) : g[k] = g[k - 1] + Units(numbers[k])
           /\ \A k \in 0 .. Len(numbers) : ExactTotals(numbers)[k] = g[k]
           /\ ExactTotal(numbers) = g[Len(numbers)]
<1> DEFINE n == Len(numbers)
           Step(f) == [k \in 0 .. n |-> IF k = 0 THEN 0 ELSE f[k - 1] + Units(numbers[k])]
           sum == CHOOSE f : f = Step(f)
           step == [k \in 1 .. n |-> [s \in Int |-> s + Units(numbers[k])]]
<1>1. n \in Nat /\ \A k \in 1 .. n : Units(numbers[k]) \in Int
  BY ListParts
<1>2. \A k \in 1 .. n, s \in Int :
        step[k][s] = s + Units(numbers[k]) /\ step[k][s] \in Int
  <2> SUFFICES ASSUME NEW k \in 1 .. n, NEW s \in Int
               PROVE  step[k][s] = s + Units(numbers[k]) /\ s + Units(numbers[k]) \in Int
    OBVIOUS
  <2>1. s + Units(numbers[k]) \in Int
    BY <1>1
  <2> QED BY <2>1
<1> HIDE DEF step
<1>3. PICK g \in [0 .. n -> Int] : g[0] = 0 /\ \A k \in 1 .. n : g[k] = step[k][g[k - 1]]
  <2>1. AreSteps(step, n, Int)
    BY <1>2 DEF AreSteps
  <2> HIDE DEF n
  <2>2. \E g : IsRun(g, step, n, Int, 0)
    BY <1>1, <2>1, LoopStates
  <2> QED BY <2>2 DEF IsRun
<1>4. \A k \in 1 .. n : g[k] = g[k - 1] + Units(numbers[k])
  <2> SUFFICES ASSUME NEW k \in 1 .. n PROVE g[k] = g[k - 1] + Units(numbers[k])
    OBVIOUS
  <2>1. k - 1 \in 0 .. n /\ g[k - 1] \in Int
    BY <1>1, <1>3
  <2> QED BY <1>2, <1>3, <2>1
<1>5. g = Step(g)
  <2>1. g = [k \in 0 .. n |-> g[k]]
    BY <1>3
  <2>2. \A k \in 0 .. n : g[k] = IF k = 0 THEN 0 ELSE g[k - 1] + Units(numbers[k])
    BY <1>1, <1>3, <1>4
  <2> QED BY <2>1, <2>2
<1>6. sum = Step(sum)
  <2> HIDE DEF Step
  <2>1. \E f : f = Step(f)
    BY <1>5
  <2> QED BY <2>1
<1>7. sum[0] = 0 /\ \A k \in 1 .. n : sum[k] = sum[k - 1] + Units(numbers[k])
  <2> HIDE DEF sum
  <2>1. sum[0] = 0
    BY <1>1, <1>6
  <2>2. \A k \in 1 .. n : sum[k] = sum[k - 1] + Units(numbers[k])
    BY <1>1, <1>6
  <2> QED BY <2>1, <2>2
<1>8. ExactTotals(numbers) = sum
  BY DEF ExactTotals
<1> HIDE DEF sum, n
<1>9. \A k \in 0 .. n : sum[k] = g[k]
  <2> DEFINE P == {k \in 0 .. n : sum[k] = g[k]}
  <2>1. 0 \in P
    BY <1>1, <1>3, <1>7
  <2>2. ASSUME NEW m \in 0 .. n, m + 1 \in 0 .. n, m \in P PROVE m + 1 \in P
    <3>1. m + 1 \in 1 .. n /\ (m + 1) - 1 = m
      BY <1>1, <2>2
    <3>2. sum[m + 1] = sum[m] + Units(numbers[m + 1])
      BY <1>7, <3>1
    <3>3. g[m + 1] = g[m] + Units(numbers[m + 1])
      BY <1>4, <3>1
    <3> QED BY <2>2, <3>2, <3>3
  <2> HIDE DEF P
  <2>3. 0 .. n \subseteq P
    BY <1>1, <2>1, <2>2, HoldsUpTo
  <2> QED BY <2>3 DEF P
<1>10. ExactTotal(numbers) = g[n]
  BY <1>1, <1>8, <1>9 DEF ExactTotal, n
<1> QED BY <1>3, <1>4, <1>8, <1>9, <1>10 DEF n

(* The sum in doubles goes through these. *)
LEMMA DoubleTotalRuns ==
  ASSUME NEW numbers, IsList(numbers), \A i \in DOMAIN numbers : AsDouble(numbers[i]) \in Int
  PROVE  \E g \in [0 .. Len(numbers) -> Int] :
           /\ g[0] = 0
           /\ \A k \in 1 .. Len(numbers) : g[k] = Rounded(g[k - 1] + AsDouble(numbers[k]))
           /\ DoubleTotal(numbers) = g[Len(numbers)]
<1> DEFINE n == Len(numbers)
           Step(f) == [k \in 0 .. n |-> IF k = 0 THEN 0 ELSE Rounded(f[k - 1] + AsDouble(numbers[k]))]
           sum == CHOOSE f : f = Step(f)
           step == [k \in 1 .. n |-> [s \in Int |-> Rounded(s + AsDouble(numbers[k]))]]
<1>1. n \in Nat /\ \A k \in 1 .. n : AsDouble(numbers[k]) \in Int
  BY ListParts
<1>2. \A k \in 1 .. n, s \in Int :
        step[k][s] = Rounded(s + AsDouble(numbers[k])) /\ step[k][s] \in Int
  <2> SUFFICES ASSUME NEW k \in 1 .. n, NEW s \in Int
               PROVE  step[k][s] = Rounded(s + AsDouble(numbers[k])) /\ Rounded(s + AsDouble(numbers[k])) \in Int
    OBVIOUS
  <2>1. s + AsDouble(numbers[k]) \in Int
    BY <1>1
  <2>2. Rounded(s + AsDouble(numbers[k])) \in Int
    BY <2>1, RoundedIsDouble, DoublesAreNumbers
  <2> QED BY <2>2
<1> HIDE DEF step
<1>3. PICK g \in [0 .. n -> Int] : g[0] = 0 /\ \A k \in 1 .. n : g[k] = step[k][g[k - 1]]
  <2>1. AreSteps(step, n, Int)
    BY <1>2 DEF AreSteps
  <2> HIDE DEF n
  <2>2. \E g : IsRun(g, step, n, Int, 0)
    BY <1>1, <2>1, LoopStates
  <2> QED BY <2>2 DEF IsRun
<1>4. \A k \in 1 .. n : g[k] = Rounded(g[k - 1] + AsDouble(numbers[k]))
  <2> SUFFICES ASSUME NEW k \in 1 .. n PROVE g[k] = Rounded(g[k - 1] + AsDouble(numbers[k]))
    OBVIOUS
  <2>1. k - 1 \in 0 .. n /\ g[k - 1] \in Int
    BY <1>1, <1>3
  <2> QED BY <1>2, <1>3, <2>1
<1>5. g = Step(g)
  <2>1. g = [k \in 0 .. n |-> g[k]]
    BY <1>3
  <2>2. \A k \in 0 .. n : g[k] = IF k = 0 THEN 0 ELSE Rounded(g[k - 1] + AsDouble(numbers[k]))
    BY <1>1, <1>3, <1>4
  <2> QED BY <2>1, <2>2
<1>6. sum = Step(sum)
  <2> HIDE DEF Step
  <2>1. \E f : f = Step(f)
    BY <1>5
  <2> QED BY <2>1
<1>7. sum[0] = 0 /\ \A k \in 1 .. n : sum[k] = Rounded(sum[k - 1] + AsDouble(numbers[k]))
  <2> HIDE DEF sum
  <2>1. sum[0] = 0
    BY <1>1, <1>6
  <2>2. \A k \in 1 .. n : sum[k] = Rounded(sum[k - 1] + AsDouble(numbers[k]))
    BY <1>1, <1>6
  <2> QED BY <2>1, <2>2
<1>8. DoubleTotal(numbers) = sum[n]
  BY DEF DoubleTotal
<1> HIDE DEF sum, n
<1>9. sum[n] = g[n]
  <2> DEFINE P == {k \in 0 .. n : sum[k] = g[k]}
  <2>1. 0 \in P
    BY <1>1, <1>3, <1>7
  <2>2. ASSUME NEW m \in 0 .. n, m + 1 \in 0 .. n, m \in P PROVE m + 1 \in P
    <3>1. m + 1 \in 1 .. n /\ (m + 1) - 1 = m
      BY <1>1, <2>2
    <3>2. sum[m + 1] = Rounded(sum[m] + AsDouble(numbers[m + 1]))
      BY <1>7, <3>1
    <3>3. g[m + 1] = Rounded(g[m] + AsDouble(numbers[m + 1]))
      BY <1>4, <3>1
    <3> QED BY <2>2, <3>2, <3>3
  <2> HIDE DEF P
  <2>3. 0 .. n \subseteq P
    BY <1>1, <2>1, <2>2, HoldsUpTo
  <2>4. n \in P
    BY <1>1, <2>3
  <2> QED BY <2>4 DEF P
<1> QED BY <1>3, <1>4, <1>8, <1>9 DEF n

(* The sum in int64 goes through these. *)
LEMMA IntTotalRuns ==
  ASSUME NEW numbers, IsList(numbers), \A i \in DOMAIN numbers : AsInt(numbers[i]) \in Int
  PROVE  \E g \in [0 .. Len(numbers) -> Int] :
           /\ g[0] = 0
           /\ \A k \in 1 .. Len(numbers) : g[k] = Wrap(g[k - 1] + AsInt(numbers[k]))
           /\ IntTotal(numbers) = g[Len(numbers)]
<1> DEFINE n == Len(numbers)
           Step(f) == [k \in 0 .. n |-> IF k = 0 THEN 0 ELSE Wrap(f[k - 1] + AsInt(numbers[k]))]
           sum == CHOOSE f : f = Step(f)
           step == [k \in 1 .. n |-> [s \in Int |-> Wrap(s + AsInt(numbers[k]))]]
<1>1. n \in Nat /\ \A k \in 1 .. n : AsInt(numbers[k]) \in Int
  BY ListParts
<1>2. \A k \in 1 .. n, s \in Int :
        step[k][s] = Wrap(s + AsInt(numbers[k])) /\ step[k][s] \in Int
  <2> SUFFICES ASSUME NEW k \in 1 .. n, NEW s \in Int
               PROVE  step[k][s] = Wrap(s + AsInt(numbers[k])) /\ Wrap(s + AsInt(numbers[k])) \in Int
    OBVIOUS
  <2>1. Wrap(s + AsInt(numbers[k])) \in Int
    BY <1>1, WrapFits, BsonAssumption
  <2> QED BY <2>1
<1> HIDE DEF step
<1>3. PICK g \in [0 .. n -> Int] : g[0] = 0 /\ \A k \in 1 .. n : g[k] = step[k][g[k - 1]]
  <2>1. AreSteps(step, n, Int)
    BY <1>2 DEF AreSteps
  <2> HIDE DEF n
  <2>2. \E g : IsRun(g, step, n, Int, 0)
    BY <1>1, <2>1, LoopStates
  <2> QED BY <2>2 DEF IsRun
<1>4. \A k \in 1 .. n : g[k] = Wrap(g[k - 1] + AsInt(numbers[k]))
  <2> SUFFICES ASSUME NEW k \in 1 .. n PROVE g[k] = Wrap(g[k - 1] + AsInt(numbers[k]))
    OBVIOUS
  <2>1. k - 1 \in 0 .. n /\ g[k - 1] \in Int
    BY <1>1, <1>3
  <2> QED BY <1>2, <1>3, <2>1
<1>5. g = Step(g)
  <2>1. g = [k \in 0 .. n |-> g[k]]
    BY <1>3
  <2>2. \A k \in 0 .. n : g[k] = IF k = 0 THEN 0 ELSE Wrap(g[k - 1] + AsInt(numbers[k]))
    BY <1>1, <1>3, <1>4
  <2> QED BY <2>1, <2>2
<1>6. sum = Step(sum)
  <2> HIDE DEF Step
  <2>1. \E f : f = Step(f)
    BY <1>5
  <2> QED BY <2>1
<1>7. sum[0] = 0 /\ \A k \in 1 .. n : sum[k] = Wrap(sum[k - 1] + AsInt(numbers[k]))
  <2> HIDE DEF sum
  <2>1. sum[0] = 0
    BY <1>1, <1>6
  <2>2. \A k \in 1 .. n : sum[k] = Wrap(sum[k - 1] + AsInt(numbers[k]))
    BY <1>1, <1>6
  <2> QED BY <2>1, <2>2
<1>8. IntTotal(numbers) = sum[n]
  BY DEF IntTotal
<1> HIDE DEF sum, n
<1>9. sum[n] = g[n]
  <2> DEFINE P == {k \in 0 .. n : sum[k] = g[k]}
  <2>1. 0 \in P
    BY <1>1, <1>3, <1>7
  <2>2. ASSUME NEW m \in 0 .. n, m + 1 \in 0 .. n, m \in P PROVE m + 1 \in P
    <3>1. m + 1 \in 1 .. n /\ (m + 1) - 1 = m
      BY <1>1, <2>2
    <3>2. sum[m + 1] = Wrap(sum[m] + AsInt(numbers[m + 1]))
      BY <1>7, <3>1
    <3>3. g[m + 1] = Wrap(g[m] + AsInt(numbers[m + 1]))
      BY <1>4, <3>1
    <3> QED BY <2>2, <3>2, <3>3
  <2> HIDE DEF P
  <2>3. 0 .. n \subseteq P
    BY <1>1, <2>1, <2>2, HoldsUpTo
  <2>4. n \in P
    BY <1>1, <2>3
  <2> QED BY <2>4 DEF P
<1> QED BY <1>3, <1>4, <1>8, <1>9 DEF n

(* What is cut off on the way to a sum does not show in what is cut off it. *)
LEMMA WrapAdds ==
  ASSUME NEW n \in Int, NEW delta \in Int
  PROVE  Wrap(Wrap(n) + delta) = Wrap(n + delta)
<1> DEFINE m == 2 * IntBound
           a == n + IntBound
           k == a \div m
           r == a % m
           q == (r + delta) \div m
           s == (r + delta) % m
<1>1. m \in Nat \ {0} /\ IntBound \in Nat /\ a \in Int
  BY BsonAssumption
<1>2. k \in Int /\ a = m * k + r /\ r \in 0 .. m - 1
  BY <1>1, RemainderInRange
<1>3. r + delta \in Int
  BY <1>2
<1>4. q \in Int /\ r + delta = m * q + s /\ s \in 0 .. m - 1
  BY <1>1, <1>3, RemainderInRange
<1>5. Wrap(n) = r - IntBound
  BY DEF Wrap
<1>6. Wrap(n) + delta + IntBound = r + delta
  BY <1>1, <1>2, <1>5
<1>7. Wrap(Wrap(n) + delta) = s - IntBound
  BY <1>6 DEF Wrap
<1>8. Wrap(n + delta) = ((a + delta) % m) - IntBound
  <2>1. n + delta + IntBound = a + delta
    BY <1>1
  <2> QED BY <2>1 DEF Wrap
<1> HIDE DEF a, k, r, q, s
<1>9. a + delta = m * (k + q) + s
  <2>1. m * (k + q) = m * k + m * q /\ m * k \in Int /\ m * q \in Int
    BY <1>1, <1>2, <1>4
  <2> HIDE DEF m
  <2> QED BY <1>1, <1>2, <1>3, <1>4, <2>1
<1>10. k + q \in Int /\ a + delta \in Int
  BY <1>1, <1>2, <1>4
<1> HIDE DEF m
<1>11. (a + delta) % m = s
  BY <1>1, <1>4, <1>9, <1>10, OneRemainder
<1> QED BY <1>7, <1>8, <1>11

LEMMA WrapKeeps ==
  ASSUME NEW n \in -IntBound .. IntBound - 1
  PROVE  Wrap(n) = n
<1> DEFINE m == 2 * IntBound
           a == n + IntBound
<1>1. m \in Nat \ {0} /\ IntBound \in Nat /\ n \in Int /\ a \in Int /\ a \in 0 .. m - 1
  BY BsonAssumption
<1>2. a = m * 0 + a
  BY <1>1
<1>3. Wrap(n) = (a % m) - IntBound
  BY DEF Wrap
<1>4. a - IntBound = n
  BY <1>1
<1> HIDE DEF m, a
<1>5. a % m = a
  BY <1>1, <1>2, OneRemainder
<1> QED BY <1>3, <1>4, <1>5

(* $sum of whole numbers is their sum, as long as doubles count so far and   *)
(* the sum is an int64: it does not matter what does not fit on the way.     *)
LEMMA SumsAgree ==
  ASSUME NEW numbers, IsList(numbers),
         \A i \in DOMAIN numbers : IsNumeric(numbers[i]) /\ numbers[i][2] \in Int,
         HasDouble(numbers) \/ FitBoth(numbers)
  PROVE  ValueEqual(Double(DoubleTotal(numbers)), SumOf(numbers))
<1>1. CASE HasDouble(numbers)
  BY <1>1 DEF SumOf, ValueEqual, EqualNumbers, IsNumeric, Double
<1>2. CASE ~HasDouble(numbers)
  <2> DEFINE n == Len(numbers)
  <2>0. FitBoth(numbers) /\ Scale \in Nat \ {0} /\ Doubles \subseteq Int
    BY <1>2, DoublesAssumption, DoublesAreNumbers
  <2>1. n \in Nat /\ DOMAIN numbers = 1 .. n
    BY ListParts
  <2>2. \A i \in DOMAIN numbers : AsInt(numbers[i]) \in Int /\ Units(numbers[i]) = Scale * AsInt(numbers[i])
    BY <1>2 DEF HasDouble, AsInt, Units
  <2>3. \A i \in DOMAIN numbers : Units(numbers[i]) \in Int
    BY <2>0, <2>2
  <2>4. \A i \in DOMAIN numbers : AsDouble(numbers[i]) = Units(numbers[i])
    BY <1>2, <2>0 DEF FitBoth, HasDouble, AsDouble, Units, Rounded
  <2>5. PICK e \in [0 .. n -> Int] :
          /\ e[0] = 0
          /\ \A k \in 1 .. n : e[k] = e[k - 1] + Units(numbers[k])
          /\ \A k \in 0 .. n : ExactTotals(numbers)[k] = e[k]
          /\ ExactTotal(numbers) = e[n]
    BY <2>3, ExactTotalRuns
  <2>6. PICK g \in [0 .. n -> Int] :
          /\ g[0] = 0
          /\ \A k \in 1 .. n : g[k] = Rounded(g[k - 1] + AsDouble(numbers[k]))
          /\ DoubleTotal(numbers) = g[n]
    <3>1. \A i \in DOMAIN numbers : AsDouble(numbers[i]) \in Int
      BY <2>3, <2>4
    <3> QED BY <3>1, DoubleTotalRuns
  <2>7. PICK h \in [0 .. n -> Int] :
          /\ h[0] = 0
          /\ \A k \in 1 .. n : h[k] = Wrap(h[k - 1] + AsInt(numbers[k]))
          /\ IntTotal(numbers) = h[n]
    BY <2>2, IntTotalRuns
  <2>8. \A k \in 1 .. n : e[k] \in Doubles
    BY <2>0, <2>1, <2>5 DEF FitBoth
  <2> HIDE DEF n
  <2> DEFINE P == {k \in 0 .. n : g[k] = e[k] /\ \E a \in Int : e[k] = Scale * a /\ h[k] = Wrap(a)}
  <2>9. 0 \in P
    <3>1. 0 \in -IntBound .. IntBound - 1
      BY BsonAssumption
    <3>2. e[0] = Scale * 0 /\ h[0] = Wrap(0)
      BY <2>0, <2>5, <2>7, <3>1, WrapKeeps
    <3> QED BY <2>1, <2>5, <2>6, <3>2
  <2>10. ASSUME NEW m \in 0 .. n, m + 1 \in 0 .. n, m \in P PROVE m + 1 \in P
    <3>1. g[m] = e[m]
      BY <2>10
    <3>2. PICK a \in Int : e[m] = Scale * a /\ h[m] = Wrap(a)
      BY <2>10
    <3>3. m + 1 \in 1 .. n /\ (m + 1) - 1 = m
      BY <2>1, <2>10
    <3> DEFINE x == AsInt(numbers[m + 1])
    <3>4. x \in Int /\ Units(numbers[m + 1]) = Scale * x /\ AsDouble(numbers[m + 1]) = Scale * x
      BY <2>1, <2>2, <2>4, <3>3
    <3>5. /\ e[m + 1] = e[m] + Units(numbers[m + 1])
          /\ g[m + 1] = Rounded(g[m] + AsDouble(numbers[m + 1]))
          /\ h[m + 1] = Wrap(h[m] + x)
      BY <2>5, <2>6, <2>7, <3>3
    <3> HIDE DEF x
    <3>6. e[m + 1] = Scale * (a + x)
      BY <2>0, <3>2, <3>4, <3>5
    <3>7. h[m + 1] = Wrap(a + x)
      BY <3>2, <3>4, <3>5, WrapAdds
    <3>8. g[m + 1] = e[m + 1]
      <4>1. g[m + 1] = Rounded(e[m + 1])
        BY <3>1, <3>4, <3>5
      <4> QED BY <2>8, <3>3, <4>1 DEF Rounded
    <3> QED BY <2>10, <3>2, <3>4, <3>6, <3>7, <3>8
  <2> HIDE DEF P
  <2>11. 0 .. n \subseteq P
    BY <2>1, <2>9, <2>10, HoldsUpTo
  <2>12. n \in P
    BY <2>1, <2>11
  <2>13. PICK a \in Int : g[n] = e[n] /\ e[n] = Scale * a /\ h[n] = Wrap(a)
    BY <2>12 DEF P
  <2>14. a \in -IntBound .. IntBound - 1
    <3>1. IntBound \in Nat
      BY BsonAssumption
    <3>2. Scale * (-IntBound) <= Scale * a /\ Scale * a <= Scale * (IntBound - 1)
      BY <2>0, <2>5, <2>13, <3>1 DEF FitBoth
    <3> QED BY <3>1, <3>2, ScaleKeepsOrder
  <2>15. DoubleTotal(numbers) = Scale * a /\ IntTotal(numbers) = a /\ Scale * a \in Doubles
    <3>1. DoubleTotal(numbers) = Scale * a /\ IntTotal(numbers) = a
      BY <2>6, <2>7, <2>13, <2>14, WrapKeeps
    <3>2. n = 0 => Scale * a \in Doubles
      BY <2>5, <2>13, DoublesAreNumbers
    <3>3. n # 0 => Scale * a \in Doubles
      BY <2>1, <2>8, <2>13
    <3> QED BY <3>1, <3>2, <3>3
  <2>16. SumOf(numbers) = Int64(IntTotal(numbers))
    BY <1>2 DEF SumOf
  <2> QED BY <2>15, <2>16 DEF ValueEqual, EqualNumbers, IsNumeric, Double, Int64, AsDouble, Rounded
<1> QED BY <1>1, <1>2

(* A row with what $push, $sum and $avg make of the same values. *)
LEMMA RowIsSummary ==
  ASSUME ValuesClosed, NEW row, NEW pushed, IsList(pushed),
         \A i \in DOMAIN pushed : IsNumeric(pushed[i]) => pushed[i][2] \in Int,
         Find(row, "a") = Array(pushed),
         Find(row, "n") = Double(DoubleTotal(Selected(pushed, IsNumeric))),
         Find(row, "b") = Average(Selected(pushed, IsNumeric))
  PROVE  IsSummary(row)
<1> DEFINE K == {i \in DOMAIN pushed : IsNumeric(pushed[i])}
           numbers == Picked(pushed, K)
           ref == FieldRef("a")
<1>1. Selected(pushed, IsNumeric) = numbers
  BY DEF Selected
<1>2. IsList(numbers) /\ \A i \in DOMAIN numbers : IsNumeric(numbers[i]) /\ numbers[i][2] \in Int
  <2>1. K \in SUBSET (DOMAIN pushed) /\ \A i \in K : IsNumeric(pushed[i]) /\ pushed[i][2] \in Int
    OBVIOUS
  <2> HIDE DEF K
  <2>2. IsList(numbers) /\ \A k \in DOMAIN numbers : Ascending(K)[k] \in K /\ numbers[k] = pushed[Ascending(K)[k]]
    BY <2>1, PickedLists
  <2> QED BY <2>1, <2>2
<1> HIDE DEF numbers
<1>3. Find(row, "a")[2] = pushed
  BY DEF Array
<1>4. Folded(Value(row, ref)) = pushed
  <2>1. Value(row, ref) = Array(pushed)
    BY FieldsAssumption, RefFinds DEF ValuesClosed
  <2> QED BY <2>1 DEF Folded, Array, IsArray, Missing
<1> HIDE DEF ref
<1>5. Evaluate(row, S("$sum", ref)) = SumOf(numbers)
  <2>1. Evaluate(row, S("$sum", ref)) = EvaluateOperator("$sum", row, ref)
    BY CallEvaluates DEF Dollar
  <2>2. EvaluateOperator("$sum", row, ref) = SumOf(Selected(Folded(Value(row, ref)), IsNumeric))
    BY DEF EvaluateOperator
  <2> QED BY <1>1, <1>4, <2>1, <2>2
<1>6. Evaluate(row, S("$avg", ref)) = Average(numbers)
  <2>1. Evaluate(row, S("$avg", ref)) = EvaluateOperator("$avg", row, ref)
    BY CallEvaluates DEF Dollar
  <2>2. EvaluateOperator("$avg", row, ref) = Average(Selected(Folded(Value(row, ref)), IsNumeric))
    BY DEF EvaluateOperator
  <2> QED BY <1>1, <1>4, <2>1, <2>2
<1>7. HasDouble(numbers) \/ FitBoth(numbers) => ValueEqual(Double(DoubleTotal(numbers)), SumOf(numbers))
  BY <1>2, SumsAgree
<1> QED BY <1>1, <1>3, <1>5, <1>6, <1>7 DEF IsSummary, ref

LEMMA FourFields ==
  ASSUME NEW s, NEW t, NEW u, NEW v
  PROVE  LET d == << <<"_id", s>>, <<"a", t>>, <<"n", u>>, <<"b", v>> >>
         IN  /\ IsList(d) /\ DOMAIN d = 1 .. 4 /\ Names(d) = {"_id", "a", "n", "b"}
             /\ d[1] = <<"_id", s>> /\ d[2] = <<"a", t>> /\ d[3] = <<"n", u>> /\ d[4] = <<"b", v>>
             /\ Find(d, "_id") = s /\ Find(d, "a") = t /\ Find(d, "n") = u /\ Find(d, "b") = v
<1> DEFINE d == << <<"_id", s>>, <<"a", t>>, <<"n", u>>, <<"b", v>> >>
<1>1. /\ d = [i \in 1 .. 4 |-> d[i]] /\ DOMAIN d = 1 .. 4
      /\ d[1] = <<"_id", s>> /\ d[2] = <<"a", t>> /\ d[3] = <<"n", u>> /\ d[4] = <<"b", v>>
  OBVIOUS
<1>2. d[1][1] = "_id" /\ d[2][1] = "a" /\ d[3][1] = "n" /\ d[4][1] = "b"
  OBVIOUS
<1>3. d[1][2] = s /\ d[2][2] = t /\ d[3][2] = u /\ d[4][2] = v
  OBVIOUS
<1> HIDE DEF d
<1>4. IsList(d)
  BY <1>1, ListFrom
<1>5. \A i \in DOMAIN d : i = 1 \/ i = 2 \/ i = 3 \/ i = 4
  BY <1>1
<1>6. \A i, j \in DOMAIN d : d[i][1] = d[j][1] => i = j
  BY <1>2, <1>5
<1>7. Names(d) = {"_id", "a", "n", "b"}
  BY <1>1, <1>2, <1>5 DEF Names
<1>8. \A i \in DOMAIN d : Find(d, d[i][1]) = d[i][2]
  BY <1>4, <1>6, FindIfOnce DEF NamesOnce
<1>9. Find(d, "_id") = s
  BY <1>1, <1>2, <1>3, <1>8
<1>10. Find(d, "a") = t
  BY <1>1, <1>2, <1>3, <1>8
<1>11. Find(d, "n") = u
  BY <1>1, <1>2, <1>3, <1>8
<1>12. Find(d, "b") = v
  BY <1>1, <1>2, <1>3, <1>8
<1> QED BY <1>1, <1>4, <1>7, <1>9, <1>10, <1>11, <1>12 DEF d

(* The accumulator $avg over a group is the operator $avg over the array     *)
(* that $push collects; $sum is too, with a double in the group, or while     *)
(* each number and running sum is a double and the sum an int64: for every    *)
(* stream of documents (accumulate, evaluate_operator_expression).            *)
THEOREM AccumulatorsDoAgree ==
  ASSUME ValuesClosed
  PROVE  Spec => [](IsStream(docs) => AccumulatorsAgree)
<1>1. IsStream(docs) => AccumulatorsAgree
  <2> SUFFICES ASSUME IsStream(docs), docs # <<>>, NEW name \in Fields
               PROVE  LET Acc(op) == S(op, FieldRef(name))
                      IN  IsSummary(GroupStage(docs, << <<"_id", Null>>, <<"a", Acc("$push")>>,
                                                        <<"n", Acc("$sum")>>, <<"b", Acc("$avg")>> >>).docs[1])
    BY DEF AccumulatorsAgree
  <2> DEFINE call(op) == S(op, FieldRef(name))
             spec == << <<"_id", Null>>, <<"a", call("$push")>>, <<"n", call("$sum")>>, <<"b", call("$avg")>> >>
             row == GroupStage(docs, spec).docs[1]
             values == [i \in DOMAIN docs |-> Find(docs[i], name)]
             K == {i \in DOMAIN values : values[i] # Missing}
             pushed == Picked(values, K)
  <2>1. IsList(docs) /\ IsTopLevel(name)
    BY FieldsAssumption DEF IsStream
  <2> HIDE DEF call
  <2>2. /\ IsList(spec) /\ DOMAIN spec = 1 .. 4 /\ Names(spec) = {"_id", "a", "n", "b"}
        /\ spec[1] = <<"_id", Null>> /\ spec[2] = <<"a", call("$push")>>
        /\ spec[3] = <<"n", call("$sum")>> /\ spec[4] = <<"b", call("$avg")>>
    <3>1. IsList(spec) /\ DOMAIN spec = 1 .. 4 /\ Names(spec) = {"_id", "a", "n", "b"}
      BY FourFields
    <3>2. spec[1] = <<"_id", Null>> /\ spec[2] = <<"a", call("$push")>>
      BY FourFields
    <3>3. spec[3] = <<"n", call("$sum")>> /\ spec[4] = <<"b", call("$avg")>>
      BY FourFields
    <3> QED BY <3>1, <3>2, <3>3
  <2>3. Find(spec, "_id") = Null /\ Find(spec, "a") = call("$push")
    BY FourFields
  <2>4. Find(spec, "n") = call("$sum") /\ Find(spec, "b") = call("$avg")
    BY FourFields
  <2> HIDE DEF spec
  <2>5. {"$push", "$sum", "$avg"} \subseteq Accumulators
    BY DEF Accumulators
  <2>6. AreAccumulators(spec)
    <3> SUFFICES ASSUME NEW i \in DOMAIN spec, spec[i][1] # "_id"
                 PROVE  \E op \in Accumulators : \E expr : spec[i][2] = S(op, expr)
      BY DEF AreAccumulators
    <3>1. i = 2 \/ i = 3 \/ i = 4
      BY <2>2
    <3>2. spec[i][2] \in {call("$push"), call("$sum"), call("$avg")}
      BY <2>2, <3>1
    <3> QED BY <2>5, <3>2 DEF call
  <2>7. IsList(values) /\ \A i \in DOMAIN values : values[i] # Missing /\ IsNumeric(values[i]) => values[i][2] \in Int
    <3>1. Len(docs) \in Nat /\ DOMAIN docs = 1 .. Len(docs)
      BY <2>1, ListParts
    <3>2. IsList(values)
      <4>1. values = [i \in 1 .. Len(docs) |-> values[i]]
        BY <3>1
      <4> HIDE DEF values
      <4> QED BY <3>1, <4>1, ListFrom
    <3>3. ASSUME NEW i \in DOMAIN values, values[i] # Missing, IsNumeric(values[i]) PROVE values[i][2] \in Int
      <4>1. IsList(docs[i]) /\ \A j \in DOMAIN docs[i] : IsCell(docs[i][j][2])
        BY DEF IsStream
      <4>2. values[i] = Find(docs[i], name)
        OBVIOUS
      <4> HIDE DEF values
      <4>3. name \in Names(docs[i])
        BY <3>3, <4>1, <4>2, FindsFirst
      <4>4. PICK j \in DOMAIN docs[i] : values[i] = docs[i][j][2]
        BY <4>1, <4>2, <4>3, FindsFirst
      <4> QED BY <3>3, <4>1, <4>4 DEF IsCell
    <3> QED BY <3>2, <3>3
  <2>8. IsList(pushed) /\ \A i \in DOMAIN pushed : IsNumeric(pushed[i]) => pushed[i][2] \in Int
    <3>1. K \in SUBSET (DOMAIN values) /\ \A i \in K : IsNumeric(values[i]) => values[i][2] \in Int
      BY <2>7
    <3> HIDE DEF K, values
    <3>2. IsList(pushed) /\ \A k \in DOMAIN pushed : Ascending(K)[k] \in K /\ pushed[k] = values[Ascending(K)[k]]
      BY <2>7, <3>1, PickedLists
    <3> QED BY <3>1, <3>2
  <2>9. Selected(values, IsPresent) = pushed
    BY DEF Selected, IsPresent
  <2> HIDE DEF pushed, values
  <2>10. Find(row, "a") = Array(pushed)
    <3>1. "a" \in Names(spec) \ {"_id"}
      BY <2>2
    <3>2. Find(row, "a") = Accumulate("$push", values)
      BY <2>1, <2>2, <2>3, <2>5, <2>6, <3>1, OneGroup DEF values, call
    <3> QED BY <2>9, <3>2 DEF Accumulate
  <2>11. Find(row, "n") = Double(DoubleTotal(Selected(pushed, IsNumeric)))
    <3>1. "n" \in Names(spec) \ {"_id"}
      BY <2>2
    <3>2. Find(row, "n") = Accumulate("$sum", values)
      BY <2>1, <2>2, <2>3, <2>4, <2>5, <2>6, <3>1, OneGroup DEF values, call
    <3> QED BY <2>9, <3>2 DEF Accumulate
  <2>12. Find(row, "b") = Average(Selected(pushed, IsNumeric))
    <3>1. "b" \in Names(spec) \ {"_id"}
      BY <2>2
    <3>2. Find(row, "b") = Accumulate("$avg", values)
      BY <2>1, <2>2, <2>3, <2>4, <2>5, <2>6, <3>1, OneGroup DEF values, call
    <3> QED BY <2>9, <3>2 DEF Accumulate
  <2> HIDE DEF row
  <2>13. IsSummary(row)
    BY <2>8, <2>10, <2>11, <2>12, RowIsSummary
  <2> QED BY <2>13 DEF row, spec, call
<1> QED BY <1>1, PTL

-----------------------------------------------------------------------------
(* Sorting a stream.                                                        *)

(* The order of std::stable_sort is total. *)
LEMMA SortOrderIsTotal ==
  ASSUME NEW spec, IsList(spec), NEW stream, IsList(stream), \A i \in DOMAIN stream : SortableBy(spec, stream[i])
  PROVE  IsTotalOrder(SortOrder(stream, spec), DOMAIN stream)
<1> DEFINE order == SortOrder(stream, spec)
           less(i, j) == SortLess(stream[i], stream[j], spec)
<1>1. DOMAIN stream = 1 .. Len(stream) /\ Len(stream) \in Nat
  BY ListParts
<1>2. \A i, j \in DOMAIN stream : <<i, j>> \in order <=> less(i, j) \/ (i < j /\ ~less(j, i))
  BY DEF SortOrder
<1>3. ASSUME NEW i \in DOMAIN stream, NEW j \in DOMAIN stream, NEW k \in DOMAIN stream
      PROVE  /\ less(i, j) => ~less(j, i)
             /\ less(i, j) /\ less(j, k) => less(i, k)
             /\ ~less(i, j) /\ ~less(j, i) /\ ~less(j, k) /\ ~less(k, j) => ~less(i, k) /\ ~less(k, i)
  BY SortLessIsWeakOrder
<1> HIDE DEF order, less
<1>4. \A i \in DOMAIN stream : <<i, i>> \notin order
  BY <1>1, <1>2, <1>3
<1>5. ASSUME NEW i \in DOMAIN stream, NEW j \in DOMAIN stream
      PROVE  i = j \/ <<i, j>> \in order \/ <<j, i>> \in order
  <2>1. i = j \/ i < j \/ j < i
    BY <1>1
  <2>2. less(i, j) => ~less(j, i)
    BY <1>3
  <2> QED BY <1>2, <2>1, <2>2
<1>6. ASSUME NEW i \in DOMAIN stream, NEW j \in DOMAIN stream, NEW k \in DOMAIN stream,
             <<i, j>> \in order, <<j, k>> \in order
      PROVE  <<i, k>> \in order
  <2>1. ~less(j, i) /\ ~less(k, j)
    BY <1>2, <1>3, <1>6
  <2>2. ASSUME less(k, i) PROVE FALSE
    <3>1. CASE less(i, j)
      BY <1>3, <2>1, <2>2, <3>1
    <3>2. CASE less(j, k)
      BY <1>3, <2>1, <2>2, <3>2
    <3>3. CASE ~less(i, j) /\ ~less(j, k)
      BY <1>3, <2>1, <2>2, <3>3
    <3> QED BY <3>1, <3>2, <3>3
  <2>3. CASE less(i, k)
    BY <1>2, <2>3
  <2>4. CASE ~less(i, k)
    <3>1. ~less(i, j) /\ ~less(j, k)
      <4>1. ASSUME less(i, j) PROVE FALSE
        <5>1. ~less(j, k)
          BY <1>3, <2>4, <4>1
        <5>2. less(k, j) \/ less(i, k) \/ less(k, i) \/ ~less(i, j)
          BY <1>3, <2>1, <2>2, <2>4, <5>1
        <5> QED BY <2>1, <2>2, <2>4, <4>1, <5>2
      <4>2. ASSUME less(j, k) PROVE FALSE
        <5>1. ~less(i, j)
          BY <1>3, <2>4, <4>2
        <5>2. less(j, i) \/ less(i, k) \/ less(k, i) \/ ~less(j, k)
          BY <1>3, <2>1, <2>2, <2>4, <5>1
        <5> QED BY <2>1, <2>2, <2>4, <4>2, <5>2
      <4> QED BY <4>1, <4>2
    <3>2. i < j /\ j < k
      BY <1>2, <1>6, <3>1
    <3>3. i < k
      BY <1>1, <3>2
    <3> QED BY <1>2, <2>2, <3>3
  <2> QED BY <2>3, <2>4
<1> QED BY <1>4, <1>5, <1>6 DEF IsTotalOrder, order

(* $sort keeps every document, puts none behind one that it sorts after, and *)
(* leaves those that sort alike in the order they came in: for every         *)
(* specification and every stream whose values under its paths are Sortable   *)
(* (apply_sort_stage, sort_less).                                            *)
THEOREM SortIsStable ==
  ASSUME NEW spec, IsList(spec), NEW stream, IsList(stream), \A i \in DOMAIN stream : SortableBy(spec, stream[i])
  PROVE  \E order \in [DOMAIN stream -> DOMAIN stream] :
           /\ StableSort(stream, spec) = [k \in DOMAIN stream |-> stream[order[k]]]
           /\ \A i, j \in DOMAIN stream : order[i] = order[j] => i = j
           /\ \A i \in DOMAIN stream : \E k \in DOMAIN stream : order[k] = i
           /\ \A i, j \in DOMAIN stream : i < j =>
                /\ ~SortLess(stream[order[j]], stream[order[i]], spec)
                /\ SortLess(stream[order[i]], stream[order[j]], spec) \/ order[i] < order[j]
<1> DEFINE P == DOMAIN stream
           total == SortOrder(stream, spec)
           order == Arranged(P, total)
<1>1. P = 1 .. Len(stream) /\ Len(stream) \in Nat
  BY ListParts
<1>2. IsFiniteSet(P) /\ Cardinality(P) = Len(stream)
  BY FiniteListDomain
<1>3. IsTotalOrder(total, P)
  BY SortOrderIsTotal
<1>4. \A i, j \in P : <<i, j>> \in total =>
        SortLess(stream[i], stream[j], spec) \/ (i < j /\ ~SortLess(stream[j], stream[i], spec))
  BY DEF SortOrder
<1>5. ASSUME NEW i \in P, NEW j \in P, SortLess(stream[i], stream[j], spec)
      PROVE  ~SortLess(stream[j], stream[i], spec)
  BY <1>5, SortLessIsWeakOrder
<1>6. StableSort(stream, spec) = [k \in P |-> stream[order[k]]]
  BY DEF StableSort
<1> HIDE DEF P, total
<1>7. /\ DOMAIN order = 1 .. Cardinality(P)
      /\ \A i \in DOMAIN order : order[i] \in P
      /\ \A x \in P : \E i \in DOMAIN order : order[i] = x
      /\ \A i, j \in DOMAIN order : i < j => <<order[i], order[j]>> \in total
  BY <1>2, <1>3, ArrangedLists
<1>8. DOMAIN order = P /\ order = [i \in P |-> order[i]]
  BY <1>1, <1>2, <1>7 DEF Arranged
<1> HIDE DEF order
<1>9. order \in [P -> P]
  BY <1>7, <1>8
<1>10. \A i, j \in P : i < j =>
         /\ ~SortLess(stream[order[j]], stream[order[i]], spec)
         /\ SortLess(stream[order[i]], stream[order[j]], spec) \/ order[i] < order[j]
  <2> SUFFICES ASSUME NEW i \in P, NEW j \in P, i < j
               PROVE  /\ ~SortLess(stream[order[j]], stream[order[i]], spec)
                      /\ SortLess(stream[order[i]], stream[order[j]], spec) \/ order[i] < order[j]
    OBVIOUS
  <2>1. order[i] \in P /\ order[j] \in P /\ <<order[i], order[j]>> \in total
    BY <1>7, <1>8
  <2>2. \/ SortLess(stream[order[i]], stream[order[j]], spec)
        \/ order[i] < order[j] /\ ~SortLess(stream[order[j]], stream[order[i]], spec)
    BY <1>4, <2>1
  <2> QED BY <1>5, <2>1, <2>2
<1>11. \A i, j \in P : order[i] = order[j] => i = j
  <2> SUFFICES ASSUME NEW i \in P, NEW j \in P, order[i] = order[j], i < j PROVE FALSE
    BY <1>1
  <2>1. <<order[i], order[i]>> \in total
    BY <1>7, <1>8
  <2> QED BY <1>3, <1>9, <2>1 DEF IsTotalOrder
<1> QED BY <1>6, <1>7, <1>8, <1>9, <1>10, <1>11 DEF P

-----------------------------------------------------------------------------
(* Groups.                                                                  *)

(* A list of lists in one has what they have. *)
LEMMA FlattenCounts ==
  ASSUME NEW ss, IsList(ss), \A i \in DOMAIN ss : IsList(ss[i]), NEW x
  PROVE  \E g : /\ g[0] = 0
                /\ \A k \in 1 .. Len(ss) : g[k] = g[k - 1] + Count(ss[k], x)
                /\ Count(FlattenSeq(ss), x) = g[Len(ss)]
<1> DEFINE n == Len(ss)
           U == UNION {{ss[i][j] : j \in DOMAIN ss[i]} : i \in DOMAIN ss}
           Lists == Seq(U)
           step == [k \in 1 .. n |-> [s \in Lists |-> s \o ss[k]]]
           Step(f) == [i \in 1 .. n |-> IF i = 1 THEN ss[i] ELSE f[i - 1] \o ss[i]]
           flatten == CHOOSE f : f = Step(f)
           g == [k \in 0 .. n |-> IF k = 0 THEN 0 ELSE Count(flatten[k], x)]
<1>1. n \in Nat /\ DOMAIN ss = 1 .. n
  BY ListParts
<1>2. \A k \in 1 .. n : ss[k] \in Lists
  <2> SUFFICES ASSUME NEW k \in 1 .. n PROVE ss[k] \in Seq(U)
    OBVIOUS
  <2>1. IsList(ss[k]) /\ k \in DOMAIN ss
    BY <1>1
  <2>2. Len(ss[k]) \in Nat /\ DOMAIN ss[k] = 1 .. Len(ss[k]) /\ ss[k] = [j \in 1 .. Len(ss[k]) |-> ss[k][j]]
    BY <2>1, ListParts
  <2>3. \A j \in DOMAIN ss[k] : ss[k][j] \in U
    BY <2>1
  <2> HIDE DEF U
  <2>4. ss[k] \in [1 .. Len(ss[k]) -> U]
    BY <2>2, <2>3
  <2> QED BY <2>2, <2>4
<1>3. AreSteps(step, n, Lists) /\ <<>> \in Lists
  <2>1. \A k \in 1 .. n, s \in Lists : s \o ss[k] \in Lists
    BY <1>2
  <2> HIDE DEF Lists
  <2>2. \A k \in 1 .. n, s \in Lists : step[k][s] = s \o ss[k]
    OBVIOUS
  <2>3. <<>> \in Lists
    BY DEF Lists
  <2> QED BY <2>1, <2>2, <2>3 DEF AreSteps
<1>4. PICK run : IsRun(run, step, n, Lists, <<>>)
  <2> HIDE DEF step, Lists, n
  <2> QED BY <1>1, <1>3, LoopStates
<1>5. run[0] = <<>> /\ \A k \in 1 .. n : run[k] \in Lists /\ run[k] = run[k - 1] \o ss[k]
  <2>1. run \in [0 .. n -> Lists] /\ run[0] = <<>> /\ \A k \in 1 .. n : run[k] = step[k][run[k - 1]]
    BY <1>4 DEF IsRun
  <2> HIDE DEF Lists
  <2>2. ASSUME NEW k \in 1 .. n PROVE run[k] \in Lists /\ run[k] = run[k - 1] \o ss[k]
    <3>1. k \in 0 .. n /\ k - 1 \in 0 .. n
      BY <1>1
    <3>2. run[k - 1] \in Lists
      BY <2>1, <3>1
    <3> QED BY <2>1, <3>1, <3>2
  <2> QED BY <2>1, <2>2
<1> HIDE DEF step
<1>6. \E f : f = Step(f)
  <2> DEFINE f == [i \in 1 .. n |-> run[i]]
  <2>1. ASSUME NEW i \in 1 .. n PROVE f[i] = IF i = 1 THEN ss[i] ELSE f[i - 1] \o ss[i]
    <3>1. CASE i = 1
      <4>0. 1 \in 1 .. n
        BY <3>1
      <4>1. run[1] = <<>> \o ss[1]
        <5>1. run[1] = run[1 - 1] \o ss[1]
          BY <1>5, <4>0
        <5>2. 1 - 1 = 0
          OBVIOUS
        <5> HIDE DEF Lists
        <5> QED BY <1>5, <5>1, <5>2
      <4>2. <<>> \o ss[1] = ss[1]
        BY <1>2, <3>1
      <4> QED BY <3>1, <4>1, <4>2
    <3>2. CASE i # 1
      <4>1. i - 1 \in 1 .. n
        BY <1>1, <3>2
      <4> QED BY <1>5, <3>2, <4>1
    <3> QED BY <3>1, <3>2
  <2>2. f = [i \in 1 .. n |-> f[i]]
    OBVIOUS
  <2> HIDE DEF f
  <2>3. f = Step(f)
    BY <2>1, <2>2
  <2> QED BY <2>3
<1>7. flatten = Step(flatten)
  <2> HIDE DEF Step
  <2> QED BY <1>6
<1> HIDE DEF flatten
<1>8. \A i \in 1 .. n : flatten[i] = IF i = 1 THEN ss[i] ELSE flatten[i - 1] \o ss[i]
  BY <1>7
<1>9. \A i \in 1 .. n : flatten[i] \in Lists
  <2> DEFINE P == {m \in 0 .. n : m = 0 \/ flatten[m] \in Lists}
  <2>1. 0 \in P
    BY <1>1
  <2>2. ASSUME NEW m \in 0 .. n, m + 1 \in 0 .. n, m \in P PROVE m + 1 \in P
    <3>1. m + 1 \in 1 .. n /\ (m + 1) - 1 = m
      BY <1>1, <2>2
    <3>2. CASE m = 0
      <4>1. m + 1 = 1 /\ 1 \in 1 .. n
        BY <3>1, <3>2
      <4>2. flatten[1] = ss[1] /\ ss[1] \in Lists
        BY <1>2, <1>8, <4>1
      <4> HIDE DEF Lists
      <4>3. flatten[m + 1] \in Lists
        BY <4>1, <4>2
      <4> QED BY <2>2, <4>3
    <3>3. CASE m # 0
      <4>1. flatten[m + 1] = flatten[m] \o ss[m + 1]
        <5>1. m + 1 # 1 /\ flatten[m + 1] = IF m + 1 = 1 THEN ss[m + 1] ELSE flatten[(m + 1) - 1] \o ss[m + 1]
          BY <1>8, <3>1, <3>3
        <5> QED BY <3>1, <5>1
      <4>2. flatten[m] \in Lists /\ ss[m + 1] \in Lists
        BY <1>2, <2>2, <3>1, <3>3
      <4>3. flatten[m] \o ss[m + 1] \in Lists
        BY <4>2
      <4> QED BY <2>2, <4>1, <4>3
    <3> QED BY <3>2, <3>3
  <2> HIDE DEF P, Lists
  <2>3. 0 .. n \subseteq P
    BY <1>1, <2>1, <2>2, HoldsUpTo
  <2> QED BY <1>1, <2>3 DEF P
<1>10. \A i \in 1 .. n : IsList(flatten[i]) /\ IsList(ss[i])
  BY <1>1, <1>9, ListOf
<1> HIDE DEF Lists
<1>11. g[0] = 0 /\ \A k \in 1 .. n : g[k] = Count(flatten[k], x)
  BY <1>1
<1>12. ASSUME NEW k \in 1 .. n PROVE g[k] = g[k - 1] + Count(ss[k], x)
  <2>0. Count(ss[k], x) \in Nat
    BY <1>10, CountIsNumber
  <2>1. CASE k = 1
    <3>1. g[1] = Count(ss[1], x) /\ 1 - 1 = 0
      BY <1>8, <1>11, <2>1
    <3> HIDE DEF g
    <3> QED BY <1>11, <2>0, <2>1, <3>1
  <2>2. CASE k # 1
    <3>1. k - 1 \in 1 .. n
      BY <1>1, <2>2
    <3>2. flatten[k] = flatten[k - 1] \o ss[k]
      BY <1>8, <2>2
    <3>3. Count(flatten[k - 1] \o ss[k], x) = Count(flatten[k - 1], x) + Count(ss[k], x)
      BY <1>10, <3>1, CountConcat
    <3> HIDE DEF g
    <3> QED BY <1>11, <3>1, <3>2, <3>3
  <2> QED BY <2>1, <2>2
<1>13. Count(FlattenSeq(ss), x) = g[n]
  <2>1. CASE n = 0
    <3>1. FlattenSeq(ss) = ss
      BY <2>1 DEF FlattenSeq
    <3>2. At(ss, x) = {}
      BY <1>1, <2>1 DEF At
    <3> QED BY <1>11, <2>1, <3>1, <3>2, FS_EmptySet DEF Count
  <2>2. CASE n # 0
    <3>1. FlattenSeq(ss) = flatten[n]
      BY <2>2 DEF FlattenSeq, flatten
    <3>2. n \in 1 .. n
      BY <1>1, <2>2
    <3> QED BY <1>11, <3>1, <3>2
  <2> QED BY <2>1, <2>2
<1> HIDE DEF g
<1> QED BY <1>11, <1>12, <1>13

(* What is first seen: every value, once. *)
LEMMA FirstSeenLists ==
  ASSUME NEW values, IsList(values)
  PROVE  LET seen == FirstSeen(values)
         IN  /\ IsList(seen)
             /\ \A k, l \in DOMAIN seen : seen[k] = seen[l] => k = l
             /\ \A k \in DOMAIN seen : \E i \in DOMAIN values : seen[k] = values[i]
             /\ \A i \in DOMAIN values : \E k \in DOMAIN seen : seen[k] = values[i]
<1> DEFINE K == {i \in DOMAIN values : \A j \in 1 .. i - 1 : values[j] # values[i]}
           seen == Picked(values, K)
           a == Ascending(K)
<1>1. DOMAIN values = 1 .. Len(values) /\ Len(values) \in Nat
  BY ListParts
<1>2. /\ IsList(seen)
      /\ \A k \in DOMAIN seen : a[k] \in K /\ seen[k] = values[a[k]]
      /\ \A i \in K : \E k \in DOMAIN seen : a[k] = i
      /\ \A k, l \in DOMAIN seen : k < l => a[k] < a[l]
  <2>1. K \in SUBSET (DOMAIN values)
    OBVIOUS
  <2> HIDE DEF K
  <2> QED BY <2>1, PickedLists
<1>3. FirstSeen(values) = seen
  BY DEF FirstSeen
<1> HIDE DEF seen, a
<1>4. DOMAIN seen \subseteq Nat
  BY <1>2, ListParts
<1>5. \A i, j \in K : values[i] = values[j] => i = j
  <2> SUFFICES ASSUME NEW i \in K, NEW j \in K, values[i] = values[j], i < j PROVE FALSE
    BY <1>1
  <2>1. i \in 1 .. j - 1
    BY <1>1
  <2> QED BY <2>1
<1>6. \A i \in DOMAIN values : \E j \in K : values[j] = values[i]
  <2> SUFFICES ASSUME NEW i \in DOMAIN values PROVE \E j \in K : values[j] = values[i]
    OBVIOUS
  <2> DEFINE T == At(values, values[i])
  <2>1. T \subseteq Nat /\ i \in T
    BY <1>1 DEF At
  <2> HIDE DEF T
  <2>2. PICK j \in T : \A k \in T : j <= k
    BY <2>1, LeastNumber
  <2>3. j \in DOMAIN values /\ values[j] = values[i]
    BY DEF T, At
  <2>4. \A k \in 1 .. j - 1 : values[k] # values[j]
    <3> SUFFICES ASSUME NEW k \in 1 .. j - 1, values[k] = values[j] PROVE FALSE
      OBVIOUS
    <3>1. k \in DOMAIN values /\ k < j
      BY <1>1, <2>3
    <3>2. k \in T
      BY <2>3, <3>1 DEF T, At
    <3> QED BY <1>1, <2>2, <2>3, <3>1, <3>2
  <2> QED BY <2>3, <2>4
<1> HIDE DEF K
<1>7. \A k, l \in DOMAIN seen : seen[k] = seen[l] => k = l
  <2> SUFFICES ASSUME NEW k \in DOMAIN seen, NEW l \in DOMAIN seen, seen[k] = seen[l], k < l PROVE FALSE
    BY <1>4
  <2>1. a[k] = a[l] /\ a[k] < a[l] /\ a[k] \in K
    BY <1>2, <1>5
  <2>2. a[k] \in Nat
    BY <1>1, <2>1 DEF K
  <2> QED BY <2>1, <2>2
<1>8. \A k \in DOMAIN seen : \E i \in DOMAIN values : seen[k] = values[i]
  BY <1>2 DEF K
<1>9. \A i \in DOMAIN values : \E k \in DOMAIN seen : seen[k] = values[i]
  <2> SUFFICES ASSUME NEW i \in DOMAIN values PROVE \E k \in DOMAIN seen : seen[k] = values[i]
    OBVIOUS
  <2>1. PICK j \in K : values[j] = values[i]
    BY <1>6
  <2> QED BY <1>2, <2>1
<1> QED BY <1>2, <1>3, <1>7, <1>8, <1>9

(* $sum of the constant 1 counts, as far as a double can. *)
LEMMA OnesCount ==
  ASSUME NEW n \in 0 .. Significand
  PROVE  LET ones == [i \in 1 .. n |-> Int32(1)]
         IN  Accumulate("$sum", ones) = Double(Scale * n)
<1> DEFINE ones == [i \in 1 .. n |-> Int32(1)]
<1>0. n \in Nat /\ Scale \in Nat \ {0}
  BY DoublesAssumption
<1>1. IsList(ones) /\ Len(ones) = n /\ DOMAIN ones = 1 .. n
  <2>1. ones = [i \in 1 .. n |-> ones[i]]
    OBVIOUS
  <2> HIDE DEF ones
  <2> QED BY <1>0, <2>1, ListFrom
<1>2. \A i \in DOMAIN ones : IsPresent(ones[i]) /\ IsNumeric(ones[i]) /\ AsDouble(ones[i]) = Scale
  <2> SUFFICES ASSUME NEW i \in DOMAIN ones PROVE IsPresent(ones[i]) /\ IsNumeric(ones[i]) /\ AsDouble(ones[i]) = Scale
    OBVIOUS
  <2>1. ones[i] = Int32(1) /\ 1 \in -Significand .. Significand
    BY DoublesAssumption
  <2>2. Scale * 1 \in Doubles /\ Scale * 1 = Scale
    BY <1>0, <2>1, WholeIsDouble
  <2>3. Int32(1)[1] = "int32" /\ Int32(1)[2] = 1 /\ Int32(1) # Missing
    BY DEF Int32, Missing
  <2> HIDE DEF ones
  <2> QED BY <2>1, <2>2, <2>3 DEF IsPresent, IsNumeric, AsDouble, Rounded
<1> HIDE DEF ones
<1>3. Selected(ones, IsPresent) = ones
  <2>1. {i \in DOMAIN ones : IsPresent(ones[i])} = DOMAIN ones
    BY <1>2
  <2> QED BY <1>1, <2>1, PickedAll DEF Selected
<1>4. Selected(ones, IsNumeric) = ones
  <2>1. {i \in DOMAIN ones : IsNumeric(ones[i])} = DOMAIN ones
    BY <1>2
  <2> QED BY <1>1, <2>1, PickedAll DEF Selected
<1>5. DoubleTotal(ones) = Scale * n
  <2>1. \A i \in DOMAIN ones : AsDouble(ones[i]) \in Int
    BY <1>0, <1>2
  <2>2. PICK g \in [0 .. n -> Int] :
          g[0] = 0 /\ (\A k \in 1 .. n : g[k] = Rounded(g[k - 1] + AsDouble(ones[k]))) /\ DoubleTotal(ones) = g[n]
    BY <1>1, <2>1, DoubleTotalRuns
  <2> DEFINE P == {m \in 0 .. n : g[m] = Scale * m}
  <2>3. 0 \in P
    BY <1>0, <2>2
  <2>4. ASSUME NEW m \in 0 .. n, m + 1 \in 0 .. n, m \in P PROVE m + 1 \in P
    <3>1. m + 1 \in 1 .. n /\ (m + 1) - 1 = m /\ m + 1 \in -Significand .. Significand
      BY <1>0, <2>4, DoublesAssumption
    <3>2. g[m + 1] = Rounded(g[m] + Scale)
      BY <1>1, <1>2, <2>2, <3>1
    <3>3. g[m] + Scale = Scale * (m + 1)
      BY <1>0, <2>4, <3>1
    <3>4. Scale * (m + 1) \in Doubles
      BY <3>1, WholeIsDouble
    <3> QED BY <2>4, <3>2, <3>3, <3>4 DEF Rounded
  <2> HIDE DEF P
  <2>5. 0 .. n \subseteq P
    BY <1>0, <2>3, <2>4, HoldsUpTo
  <2>6. n \in P
    BY <1>0, <2>5
  <2> QED BY <2>2, <2>6 DEF P
<1>6. Accumulate("$sum", ones) = Double(DoubleTotal(ones))
  BY <1>3, <1>4 DEF Accumulate
<1> QED BY <1>5, <1>6 DEF ones


LEMMA ThreeFields ==
  ASSUME NEW s, NEW t, NEW u
  PROVE  LET d == << <<"_id", s>>, <<"n", t>>, <<"a", u>> >>
         IN  /\ IsList(d) /\ DOMAIN d = 1 .. 3 /\ Names(d) = {"_id", "n", "a"}
             /\ d[1] = <<"_id", s>> /\ d[2] = <<"n", t>> /\ d[3] = <<"a", u>>
             /\ Find(d, "_id") = s /\ Find(d, "n") = t /\ Find(d, "a") = u
<1> DEFINE d == << <<"_id", s>>, <<"n", t>>, <<"a", u>> >>
<1>1. /\ d = [i \in 1 .. 3 |-> d[i]] /\ DOMAIN d = 1 .. 3
      /\ d[1] = <<"_id", s>> /\ d[2] = <<"n", t>> /\ d[3] = <<"a", u>>
  OBVIOUS
<1>2. d[1][1] = "_id" /\ d[2][1] = "n" /\ d[3][1] = "a"
  OBVIOUS
<1>3. d[1][2] = s /\ d[2][2] = t /\ d[3][2] = u
  OBVIOUS
<1> HIDE DEF d
<1>4. IsList(d)
  BY <1>1, ListFrom
<1>5. \A i \in DOMAIN d : i = 1 \/ i = 2 \/ i = 3
  BY <1>1
<1>6. \A i, j \in DOMAIN d : d[i][1] = d[j][1] => i = j
  BY <1>2, <1>5
<1>7. Names(d) = {"_id", "n", "a"}
  BY <1>1, <1>2, <1>5 DEF Names
<1>8. \A i \in DOMAIN d : Find(d, d[i][1]) = d[i][2]
  BY <1>4, <1>6, FindIfOnce DEF NamesOnce
<1>9. Find(d, "_id") = s
  BY <1>1, <1>2, <1>3, <1>8
<1>10. Find(d, "n") = t
  BY <1>1, <1>2, <1>3, <1>8
<1>11. Find(d, "a") = u
  BY <1>1, <1>2, <1>3, <1>8
<1> QED BY <1>1, <1>4, <1>7, <1>9, <1>10, <1>11 DEF d

(* The groups of a stream by a field: the key of each document, and what is *)
(* pushed for a key.                                                         *)
KeysOf(stream, name) == [i \in DOMAIN stream |-> OrNull(Find(stream[i], name))]

Pushed(stream, name, key) ==
  Selected(Picked(Values(stream, name), At(KeysOf(stream, name), key)), IsPresent)

GroupSpec(name) ==
  << <<"_id", FieldRef(name)>>, <<"n", S("$sum", Int32(1))>>, <<"a", S("$push", FieldRef(name))>> >>

LEMMA KeyIsValue ==
  ASSUME NEW name, IsTopLevel(name), NEW doc
  PROVE  GroupKey(doc, FieldRef(name)) = OrNull(Find(doc, name))
<1>1. IsText(FieldRef(name)) /\ FieldRef(name)[2][1] = 1
  BY DEF IsText, FieldRef
<1>2. ~IsConstantKey(FieldRef(name))
  BY <1>1 DEF IsConstantKey
<1> QED BY <1>2, RefFinds DEF GroupKey

LEMMA KeysAreList ==
  ASSUME NEW stream, IsList(stream), NEW name
  PROVE  /\ IsList(KeysOf(stream, name)) /\ DOMAIN KeysOf(stream, name) = DOMAIN stream
         /\ IsList(Values(stream, name)) /\ DOMAIN Values(stream, name) = DOMAIN stream
         /\ \A i \in DOMAIN stream : KeysOf(stream, name)[i] = OrNull(Values(stream, name)[i])
<1> DEFINE keys == KeysOf(stream, name)
           values == Values(stream, name)
<1>1. Len(stream) \in Nat /\ DOMAIN stream = 1 .. Len(stream)
  BY ListParts
<1>2. keys = [i \in 1 .. Len(stream) |-> keys[i]] /\ DOMAIN keys = DOMAIN stream
  BY <1>1 DEF KeysOf
<1>3. values = [i \in 1 .. Len(stream) |-> values[i]] /\ DOMAIN values = DOMAIN stream
  BY <1>1 DEF Values
<1>4. \A i \in DOMAIN stream : keys[i] = OrNull(values[i])
  BY DEF KeysOf, Values
<1> HIDE DEF keys, values
<1>5. IsList(keys) /\ IsList(values)
  BY <1>1, <1>2, <1>3, ListFrom
<1> QED BY <1>2, <1>3, <1>4, <1>5 DEF keys, values

(* As many documents as a double can count make keys that it can count. *)
LEMMA CountsAreSmall ==
  ASSUME NEW stream, IsList(stream), Len(stream) <= Significand, NEW name, NEW key
  PROVE  Count(KeysOf(stream, name), key) \in 0 .. Significand
<1> DEFINE keys == KeysOf(stream, name)
<1>1. IsList(keys) /\ DOMAIN keys = DOMAIN stream
  BY KeysAreList
<1> HIDE DEF keys
<1>2. Len(stream) \in Nat /\ IsFiniteSet(DOMAIN keys) /\ Cardinality(DOMAIN keys) = Len(stream)
  BY <1>1, ListParts, FiniteListDomain
<1>3. At(keys, key) \subseteq DOMAIN keys
  BY DEF At
<1>4. Cardinality(At(keys, key)) <= Len(stream)
  BY <1>2, <1>3, FS_Subset
<1>5. Count(keys, key) \in Nat
  BY <1>1, CountIsNumber
<1> QED BY <1>2, <1>4, <1>5, DoublesAssumption DEF Count, keys

LEMMA GroupedRows ==
  ASSUME NEW stream, IsList(stream), Len(stream) <= Significand, NEW name, IsTopLevel(name)
  PROVE  LET keys == KeysOf(stream, name)
             seen == FirstSeen(keys)
             rows == GroupStage(stream, GroupSpec(name)).docs
         IN  /\ DOMAIN rows = DOMAIN seen
             /\ \A k \in DOMAIN seen :
                  /\ Find(rows[k], "_id") = seen[k]
                  /\ Find(rows[k], "n") = Double(Scale * Count(keys, seen[k]))
                  /\ Find(rows[k], "a") = Array(Pushed(stream, name, seen[k]))
<1> DEFINE keys == KeysOf(stream, name)
           seen == FirstSeen(keys)
           ref == FieldRef(name)
           spec == GroupSpec(name)
           fields == Without(spec, {"_id"})
           rows == GroupStage(stream, spec).docs
           sum == S("$sum", Int32(1))
           push == S("$push", ref)
<1>1. ref # Missing
  BY DEF FieldRef, Missing
<1> HIDE DEF ref, sum, push
<1>2. /\ IsList(spec) /\ DOMAIN spec = 1 .. 3 /\ Names(spec) = {"_id", "n", "a"}
      /\ spec[1] = <<"_id", ref>> /\ spec[2] = <<"n", sum>> /\ spec[3] = <<"a", push>>
      /\ Find(spec, "_id") = ref /\ Find(spec, "n") = sum /\ Find(spec, "a") = push
  <2> DEFINE d == << <<"_id", ref>>, <<"n", sum>>, <<"a", push>> >>
  <2>1. spec = d
    BY DEF GroupSpec, ref, sum, push
  <2>2. IsList(d) /\ DOMAIN d = 1 .. 3 /\ Names(d) = {"_id", "n", "a"}
    BY ThreeFields
  <2>3. d[1] = <<"_id", ref>> /\ d[2] = <<"n", sum>> /\ d[3] = <<"a", push>>
    BY ThreeFields
  <2>4. Find(d, "_id") = ref /\ Find(d, "n") = sum /\ Find(d, "a") = push
    BY ThreeFields
  <2> HIDE DEF d, spec
  <2> QED BY <2>1, <2>2, <2>3, <2>4
<1> HIDE DEF spec
<1>3. AreAccumulators(spec)
  <2> SUFFICES ASSUME NEW i \in DOMAIN spec, spec[i][1] # "_id"
               PROVE  \E op \in Accumulators : \E expr : spec[i][2] = S(op, expr)
    BY DEF AreAccumulators
  <2>1. i = 2 \/ i = 3
    BY <1>2
  <2>2. spec[i][2] = sum \/ spec[i][2] = push
    BY <1>2, <2>1
  <2>3. "$sum" \in Accumulators /\ "$push" \in Accumulators
    BY DEF Accumulators
  <2> QED BY <2>2, <2>3 DEF sum, push
<1>4. \A doc : GroupKey(doc, ref) = OrNull(Find(doc, name))
  BY KeyIsValue DEF ref
<1>5. rows = GroupRows(stream, ref, fields, seen)
  <2>1. [i \in DOMAIN stream |-> GroupKey(stream[i], ref)] = keys
    BY <1>4 DEF KeysOf
  <2> QED BY <1>1, <1>2, <1>3, <2>1, StageGroups
<1>6. IsList(keys) /\ DOMAIN keys = DOMAIN stream
  BY KeysAreList
<1>7. \A i \in DOMAIN stream : keys[i] = OrNull(Find(stream[i], name))
  BY DEF KeysOf
<1> HIDE DEF keys, seen, rows, fields
<1>8. DOMAIN rows = DOMAIN seen
  BY <1>5 DEF GroupRows
<1>9. ASSUME NEW k \in DOMAIN seen
      PROVE  /\ Find(rows[k], "_id") = seen[k]
             /\ Find(rows[k], "n") = Double(Scale * Count(keys, seen[k]))
             /\ Find(rows[k], "a") = Array(Pushed(stream, name, seen[k]))
  <2> DEFINE I == At(keys, seen[k])
             group == Picked(stream, I)
             values == Values(stream, name)
  <2>1. I \in SUBSET (DOMAIN stream)
    BY <1>6 DEF At
  <2>2. GroupOf(stream, ref, seen[k]) = group
    <3>1. {i \in DOMAIN stream : GroupKey(stream[i], ref) = seen[k]} = I
      BY <1>4, <1>6, <1>7 DEF At
    <3> QED BY <3>1 DEF GroupOf, Selected
  <2>3. rows[k] = GroupRow(seen[k], group, fields)
    BY <1>5, <2>2 DEF GroupRows
  <2>4. DOMAIN group = DOMAIN Ascending(I) /\ DOMAIN Picked(values, I) = DOMAIN Ascending(I)
    BY DEF Picked
  <2>5. \A j \in DOMAIN group : group[j] = stream[Ascending(I)[j]] /\ Ascending(I)[j] \in DOMAIN stream
    <3> HIDE DEF I
    <3>1. \A j \in DOMAIN group : Ascending(I)[j] \in I /\ group[j] = stream[Ascending(I)[j]]
      BY <2>1, PickedLists
    <3> QED BY <2>1, <3>1
  <2>6. IsList(group) /\ Len(group) = Count(keys, seen[k])
    <3>1. IsList(group) /\ Len(group) = Cardinality(I)
      <4> HIDE DEF I
      <4> QED BY <2>1, PickedLists, PickedLength
    <3> QED BY <3>1 DEF Count
  <2>7. [j \in DOMAIN group |-> Find(group[j], name)] = Picked(values, I)
    <3> HIDE DEF I, group
    <3>1. \A j \in DOMAIN group : Find(group[j], name) = values[Ascending(I)[j]]
      BY <2>5 DEF Values
    <3> QED BY <2>4, <3>1 DEF Picked
  <2> HIDE DEF I, group
  <2>8. Find(rows[k], "_id") = seen[k]
    <3>1. IsList(spec) /\ "n" \in Names(spec) \ {"_id"} /\ Find(spec, "n") = S("$sum", Int32(1))
      BY <1>2 DEF sum
    <3>2. Find(GroupRow(seen[k], group, Without(spec, {"_id"})), "_id") = seen[k]
      BY <1>3, <3>1, RowFinds
    <3> QED BY <2>3, <3>2 DEF fields
  <2>9. Find(rows[k], "n") = Double(Scale * Count(keys, seen[k]))
    <3>1. "n" \in Names(spec) \ {"_id"} /\ Find(spec, "n") = S("$sum", Int32(1))
      BY <1>2 DEF sum
    <3>2. Find(rows[k], "n") = Accumulate("$sum", Evaluated(group, Int32(1)))
      BY <1>2, <1>3, <2>3, <3>1, RowFinds DEF fields
    <3>3. DOMAIN group = 1 .. Count(keys, seen[k]) /\ Count(keys, seen[k]) \in Nat
      BY <2>6, ListParts
    <3>4. \A d : Evaluate(d, Int32(1)) = Int32(1)
      BY ConstantEvaluates DEF Int32
    <3>5. Evaluated(group, Int32(1)) = [j \in 1 .. Count(keys, seen[k]) |-> Int32(1)]
      BY <3>3, <3>4 DEF Evaluated
    <3>6. Count(keys, seen[k]) \in 0 .. Significand
      BY CountsAreSmall DEF keys
    <3> QED BY <3>2, <3>5, <3>6, OnesCount
  <2>10. Find(rows[k], "a") = Array(Pushed(stream, name, seen[k]))
    <3>1. "a" \in Names(spec) \ {"_id"} /\ Find(spec, "a") = S("$push", ref)
      BY <1>2 DEF push
    <3>2. Find(rows[k], "a") = Accumulate("$push", Evaluated(group, ref))
      BY <1>2, <1>3, <2>3, <3>1, RowFinds DEF fields
    <3>3. Evaluated(group, ref) = Picked(values, I)
      BY <2>7, RefFinds DEF Evaluated, ref
    <3>4. Pushed(stream, name, seen[k]) = Selected(Picked(values, I), IsPresent)
      BY DEF Pushed, I, keys
    <3>5. Accumulate("$push", Picked(values, I)) = Array(Selected(Picked(values, I), IsPresent))
      BY DEF Accumulate
    <3> QED BY <3>2, <3>3, <3>4, <3>5
  <2> QED BY <2>8, <2>9, <2>10
<1> QED BY <1>8, <1>9 DEF rows, seen, keys, spec


(* A group pushes the values that are its key, each of them. *)
LEMMA PushedCount ==
  ASSUME NEW stream, IsList(stream), NEW name, NEW key, NEW x
  PROVE  LET pushed == Pushed(stream, name, key)
         IN  /\ IsList(pushed)
             /\ \A j \in DOMAIN pushed : pushed[j] = key
             /\ Count(pushed, x) = IF x # Missing /\ x = key THEN Count(Values(stream, name), x) ELSE 0
<1> DEFINE keys == KeysOf(stream, name)
           values == Values(stream, name)
           I == At(keys, key)
           mine == Picked(values, I)
           K == {i \in DOMAIN mine : IsPresent(mine[i])}
           pushed == Picked(mine, K)
<1>1. /\ IsList(keys) /\ DOMAIN keys = DOMAIN stream /\ IsList(values) /\ DOMAIN values = DOMAIN stream
      /\ \A i \in DOMAIN stream : keys[i] = OrNull(values[i])
  BY KeysAreList
<1> HIDE DEF keys, values
<1>2. I \in SUBSET (DOMAIN values) /\ \A i \in I : OrNull(values[i]) = key
  BY <1>1 DEF At
<1>3. \A i \in I : values[i] # Missing => values[i] = key
  BY <1>2 DEF OrNull
<1>4. {i \in I : values[i] = x} = IF x = key THEN At(values, x) \cap I ELSE {i \in I : values[i] = x}
  BY <1>2 DEF At
<1>5. x # Missing /\ x = key => {i \in I : values[i] = x} = At(values, x)
  <2> SUFFICES ASSUME x # Missing, x = key PROVE {i \in I : values[i] = x} = At(values, x)
    OBVIOUS
  <2>1. \A i \in DOMAIN values : values[i] = x => keys[i] = key
    BY <1>1 DEF OrNull
  <2> QED BY <1>1, <1>2, <2>1 DEF At
<1>6. x # Missing /\ x # key => {i \in I : values[i] = x} = {}
  BY <1>3
<1> HIDE DEF I
<1>7. IsList(mine) /\ \A k \in DOMAIN mine : Ascending(I)[k] \in I /\ mine[k] = values[Ascending(I)[k]]
  BY <1>1, <1>2, PickedLists
<1>8. Count(mine, x) = Cardinality({i \in I : values[i] = x})
  BY <1>1, <1>2, CountPicked
<1>9. \A k \in DOMAIN mine : mine[k] # Missing => mine[k] = key
  BY <1>3, <1>7
<1> HIDE DEF mine
<1>10. K \in SUBSET (DOMAIN mine) /\ \A k \in K : mine[k] = key /\ mine[k] # Missing
  BY <1>9 DEF IsPresent
<1>11. x # Missing => {i \in K : mine[i] = x} = At(mine, x)
  BY DEF At, IsPresent
<1>12. x = Missing => {i \in K : mine[i] = x} = {}
  BY <1>10
<1> HIDE DEF K
<1>13. IsList(pushed) /\ \A j \in DOMAIN pushed : pushed[j] = key
  <2>1. IsList(pushed) /\ \A k \in DOMAIN pushed : Ascending(K)[k] \in K /\ pushed[k] = mine[Ascending(K)[k]]
    BY <1>7, <1>10, PickedLists
  <2> QED BY <1>10, <2>1
<1>14. Count(pushed, x) = Cardinality({i \in K : mine[i] = x})
  BY <1>7, <1>10, CountPicked
<1>15. Count(pushed, x) = IF x # Missing /\ x = key THEN Count(values, x) ELSE 0
  <2>1. CASE x = Missing
    BY <1>12, <1>14, <2>1, FS_EmptySet
  <2>2. CASE x # Missing /\ x = key
    <3>1. Count(pushed, x) = Count(mine, x)
      BY <1>11, <1>14, <2>2 DEF Count
    <3>2. Count(mine, x) = Count(values, x)
      BY <1>5, <1>8, <2>2 DEF Count
    <3> QED BY <2>2, <3>1, <3>2
  <2>3. CASE x # Missing /\ x # key
    <3>1. Count(pushed, x) = Count(mine, x)
      BY <1>11, <1>14, <2>3 DEF Count
    <3>2. Count(mine, x) = 0
      BY <1>6, <1>8, <2>3, FS_EmptySet
    <3> QED BY <2>3, <3>1, <3>2
  <2> QED BY <2>1, <2>2, <2>3
<1>16. Pushed(stream, name, key) = pushed
  BY DEF Pushed, Selected, pushed, K, mine, I, values, keys
<1> HIDE DEF pushed
<1> QED BY <1>13, <1>15, <1>16 DEF values

(* What all groups push together: the values that are there, each as often. *)
LEMMA AllPushed ==
  ASSUME NEW stream, IsList(stream), NEW name, NEW x
  PROVE  LET seen == FirstSeen(KeysOf(stream, name))
             values == Values(stream, name)
         IN  Count(FlattenSeq([k \in DOMAIN seen |-> Pushed(stream, name, seen[k])]), x) =
               Count(Selected(values, IsPresent), x)
<1> DEFINE keys == KeysOf(stream, name)
           seen == FirstSeen(keys)
           values == Values(stream, name)
           ss == [k \in DOMAIN seen |-> Pushed(stream, name, seen[k])]
           n == Len(seen)
           K == {i \in DOMAIN values : IsPresent(values[i])}
           all == Picked(values, K)
<1>1. /\ IsList(keys) /\ DOMAIN keys = DOMAIN stream /\ IsList(values) /\ DOMAIN values = DOMAIN stream
      /\ \A i \in DOMAIN stream : keys[i] = OrNull(values[i])
  BY KeysAreList
<1> HIDE DEF keys, values
<1>2. /\ IsList(seen)
      /\ \A k, l \in DOMAIN seen : seen[k] = seen[l] => k = l
      /\ \A i \in DOMAIN keys : \E k \in DOMAIN seen : seen[k] = keys[i]
  BY <1>1, FirstSeenLists
<1> HIDE DEF seen
<1>3. n \in Nat /\ DOMAIN seen = 1 .. n
  BY <1>2, ListParts
<1>4. IsList(ss) /\ Len(ss) = n /\ DOMAIN ss = 1 .. n
  <2>1. ss = [k \in 1 .. n |-> ss[k]]
    BY <1>3
  <2> HIDE DEF ss
  <2> QED BY <1>3, <2>1, ListFrom
<1>5. \A k \in DOMAIN ss :
        IsList(ss[k]) /\ Count(ss[k], x) = IF x # Missing /\ x = seen[k] THEN Count(values, x) ELSE 0
  BY PushedCount DEF values
<1> HIDE DEF ss
<1>6. PICK g : /\ g[0] = 0
               /\ \A k \in 1 .. Len(ss) : g[k] = g[k - 1] + Count(ss[k], x)
               /\ Count(FlattenSeq(ss), x) = g[Len(ss)]
  BY <1>4, <1>5, FlattenCounts
<1>7. Count(values, x) \in Nat
  BY <1>1, CountIsNumber
<1>8. Count(all, x) = Cardinality({i \in K : values[i] = x})
  <2>1. K \in SUBSET (DOMAIN values)
    OBVIOUS
  <2> HIDE DEF K
  <2> QED BY <1>1, <2>1, CountPicked
<1>9. ASSUME x # Missing, \E k \in 1 .. n : seen[k] = x
      PROVE  Count(FlattenSeq(ss), x) = Count(all, x)
  <2>1. PICK k \in 1 .. n : seen[k] = x
    BY <1>9
  <2>2. \A m \in 1 .. n : g[m] = g[m - 1] + (IF m = k THEN Count(values, x) ELSE 0)
    BY <1>2, <1>3, <1>4, <1>5, <1>6, <1>9, <2>1
  <2>3. g[n] = Count(values, x)
    BY <1>3, <1>6, <1>7, <2>2, OneTerm
  <2>4. {i \in K : values[i] = x} = At(values, x)
    BY <1>9 DEF At, IsPresent
  <2> QED BY <1>4, <1>6, <1>8, <2>3, <2>4 DEF Count
<1>10. ASSUME x = Missing \/ ~\E k \in 1 .. n : seen[k] = x
       PROVE  Count(FlattenSeq(ss), x) = Count(all, x)
  <2>1. \A m \in 1 .. n : g[m] = g[m - 1] + 0
    BY <1>3, <1>4, <1>5, <1>6, <1>10
  <2>2. g[n] = 0
    BY <1>3, <1>6, <2>1, NoTerm
  <2>3. {i \in K : values[i] = x} = {}
    <3>1. CASE x = Missing
      BY <3>1 DEF IsPresent
    <3>2. CASE x # Missing /\ ~\E k \in 1 .. n : seen[k] = x
      <4>1. \A i \in DOMAIN keys : keys[i] # x
        BY <1>2, <1>3, <3>2
      <4>2. \A i \in DOMAIN values : values[i] = x => keys[i] = x
        BY <1>1, <3>2 DEF OrNull
      <4> QED BY <1>1, <4>1, <4>2
    <3> QED BY <1>10, <3>1, <3>2
  <2>4. Count(all, x) = 0
    BY <1>8, <2>3, FS_EmptySet
  <2> QED BY <1>4, <1>6, <2>2, <2>4
<1>11. Count(FlattenSeq(ss), x) = Count(Selected(values, IsPresent), x)
  <2>1. Selected(values, IsPresent) = all
    BY DEF Selected
  <2> HIDE DEF all
  <2> QED BY <1>9, <1>10, <2>1
<1> QED BY <1>11 DEF ss, seen, keys, values

(* What the groups count together: every document. *)
LEMMA AllCounted ==
  ASSUME NEW stream, IsList(stream), NEW name
  PROVE  LET keys == KeysOf(stream, name)
             seen == FirstSeen(keys)
         IN  ExactTotal([k \in DOMAIN seen |-> Double(Scale * Count(keys, seen[k]))]) = Scale * Len(stream)
<1> DEFINE keys == KeysOf(stream, name)
           seen == FirstSeen(keys)
           n == Len(seen)
           numbers == [k \in DOMAIN seen |-> Double(Scale * Count(keys, seen[k]))]
<1>1. IsList(keys) /\ DOMAIN keys = DOMAIN stream
  BY KeysAreList
<1>2. Len(keys) = Len(stream)
  BY <1>1, FiniteListDomain
<1> HIDE DEF keys
<1>3. /\ IsList(seen)
      /\ \A k, l \in DOMAIN seen : seen[k] = seen[l] => k = l
      /\ \A i \in DOMAIN keys : \E k \in DOMAIN seen : seen[k] = keys[i]
  BY <1>1, FirstSeenLists
<1> HIDE DEF seen
<1>4. n \in Nat /\ DOMAIN seen = 1 .. n
  BY <1>3, ListParts
<1>5. IsList(numbers) /\ Len(numbers) = n /\ DOMAIN numbers = 1 .. n
  <2>1. numbers = [k \in 1 .. n |-> numbers[k]]
    BY <1>4
  <2> HIDE DEF numbers
  <2> QED BY <1>4, <2>1, ListFrom
<1>6. \A k \in 1 .. n : Units(numbers[k]) = Scale * Count(keys, seen[k])
  BY <1>4 DEF Units, Double
<1>7. \A k \in 1 .. n : Count(keys, seen[k]) \in Nat
  BY <1>1, CountIsNumber
<1> HIDE DEF numbers
<1>8. \A k \in DOMAIN numbers : Units(numbers[k]) \in Int
  BY <1>5, <1>6, <1>7, DoublesAssumption
<1>9. PICK g \in [0 .. n -> Int] :
        /\ g[0] = 0
        /\ \A k \in 1 .. n : g[k] = g[k - 1] + Units(numbers[k])
        /\ ExactTotal(numbers) = g[n]
  BY <1>5, <1>8, ExactTotalRuns
<1> DEFINE step == [k \in 1 .. n |-> [c \in Int |-> c + Count(keys, seen[k])]]
<1>10. PICK h \in [0 .. n -> Int] : h[0] = 0 /\ \A k \in 1 .. n : h[k] = h[k - 1] + Count(keys, seen[k])
  <2>1. AreSteps(step, n, Int)
    BY <1>7 DEF AreSteps
  <2>2. \A k \in 1 .. n, c \in Int : step[k][c] = c + Count(keys, seen[k])
    OBVIOUS
  <2> HIDE DEF step, n
  <2>3. PICK h : IsRun(h, step, n, Int, 0)
    BY <1>4, <2>1, LoopStates
  <2>4. ASSUME NEW k \in 1 .. n PROVE h[k] = h[k - 1] + Count(keys, seen[k])
    <3>1. k - 1 \in 0 .. n /\ h[k - 1] \in Int /\ h[k] = step[k][h[k - 1]]
      BY <1>4, <2>3 DEF IsRun
    <3> QED BY <2>2, <3>1
  <2> QED BY <2>3, <2>4 DEF IsRun
<1> HIDE DEF step
<1> DEFINE P == {m \in 0 .. n : g[m] = Scale * h[m]}
<1>11. 0 \in P
  BY <1>4, <1>9, <1>10, DoublesAssumption
<1>12. ASSUME NEW m \in 0 .. n, m + 1 \in 0 .. n, m \in P PROVE m + 1 \in P
  <2>1. m + 1 \in 1 .. n /\ (m + 1) - 1 = m
    BY <1>4, <1>12
  <2>2. /\ g[m + 1] = g[m] + Scale * Count(keys, seen[m + 1]) /\ g[m] = Scale * h[m]
        /\ h[m + 1] = h[m] + Count(keys, seen[m + 1])
    BY <1>6, <1>9, <1>10, <1>12, <2>1
  <2>3. h[m] \in Int /\ Count(keys, seen[m + 1]) \in Nat
    BY <1>7, <1>10, <2>1
  <2>4. \A c \in Int, e \in Nat : Scale * c + Scale * e = Scale * (c + e)
    BY DoublesAssumption
  <2>5. g[m + 1] = Scale * h[m + 1]
    BY <2>2, <2>3, <2>4
  <2> QED BY <1>12, <2>5
<1>13. h[n] = Len(keys)
  BY <1>1, <1>3, <1>10, CountsMakeUp
<1>14. n \in P
  <2> HIDE DEF P
  <2>1. 0 .. n \subseteq P
    BY <1>4, <1>11, <1>12, HoldsUpTo
  <2> QED BY <1>4, <2>1
<1> QED BY <1>2, <1>9, <1>13, <1>14 DEF numbers, seen, keys

(* Counts sort the larger ones first. *)
LargestFirst == << <<"count", Int32(-1)>> >>
Tally(key, c) == << <<"_id", key>>, <<"count", Int64(c)>> >>

LEMMA TallyParts ==
  ASSUME NEW key, NEW c
  PROVE  Find(Tally(key, c), "_id") = key /\ Find(Tally(key, c), "count") = Int64(c)
<1>1. Find(Tally(key, c), "_id") = key
  BY TwoFields DEF Tally
<1>2. Find(Tally(key, c), "count") = Int64(c)
  BY TwoFields DEF Tally
<1> QED BY <1>1, <1>2

LEMMA CountIsSortable ==
  ASSUME NEW d, NEW a \in 0 .. Significand, Find(d, "count") = Int64(a)
  PROVE  SortableBy(LargestFirst, d)
<1>1. DOMAIN LargestFirst = 1 .. 1 /\ LargestFirst[1] = <<"count", Int32(-1)>>
  BY DEF LargestFirst
<1>2. ResolvePath(d, "count") = Int64(a)
  BY FieldsAssumption DEF ResolvePath
<1>3. Sortable(Int64(a))
  <2>1. Scale * a \in Doubles /\ a \in Int
    BY WholeIsDouble, DoublesAssumption
  <2> QED BY <2>1 DEF Sortable, IsExact, Units, Int64, IsNumeric
<1>4. \A i \in DOMAIN LargestFirst : ResolvePath(d, LargestFirst[i][1]) = Int64(a)
  BY <1>1, <1>2
<1> QED BY <1>3, <1>4 DEF SortableBy

LEMMA LargestFirstLess ==
  ASSUME NEW d, NEW a \in 0 .. Significand, Find(d, "count") = Int64(a),
         NEW e, NEW b \in 0 .. Significand, Find(e, "count") = Int64(b)
  PROVE  SortLess(d, e, LargestFirst) <=> b < a
<1> DEFINE spec == LargestFirst
<1>1. IsList(spec) /\ DOMAIN spec = 1 .. 1 /\ spec[1] = <<"count", Int32(-1)>>
  BY OneField DEF LargestFirst
<1>2. ResolvePath(d, "count") = Int64(a) /\ ResolvePath(e, "count") = Int64(b)
  BY FieldsAssumption DEF ResolvePath
<1>3. SortableBy(spec, d) /\ SortableBy(spec, e)
  BY CountIsSortable
<1>4. Descends(Int32(-1))
  BY DEF Descends, Int32, IsNumeric, AsInt
<1> HIDE DEF spec
<1>5. SortLess(d, e, spec) <=> \E i \in DOMAIN spec : Decides(d, e, spec, i) /\ TiedTo(d, e, spec, i - 1)
  BY <1>1, <1>3, SortLessDecides
<1>6. TiedTo(d, e, spec, 0)
  BY DEF TiedTo
<1>7. SortLess(d, e, spec) <=> Decides(d, e, spec, 1)
  <2>1. \A i \in DOMAIN spec : i = 1 /\ i - 1 = 0
    BY <1>1
  <2>2. 1 \in DOMAIN spec
    BY <1>1
  <2> QED BY <1>5, <1>6, <2>1, <2>2
<1>8. Decides(d, e, spec, 1) <=> Below(Int64(b), Int64(a))
  <2>1. spec[1][1] = "count" /\ spec[1][2] = Int32(-1)
    BY <1>1
  <2> QED BY <1>2, <1>4, <2>1 DEF Decides
<1>9. Below(Int64(b), Int64(a)) <=> b < a
  <2>1. \A n \in Int : /\ Rank(Int64(n)) = Rank(Int64(0)) /\ Minor(Int64(n)) = 0
                       /\ Major(Int64(n)) = Scale * n
    <3> SUFFICES ASSUME NEW n \in Int
                 PROVE  /\ Rank(Int64(n)) = Rank(Int64(0)) /\ Minor(Int64(n)) = 0
                        /\ Major(Int64(n)) = Scale * n
      OBVIOUS
    <3>1. \A m : Int64(m) # Missing /\ Int64(m)[1] = "int64" /\ Int64(m)[2] = m
      BY DEF Int64, Missing
    <3>2. Rank(Int64(n)) = Rank(Int64(0))
      <4>1. \A m : TypeRank(Int64(m)) = 3
        BY <3>1 DEF TypeRank, IsNumeric, IsText, IsDocument, IsArray
      <4> QED BY <3>1, <4>1 DEF Rank
    <3>3. Minor(Int64(n)) = 0
      BY <3>1 DEF Minor, IsText
    <3>4. Major(Int64(n)) = Scale * n
      BY <3>1 DEF Major, IsNumeric, Units
    <3> QED BY <3>2, <3>3, <3>4
  <2>2. Rank(Int64(0)) \in Int
    BY DEF Rank, TypeRank
  <2>3. a \in Int /\ b \in Int
    BY DoublesAssumption
  <2>4. Scale * a <= Scale * b <=> a <= b
    BY <2>3, ScaleKeepsOrder
  <2>5. Scale * a \in Int /\ Scale * b \in Int
    BY <2>3, DoublesAssumption
  <2> QED BY <2>1, <2>2, <2>3, <2>4, <2>5 DEF Below
<1> QED BY <1>7, <1>8, <1>9 DEF spec

(* $sortByCount counts the documents of each key, and puts the keys in order. *)
LEMMA SortedTally ==
  ASSUME NEW stream, IsList(stream), Len(stream) <= Significand, NEW name, IsTopLevel(name)
  PROVE  LET keys == KeysOf(stream, name)
             seen == FirstSeen(keys)
             counts == SortByCountStage(stream, FieldRef(name))
         IN  \E order \in [DOMAIN seen -> DOMAIN seen] :
               /\ \A i, j \in DOMAIN seen : order[i] = order[j] => i = j
               /\ \A i \in DOMAIN seen : \E k \in DOMAIN seen : order[k] = i
               /\ counts = [k \in DOMAIN seen |-> Tally(seen[order[k]], Count(keys, seen[order[k]]))]
               /\ \A i, j \in DOMAIN seen :
                    i < j => Count(keys, seen[order[i]]) >= Count(keys, seen[order[j]])
<1> DEFINE keys == KeysOf(stream, name)
           seen == FirstSeen(keys)
           tally == [k \in DOMAIN seen |-> Tally(seen[k], Count(keys, seen[k]))]
<1>1. IsList(keys)
  BY KeysAreList
<1>2. [i \in DOMAIN stream |-> OrNull(Evaluate(stream[i], FieldRef(name)))] = keys
  BY RefFinds DEF KeysOf
<1>0. \A key : Count(keys, key) \in 0 .. Significand
  BY CountsAreSmall
<1> HIDE DEF keys
<1>3. IsList(seen)
  BY <1>1, FirstSeenLists
<1> HIDE DEF seen
<1>4. SortByCountStage(stream, FieldRef(name)) = StableSort(tally, LargestFirst)
  BY <1>2 DEF SortByCountStage, CountKeys, CountRows, seen, Tally, LargestFirst, Count, At
<1>5. IsList(tally) /\ DOMAIN tally = DOMAIN seen
  <2>1. Len(seen) \in Nat /\ DOMAIN seen = 1 .. Len(seen)
    BY <1>3, ListParts
  <2>2. tally = [k \in 1 .. Len(seen) |-> tally[k]] /\ DOMAIN tally = DOMAIN seen
    BY <2>1
  <2> HIDE DEF tally
  <2> QED BY <2>1, <2>2, ListFrom
<1>6. \A k \in DOMAIN seen : Count(keys, seen[k]) \in 0 .. Significand
  BY <1>0
<1>7. \A k \in DOMAIN seen : tally[k] = Tally(seen[k], Count(keys, seen[k]))
  OBVIOUS
<1>8. \A k \in DOMAIN seen : Find(tally[k], "count") = Int64(Count(keys, seen[k]))
  BY <1>7, TallyParts
<1> HIDE DEF tally
<1>9. IsList(LargestFirst)
  BY OneField DEF LargestFirst
<1>10. \A k \in DOMAIN tally : SortableBy(LargestFirst, tally[k])
  BY <1>5, <1>6, <1>8, CountIsSortable
<1>11. PICK order \in [DOMAIN tally -> DOMAIN tally] :
         /\ StableSort(tally, LargestFirst) = [k \in DOMAIN tally |-> tally[order[k]]]
         /\ \A i, j \in DOMAIN tally : order[i] = order[j] => i = j
         /\ \A i \in DOMAIN tally : \E k \in DOMAIN tally : order[k] = i
         /\ \A i, j \in DOMAIN tally : i < j =>
              /\ ~SortLess(tally[order[j]], tally[order[i]], LargestFirst)
              /\ SortLess(tally[order[i]], tally[order[j]], LargestFirst) \/ order[i] < order[j]
  BY <1>5, <1>9, <1>10, SortIsStable
<1>12. order \in [DOMAIN seen -> DOMAIN seen]
  BY <1>5
<1>13. StableSort(tally, LargestFirst) = [k \in DOMAIN seen |-> Tally(seen[order[k]], Count(keys, seen[order[k]]))]
  BY <1>5, <1>7, <1>11, <1>12
<1>14. ASSUME NEW i \in DOMAIN seen, NEW j \in DOMAIN seen, i < j
       PROVE  Count(keys, seen[order[i]]) >= Count(keys, seen[order[j]])
  <2>1. ~SortLess(tally[order[j]], tally[order[i]], LargestFirst)
    BY <1>5, <1>11, <1>14
  <2>2. order[i] \in DOMAIN seen /\ order[j] \in DOMAIN seen
    BY <1>12
  <2>3. ~(Count(keys, seen[order[i]]) < Count(keys, seen[order[j]]))
    BY <1>6, <1>8, <2>1, <2>2, LargestFirstLess
  <2> QED BY <1>6, <2>2, <2>3, DoublesAssumption
<1> QED BY <1>4, <1>5, <1>11, <1>12, <1>13, <1>14 DEF seen, keys

(* $group puts each document into exactly one group, its own, and            *)
(* $sortByCount counts those groups, largest first, for every stream of as    *)
(* many documents as a double can count (apply_group_stage,                   *)
(* apply_sort_by_count_stage).                                                *)
THEOREM GroupingPartitions == Spec => [](IsStream(docs) => GroupsPartition)
<1>1. IsStream(docs) => GroupsPartition
  <2> SUFFICES ASSUME IsStream(docs), NEW name \in Fields
               PROVE  Len(docs) <= Significand =>
                        ArePartition(name, GroupStage(docs, GroupSpec(name)).docs, SortByCountStage(docs, FieldRef(name)))
    BY DEF GroupsPartition, GroupSpec
  <2> HAVE Len(docs) <= Significand
  <2> DEFINE keys == KeysOf(docs, name)
             seen == FirstSeen(keys)
             rows == GroupStage(docs, GroupSpec(name)).docs
             counts == SortByCountStage(docs, FieldRef(name))
             c(k) == Count(keys, seen[k])
             pair(row, n) == <<Find(row, "_id"), Units(Find(row, n))>>
             rowPairs == [i \in DOMAIN rows |-> pair(rows[i], "n")]
             countPairs == [i \in DOMAIN counts |-> pair(counts[i], "count")]
  <2>1. IsList(docs) /\ IsTopLevel(name)
    BY FieldsAssumption DEF IsStream
  <2>2. /\ DOMAIN rows = DOMAIN seen
        /\ \A k \in DOMAIN seen :
             /\ Find(rows[k], "_id") = seen[k]
             /\ Find(rows[k], "n") = Double(Scale * c(k))
             /\ Find(rows[k], "a") = Array(Pushed(docs, name, seen[k]))
    BY <2>1, GroupedRows
  <2>3. PICK order \in [DOMAIN seen -> DOMAIN seen] :
          /\ \A i, j \in DOMAIN seen : order[i] = order[j] => i = j
          /\ \A i \in DOMAIN seen : \E k \in DOMAIN seen : order[k] = i
          /\ counts = [k \in DOMAIN seen |-> Tally(seen[order[k]], c(order[k]))]
          /\ \A i, j \in DOMAIN seen : i < j => c(order[i]) >= c(order[j])
    BY <2>1, SortedTally
  <2>4. IsList(seen)
    BY <2>1, KeysAreList, FirstSeenLists
  <2> HIDE DEF rows, counts, seen, keys
  <2>5. Len(seen) \in Nat /\ DOMAIN seen = 1 .. Len(seen)
    BY <2>4, ListParts
  <2>6. DOMAIN counts = DOMAIN seen /\ \A k \in DOMAIN counts : order[k] \in DOMAIN seen
    BY <2>3
  <2>7. \A k \in DOMAIN counts :
          Find(counts[k], "_id") = seen[order[k]] /\ Find(counts[k], "count") = Int64(c(order[k]))
    BY <2>3, TallyParts
  <2>8. IsPermutation(Concat(Values(rows, "a")), Selected(Values(docs, name), LAMBDA v : v # Missing))
    <3> DEFINE ss == [k \in DOMAIN seen |-> Pushed(docs, name, seen[k])]
    <3>1. Concat(Values(rows, "a")) = FlattenSeq(ss)
      <4>1. \A k \in DOMAIN seen : Values(rows, "a")[k][2] = Pushed(docs, name, seen[k])
        BY <2>2 DEF Values, Array
      <4>2. DOMAIN Values(rows, "a") = DOMAIN seen
        BY <2>2 DEF Values
      <4> QED BY <4>1, <4>2 DEF Concat
    <3>2. \A x : Count(FlattenSeq(ss), x) = Count(Selected(Values(docs, name), IsPresent), x)
      BY <2>1, AllPushed DEF seen, keys
    <3>3. Selected(Values(docs, name), IsPresent) = Selected(Values(docs, name), LAMBDA v : v # Missing)
      BY DEF Selected, IsPresent
    <3> HIDE DEF ss
    <3> QED BY <3>1, <3>2, <3>3 DEF IsPermutation, Count, At
  <2>9. \A i \in DOMAIN rows : \A v \in ToSet(Find(rows[i], "a")[2]) : v = Find(rows[i], "_id")
    <3> SUFFICES ASSUME NEW i \in DOMAIN rows, NEW v \in ToSet(Find(rows[i], "a")[2])
                 PROVE  v = Find(rows[i], "_id")
      OBVIOUS
    <3>1. Find(rows[i], "a")[2] = Pushed(docs, name, seen[i]) /\ Find(rows[i], "_id") = seen[i]
      BY <2>2 DEF Array
    <3>2. \A j \in DOMAIN Pushed(docs, name, seen[i]) : Pushed(docs, name, seen[i])[j] = seen[i]
      BY <2>1, PushedCount
    <3> QED BY <3>1, <3>2 DEF ToSet
  <2>10. ExactTotal(Values(rows, "n")) = Scale * Len(docs)
    <3>1. Values(rows, "n") = [k \in DOMAIN seen |-> Double(Scale * c(k))]
      BY <2>2 DEF Values
    <3> QED BY <2>1, <3>1, AllCounted DEF seen, keys
  <2>11. IsPermutation(rowPairs, countPairs)
    <3>1. /\ IsList(rowPairs) /\ DOMAIN rowPairs = DOMAIN seen
      <4>1. rowPairs = [i \in 1 .. Len(seen) |-> rowPairs[i]] /\ DOMAIN rowPairs = DOMAIN seen
        BY <2>2, <2>5
      <4> HIDE DEF rowPairs
      <4> QED BY <2>5, <4>1, ListFrom
    <3>2. countPairs = [k \in DOMAIN rowPairs |-> rowPairs[order[k]]]
      <4>1. ASSUME NEW k \in DOMAIN seen PROVE countPairs[k] = rowPairs[order[k]]
        <5>1. countPairs[k] = <<seen[order[k]], Units(Int64(c(order[k])))>>
          BY <2>6, <2>7
        <5>2. rowPairs[order[k]] = <<seen[order[k]], Units(Double(Scale * c(order[k])))>>
          BY <2>2, <2>6
        <5>3. \A n : Units(Int64(n)) = Scale * n /\ Units(Double(Scale * n)) = Scale * n
          BY DEF Units, Int64, Double
        <5> HIDE DEF countPairs, rowPairs, c
        <5> QED BY <5>1, <5>2, <5>3
      <4>2. countPairs = [k \in DOMAIN seen |-> countPairs[k]]
        BY <2>6
      <4> HIDE DEF countPairs, rowPairs
      <4> QED BY <3>1, <4>1, <4>2
    <3> HIDE DEF rowPairs, countPairs
    <3>3. \A x : Count(countPairs, x) = Count(rowPairs, x)
      BY <2>3, <3>1, <3>2, CountReordered
    <3> QED BY <3>3 DEF IsPermutation, Count, At
  <2>12. \A i \in 1 .. Len(counts) - 1 : Find(counts[i], "count")[2] >= Find(counts[i + 1], "count")[2]
    <3>1. Len(counts) = Len(seen)
      <4>1. counts = [k \in 1 .. Len(seen) |-> counts[k]]
        BY <2>3, <2>5
      <4> QED BY <2>5, <4>1, ListFrom
    <3>2. ASSUME NEW i \in 1 .. Len(counts) - 1
          PROVE  Find(counts[i], "count")[2] >= Find(counts[i + 1], "count")[2]
      <4>1. i \in DOMAIN seen /\ i + 1 \in DOMAIN seen /\ i < i + 1
        BY <2>5, <3>1
      <4>2. c(order[i]) >= c(order[i + 1])
        BY <2>3, <4>1
      <4>3. Find(counts[i], "count")[2] = c(order[i]) /\ Find(counts[i + 1], "count")[2] = c(order[i + 1])
        BY <2>6, <2>7, <4>1 DEF Int64
      <4> QED BY <4>2, <4>3
    <3> QED BY <3>2
  <2> QED BY <2>8, <2>9, <2>10, <2>11, <2>12 DEF ArePartition, rows, counts
<1> QED BY <1>1, PTL


-----------------------------------------------------------------------------
(* Arrays and objects.                                                      *)

(* Two lists in one. *)
LEMMA FlattenTwo ==
  ASSUME NEW s, NEW t
  PROVE  FlattenSeq(<<s, t>>) = s \o t
<1> DEFINE both == <<s, t>>
           Step(f) == [i \in 1 .. Len(both) |-> IF i = 1 THEN both[i] ELSE f[i - 1] \o both[i]]
           flatten == CHOOSE f : f = Step(f)
           result == [i \in 1 .. 2 |-> IF i = 1 THEN s ELSE s \o t]
<1>1. Len(both) = 2 /\ both[1] = s /\ both[2] = t /\ both # <<>>
  BY TwoElements
<1> HIDE DEF both
<1>2. result = Step(result)
  <2>1. ASSUME NEW i \in 1 .. 2 PROVE result[i] = IF i = 1 THEN both[i] ELSE result[i - 1] \o both[i]
    <3>1. CASE i = 1
      BY <1>1, <3>1
    <3>2. CASE i = 2
      <4>1. result[1] = s /\ result[2] = s \o t
        OBVIOUS
      <4>2. 2 - 1 = 1
        OBVIOUS
      <4> HIDE DEF result
      <4> QED BY <1>1, <3>2, <4>1, <4>2
    <3> QED BY <3>1, <3>2
  <2>2. result = [i \in 1 .. 2 |-> result[i]]
    OBVIOUS
  <2> HIDE DEF result
  <2> QED BY <1>1, <2>1, <2>2
<1>3. flatten = Step(flatten)
  <2> HIDE DEF result, Step
  <2>1. \E f : f = Step(f)
    BY <1>2
  <2> QED BY <2>1
<1> HIDE DEF flatten
<1>4. flatten[1] = s /\ flatten[2] = s \o t
  <2>1. \A i \in 1 .. 2 : flatten[i] = IF i = 1 THEN both[i] ELSE flatten[i - 1] \o both[i]
    BY <1>1, <1>3
  <2>2. flatten[1] = both[1]
    BY <2>1
  <2>3. flatten[2] = flatten[2 - 1] \o both[2] /\ 2 - 1 = 1
    <3>1. 2 \in 1 .. 2 /\ 2 # 1 /\ 2 - 1 = 1
      OBVIOUS
    <3>2. flatten[2] = IF 2 = 1 THEN both[2] ELSE flatten[2 - 1] \o both[2]
      BY <2>1, <3>1
    <3> QED BY <3>1, <3>2
  <2> QED BY <1>1, <2>2, <2>3
<1>5. FlattenSeq(both) = flatten[Len(both)]
  BY <1>1 DEF FlattenSeq, flatten
<1> QED BY <1>1, <1>4, <1>5 DEF both

LEMMA ThreeElements ==
  ASSUME NEW x, NEW y, NEW z
  PROVE  LET s == <<x, y, z>>
         IN  Len(s) = 3 /\ DOMAIN s = {1, 2, 3} /\ s[1] = x /\ s[2] = y /\ s[3] = z /\ s # <<>>
OBVIOUS

LEMMA TripleEvaluates ==
  ASSUME ValuesClosed, NEW x, NEW y, NEW z, NEW d
  PROVE  Elements(d, Array(<<x, y, z>>)) = <<Evaluate(d, x), Evaluate(d, y), Evaluate(d, z)>>
<1> DEFINE arg == Array(<<x, y, z>>)
<1>1. IsArray(arg) /\ arg[2] = <<x, y, z>>
  BY DEF IsArray, Array
<1> HIDE DEF arg
<1> QED BY <1>1 DEF ValuesClosed, Elements, arg

(* Where an array is cut in two, the parts make it up. *)
LEMMA CutsJoin ==
  ASSUME NEW a, IsList(a), NEW n \in 0 .. Len(a)
  PROVE  SubSeq(a, 1, n) \o SubSeq(a, n + 1, Len(a)) = a
<1> DEFINE U == {a[i] : i \in DOMAIN a}
<1>1. a \in Seq(U) /\ Len(a) \in Nat
  BY ListParts DEF IsList
<1> HIDE DEF U
<1>2. 1 \in 1 .. Len(a) + 1 /\ n \in 1 - 1 .. Len(a) /\ Len(a) \in n .. Len(a)
  BY <1>1
<1>3. SubSeq(a, 1, n) \o SubSeq(a, n + 1, Len(a)) = SubSeq(a, 1, Len(a))
  BY <1>1, <1>2, ConcatAdjacentSubSeq
<1>4. SubSeq(a, 1, Len(a)) = a
  BY <1>1, SubSeqFull
<1> QED BY <1>3, <1>4

LEMMA SliceOfTwo ==
  ASSUME NEW v, IsArray(v), IsList(v[2]), NEW k \in Int
  PROVE  /\ k \in 0 .. Len(v[2]) => Slice(<<v, Int32(k)>>) = Array(SubSeq(v[2], 1, k))
         /\ -k \in 1 .. Len(v[2]) => Slice(<<v, Int32(k)>>) = Array(SubSeq(v[2], Len(v[2]) + k + 1, Len(v[2])))
<1> DEFINE count == Int32(k)
           vs == <<v, count>>
           total == Len(v[2])
<1>1. total \in Nat
  BY ListParts
<1>2. IsNumeric(count) /\ AsInt(count) = k
  BY DEF IsNumeric, AsInt, Int32
<1> HIDE DEF count
<1>3. Len(vs) = 2 /\ vs[1] = v /\ vs[2] = count
  BY TwoElements
<1> HIDE DEF vs, total
<1>4. Slice(vs) = IF k >= 0 THEN Array(SubSeq(v[2], 0 + 1, 0 + Most(0, Least(k, total - 0))))
                  ELSE LET start == IF k < 0 THEN Most(0, total + k) ELSE Least(k, total)
                       IN  Array(SubSeq(v[2], start + 1, start + Most(0, Least(-k, total - start))))
  <2>1. Len(vs) \in {2, 3} /\ Len(vs) # 3 /\ \A i \in 2 .. Len(vs) : IsNumeric(vs[i])
    BY <1>2, <1>3
  <2> QED BY <1>2, <1>3, <2>1 DEF Slice, total
<1>5. ASSUME k \in 0 .. total PROVE Slice(vs) = Array(SubSeq(v[2], 1, k))
  <2>1. 0 + Most(0, Least(k, total - 0)) = k /\ 0 + 1 = 1 /\ k >= 0
    BY <1>1, <1>5 DEF Most, Least
  <2> QED BY <1>4, <2>1
<1>6. ASSUME -k \in 1 .. total PROVE Slice(vs) = Array(SubSeq(v[2], total + k + 1, total))
  <2>1. k < 0 /\ ~(k >= 0) /\ Most(0, total + k) = total + k
    BY <1>1, <1>6 DEF Most
  <2>2. (total + k) + Most(0, Least(-k, total - (total + k))) = total
    BY <1>1, <1>6 DEF Most, Least
  <2> QED BY <1>4, <2>1, <2>2
<1> QED BY <1>5, <1>6 DEF vs, count, total

LEMMA SliceOfThree ==
  ASSUME NEW v, IsArray(v), IsList(v[2]), NEW start \in 0 .. Len(v[2]),
         NEW count, IsNumeric(count), AsInt(count) \in Nat
  PROVE  Slice(<<v, Int32(start), count>>) =
           Array(SubSeq(v[2], start + 1, start + Least(AsInt(count), Len(v[2]) - start)))
<1> DEFINE at == Int32(start)
           vs == <<v, at, count>>
           total == Len(v[2])
<1>1. total \in Nat
  BY ListParts
<1>2. IsNumeric(at) /\ AsInt(at) = start
  BY DEF IsNumeric, AsInt, Int32
<1> HIDE DEF at
<1>3. Len(vs) = 3 /\ vs[1] = v /\ vs[2] = at /\ vs[3] = count
  BY ThreeElements
<1> HIDE DEF vs, total
<1>4. (IF start < 0 THEN Most(0, total + start) ELSE Least(start, total)) = start
  BY <1>1 DEF Least, total
<1>5. Most(0, Least(AsInt(count), total - start)) = Least(AsInt(count), total - start)
  BY <1>1 DEF Least, Most, total
<1>6. Slice(vs) = LET from == IF start < 0 THEN Most(0, total + start) ELSE Least(start, total)
                  IN  Array(SubSeq(v[2], from + 1, from + Most(0, Least(AsInt(count), total - from))))
  <2>1. Len(vs) \in {2, 3} /\ \A i \in 2 .. Len(vs) : IsNumeric(vs[i])
    BY <1>2, <1>3
  <2> QED BY <1>2, <1>3, <2>1 DEF Slice, total
<1> QED BY <1>4, <1>5, <1>6 DEF vs, at, total


(* The calls of the operators, on one field. *)
LEMMA ConcatEvaluates ==
  ASSUME ValuesClosed, NEW d, NEW x, NEW s, Evaluate(d, x) = Array(s), NEW y, NEW t, Evaluate(d, y) = Array(t)
  PROVE  Evaluate(d, S("$concatArrays", Array(<<x, y>>))) = Array(s \o t)
<1> DEFINE arg == Array(<<x, y>>)
           vs == <<Array(s), Array(t)>>
           lists == [i \in DOMAIN vs |-> vs[i][2]]
<1>1. IsArray(arg) /\ Elements(d, arg) = vs
  BY PairEvaluates
<1>2. Evaluate(d, S("$concatArrays", arg)) = EvaluateOperator("$concatArrays", d, arg)
  BY CallEvaluates DEF Dollar
<1> HIDE DEF arg
<1>3. EvaluateOperator("$concatArrays", d, arg) = ConcatArrays(vs)
  BY <1>1 DEF EvaluateOperator
<1>4. \A i \in DOMAIN vs : IsArray(vs[i])
  BY DEF IsArray, Array
<1>5. lists = <<s, t>>
  BY DEF Array
<1>6. FlattenSeq(lists) = s \o t
  BY <1>5, FlattenTwo
<1> HIDE DEF vs
<1>7. ConcatArrays(vs) = Array(FlattenSeq(lists))
  BY <1>4 DEF ConcatArrays
<1> QED BY <1>2, <1>3, <1>6, <1>7 DEF arg

LEMMA SliceCalls ==
  ASSUME NEW d, NEW arg
  PROVE  Evaluate(d, S("$slice", arg)) = Slice(Elements(d, arg))
<1>1. Evaluate(d, S("$slice", arg)) = EvaluateOperator("$slice", d, arg)
  BY CallEvaluates DEF Dollar
<1>2. EvaluateOperator("$slice", d, arg) = Slice(Elements(d, arg))
  BY DEF EvaluateOperator
<1> QED BY <1>1, <1>2

LEMMA SliceEvaluates ==
  ASSUME ValuesClosed, NEW d, NEW x, NEW k
  PROVE  Evaluate(d, S("$slice", Array(<<x, Int32(k)>>))) = Slice(<<Evaluate(d, x), Int32(k)>>)
<1>1. Evaluate(d, Int32(k)) = Int32(k)
  BY ConstantEvaluates DEF Int32
<1>2. Elements(d, Array(<<x, Int32(k)>>)) = <<Evaluate(d, x), Int32(k)>>
  BY <1>1, PairEvaluates
<1> QED BY <1>2, SliceCalls

LEMMA LongSliceEvaluates ==
  ASSUME ValuesClosed, NEW d, NEW x, NEW k, NEW count, count[1] \in {"int32", "int64"}
  PROVE  Evaluate(d, S("$slice", Array(<<x, Int32(k), count>>))) = Slice(<<Evaluate(d, x), Int32(k), count>>)
<1>1. Evaluate(d, Int32(k)) = Int32(k)
  BY ConstantEvaluates DEF Int32
<1>2. Evaluate(d, count) = count
  BY ConstantEvaluates
<1>3. Elements(d, Array(<<x, Int32(k), count>>)) = <<Evaluate(d, x), Int32(k), count>>
  BY <1>1, <1>2, TripleEvaluates
<1> QED BY <1>3, SliceCalls

(* The field is an array. *)
IsWhole(v) == IsArray(v) /\ v = <<v[1], v[2]>> /\ IsList(v[2]) /\ v[2] # <<>> /\ \A i \in DOMAIN v[2] : v[2][i] # Missing

LEMMA WholeParts ==
  ASSUME NEW v, IsWhole(v)
  PROVE  v = Array(v[2]) /\ Len(v[2]) \in Nat \ {0} /\ DOMAIN v[2] = 1 .. Len(v[2])
<1>1. Len(v[2]) \in Nat /\ DOMAIN v[2] = 1 .. Len(v[2]) /\ v[2] = [i \in 1 .. Len(v[2]) |-> v[2][i]]
  BY ListParts DEF IsWhole
<1>2. Len(v[2]) # 0
  <2> SUFFICES ASSUME Len(v[2]) = 0 PROVE FALSE
    OBVIOUS
  <2>1. \A s, t : IsList(s) /\ IsList(t) /\ Len(s) = 0 /\ Len(t) = 0 => s = t
    <3> SUFFICES ASSUME NEW s, NEW t, IsList(s), IsList(t), Len(s) = 0, Len(t) = 0 PROVE s = t
      OBVIOUS
    <3>1. DOMAIN s = {}
      BY ListParts
    <3> QED BY <3>1, EqualLists
  <2>2. IsList(<<>>) /\ Len(<<>>) = 0
    BY DEF IsList
  <2> QED BY <2>1, <2>2 DEF IsWhole
<1>3. v = Array(v[2])
  BY DEF IsWhole, IsArray, Array
<1> QED BY <1>1, <1>2, <1>3

LEMMA SizeEvaluates ==
  ASSUME ValuesClosed, NEW d, NEW x, IsArray(Evaluate(d, x))
  PROVE  Evaluate(d, S("$size", x)) = Int64(Len(Evaluate(d, x)[2]))
<1>1. Evaluate(d, S("$size", x)) = EvaluateOperator("$size", d, x)
  BY CallEvaluates DEF Dollar
<1>2. EvaluateOperator("$size", d, x) = Size(Value(d, x))
  BY DEF EvaluateOperator
<1> QED BY <1>1, <1>2 DEF Size, ValuesClosed

(* Two slices make up the array, counted from its start and from its end. *)
Cut(args) == S("$slice", Array(args))
Parts(x, n, size) == Array(<<Cut(<<x, Int32(n)>>), Cut(<<x, Int32(n), size>>)>>)
Tails(x, n, total) == Array(<<Cut(<<x, Int32(0), Int32(total - n)>>), Cut(<<x, Int32(-n)>>)>>)

LEMMA SlicesJoin ==
  ASSUME ValuesClosed, NEW d, NEW x, NEW v, Evaluate(d, x) = v, IsWhole(v), NEW n \in 1 .. Len(v[2])
  PROVE  /\ Evaluate(d, S("$concatArrays", Parts(x, n, Int64(Len(v[2]))))) = v
         /\ Evaluate(d, S("$concatArrays", Tails(x, n, Len(v[2])))) = v
<1> DEFINE a == v[2]
           total == Len(v[2])
           size == Int64(total)
           rest == Int32(total - n)
<1>1. v = Array(a) /\ total \in Nat /\ IsArray(v) /\ IsList(a)
  BY WholeParts DEF IsWhole
<1>2. IsNumeric(size) /\ AsInt(size) = total /\ size[1] \in {"int32", "int64"}
  BY DEF IsNumeric, AsInt, Int64
<1>3. IsNumeric(rest) /\ AsInt(rest) = total - n /\ rest[1] \in {"int32", "int64"}
  BY DEF IsNumeric, AsInt, Int32
<1> HIDE DEF size, rest, a, total
<1>4. n \in Int /\ n \in 0 .. total /\ total - n \in 0 .. total /\ total - n \in Nat /\ -n \in Int /\ -(-n) \in 1 .. total
  BY <1>1 DEF total
<1>5. Evaluate(d, Cut(<<x, Int32(n)>>)) = Array(SubSeq(a, 1, n))
  <2>1. Slice(<<v, Int32(n)>>) = Array(SubSeq(a, 1, n))
    BY <1>1, <1>4, SliceOfTwo DEF a, total
  <2> QED BY <1>2, <2>1, SliceEvaluates DEF Cut
<1>6. Evaluate(d, Cut(<<x, Int32(n), size>>)) = Array(SubSeq(a, n + 1, total))
  <2>1. Slice(<<v, Int32(n), size>>) = Array(SubSeq(a, n + 1, n + Least(total, total - n)))
    BY <1>1, <1>2, <1>4, SliceOfThree DEF a, total
  <2>2. n + Least(total, total - n) = total
    BY <1>1, <1>4 DEF Least
  <2> QED BY <1>2, <2>1, <2>2, LongSliceEvaluates DEF Cut
<1>7. Evaluate(d, Cut(<<x, Int32(0), rest>>)) = Array(SubSeq(a, 1, total - n))
  <2>1. 0 \in 0 .. total
    BY <1>1
  <2>2. Slice(<<v, Int32(0), rest>>) = Array(SubSeq(a, 0 + 1, 0 + Least(total - n, total - 0)))
    BY <1>1, <1>3, <1>4, <2>1, SliceOfThree DEF a, total
  <2>3. 0 + Least(total - n, total - 0) = total - n /\ 0 + 1 = 1
    BY <1>1, <1>4 DEF Least
  <2> QED BY <1>3, <2>2, <2>3, LongSliceEvaluates DEF Cut
<1>8. Evaluate(d, Cut(<<x, Int32(-n)>>)) = Array(SubSeq(a, (total - n) + 1, total))
  <2>1. Slice(<<v, Int32(-n)>>) = Array(SubSeq(a, total + (-n) + 1, total))
    BY <1>1, <1>4, SliceOfTwo DEF a, total
  <2>2. total + (-n) + 1 = (total - n) + 1
    BY <1>1, <1>4
  <2> QED BY <1>2, <2>1, <2>2, SliceEvaluates DEF Cut
<1>9. SubSeq(a, 1, n) \o SubSeq(a, n + 1, total) = a
  BY <1>1, <1>4, CutsJoin DEF total, a
<1>10. SubSeq(a, 1, total - n) \o SubSeq(a, (total - n) + 1, total) = a
  BY <1>1, <1>4, CutsJoin DEF total, a
<1> DEFINE first == Cut(<<x, Int32(n)>>)
           second == Cut(<<x, Int32(n), size>>)
           third == Cut(<<x, Int32(0), rest>>)
           fourth == Cut(<<x, Int32(-n)>>)
<1> HIDE DEF first, second, third, fourth
<1>11. Evaluate(d, S("$concatArrays", Array(<<first, second>>))) = v
  <2>1. Evaluate(d, first) = Array(SubSeq(a, 1, n)) /\ Evaluate(d, second) = Array(SubSeq(a, n + 1, total))
    BY <1>5, <1>6 DEF first, second
  <2>2. Evaluate(d, S("$concatArrays", Array(<<first, second>>))) = Array(SubSeq(a, 1, n) \o SubSeq(a, n + 1, total))
    BY <2>1, ConcatEvaluates
  <2> QED BY <1>1, <1>9, <2>2
<1>12. Evaluate(d, S("$concatArrays", Array(<<third, fourth>>))) = v
  <2>1. Evaluate(d, third) = Array(SubSeq(a, 1, total - n)) /\ Evaluate(d, fourth) = Array(SubSeq(a, (total - n) + 1, total))
    BY <1>7, <1>8 DEF third, fourth
  <2>2. Evaluate(d, S("$concatArrays", Array(<<third, fourth>>))) =
          Array(SubSeq(a, 1, total - n) \o SubSeq(a, (total - n) + 1, total))
    BY <2>1, ConcatEvaluates
  <2> QED BY <1>1, <1>10, <2>2
<1> QED BY <1>11, <1>12 DEF Parts, Tails, first, second, third, fourth, size, rest, total

(* The last element, three ways. *)
LEMMA EndsAgree ==
  ASSUME ValuesClosed, NEW d, NEW x, IsText(x), NEW v, Evaluate(d, x) = v, IsWhole(v)
  PROVE  /\ Evaluate(d, S("$last", x)) = v[2][Len(v[2])]
         /\ Evaluate(d, S("$first", S("$reverseArray", x))) = v[2][Len(v[2])]
         /\ Evaluate(d, S("$arrayElemAt", Array(<<x, Int32(-1)>>))) = v[2][Len(v[2])]
<1> DEFINE a == v[2]
           total == Len(v[2])
           reversed == S("$reverseArray", x)
<1>1. total \in Nat \ {0} /\ IsArray(v) /\ a # <<>>
  BY WholeParts DEF IsWhole
<1>2. ~IsArray(x)
  BY DEF IsText, IsArray
<1>3. UnaryArg(d, x) = v
  BY <1>2 DEF UnaryArg, ValuesClosed
<1>4. Evaluate(d, S("$last", x)) = a[total]
  <2>1. Evaluate(d, S("$last", x)) = EvaluateOperator("$last", d, x)
    BY CallEvaluates DEF Dollar
  <2>2. EvaluateOperator("$last", d, x) = FirstOrLast("$last", UnaryArg(d, x))
    BY DEF EvaluateOperator
  <2>3. FirstOrLast("$last", v) = Last(a)
    BY <1>1 DEF FirstOrLast
  <2> QED BY <1>3, <2>1, <2>2, <2>3 DEF Last
<1>5. Evaluate(d, reversed) = Array(Reverse(a))
  <2>1. Evaluate(d, reversed) = EvaluateOperator("$reverseArray", d, x)
    BY CallEvaluates DEF Dollar
  <2>2. EvaluateOperator("$reverseArray", d, x) = ReverseArray(UnaryArg(d, x))
    BY DEF EvaluateOperator
  <2> QED BY <1>1, <1>3, <2>1, <2>2 DEF ReverseArray
<1>6. ~IsArray(reversed)
  BY DEF IsArray, S, Document
<1> HIDE DEF reversed
<1>7. UnaryArg(d, reversed) = Array(Reverse(a))
  BY <1>5, <1>6 DEF UnaryArg, ValuesClosed
<1>8. Reverse(a) # <<>> /\ Head(Reverse(a)) = a[total]
  <2> DEFINE back == Reverse(a)
  <2>1. back = [i \in 1 .. total |-> a[(total - i) + 1]]
    BY DEF Reverse
  <2>2. 1 \in 1 .. total /\ (total - 1) + 1 = total
    BY <1>1
  <2>3. back[1] = a[total] /\ DOMAIN back = 1 .. total
    BY <2>1, <2>2
  <2> HIDE DEF back
  <2>4. back # <<>>
    BY <2>2, <2>3
  <2>5. Head(back) = back[1]
    <3>1. IsList(back)
      BY <1>1, <2>1, <2>3, ListFrom
    <3>2. back \in Seq({back[i] : i \in DOMAIN back})
      BY <3>1 DEF IsList
    <3> QED BY <2>4, <3>2
  <2> QED BY <2>3, <2>4, <2>5 DEF back
<1>9. Evaluate(d, S("$first", reversed)) = a[total]
  <2>1. Evaluate(d, S("$first", reversed)) = EvaluateOperator("$first", d, reversed)
    BY CallEvaluates DEF Dollar
  <2>2. EvaluateOperator("$first", d, reversed) = FirstOrLast("$first", UnaryArg(d, reversed))
    BY DEF EvaluateOperator
  <2>3. FirstOrLast("$first", Array(Reverse(a))) = Head(Reverse(a))
    BY <1>8 DEF FirstOrLast, IsArray, Array
  <2> QED BY <1>7, <1>8, <2>1, <2>2, <2>3
<1>10. Evaluate(d, S("$arrayElemAt", Array(<<x, Int32(-1)>>))) = a[total]
  <2> DEFINE index == Int32(-1)
             arg == Array(<<x, index>>)
             vs == <<v, index>>
  <2>1. IsNumeric(index) /\ AsInt(index) = -1
    BY DEF IsNumeric, AsInt, Int32
  <2>2. Evaluate(d, index) = index
    BY ConstantEvaluates DEF Int32
  <2> HIDE DEF index
  <2>3. Elements(d, arg) = vs
    BY <2>2, PairEvaluates
  <2>4. Evaluate(d, S("$arrayElemAt", arg)) = EvaluateOperator("$arrayElemAt", d, arg)
    BY CallEvaluates DEF Dollar
  <2> HIDE DEF arg
  <2>5. EvaluateOperator("$arrayElemAt", d, arg) = ArrayElemAt(vs)
    BY <2>3 DEF EvaluateOperator
  <2>6. Len(vs) = 2 /\ vs[1] = v /\ vs[2] = index
    BY TwoElements
  <2> HIDE DEF vs
  <2>7. ArrayElemAt(vs) = a[total]
    <3>1. total + (-1) \in 0 .. total - 1 /\ (total + (-1)) + 1 = total
      BY <1>1
    <3> QED BY <1>1, <2>1, <2>6, <3>1 DEF ArrayElemAt
  <2> QED BY <2>4, <2>5, <2>7 DEF arg, index
<1> QED BY <1>4, <1>9, <1>10 DEF reversed


(* The range of the size: the indexes, each of an element that is in the array. *)
LEMMA IndexesAreIn ==
  ASSUME ValuesClosed, NEW d, NEW name, IsTopLevel(name), IsWhole(Find(d, name)),
         NEW n \in ToSet(Evaluate(d, S("$range", Array(<<Int32(0), Int64(Len(Find(d, name)[2]))>>)))[2]),
         Evaluate(d, S("$arrayElemAt", Array(<<FieldRef(name), n>>))) # MinKey
  PROVE  Evaluate(d, S("$in", Array(<<S("$arrayElemAt", Array(<<FieldRef(name), n>>)), FieldRef(name)>>))) = Bool(TRUE)
<1> DEFINE v == Find(d, name)
           total == Len(v[2])
           zero == Int32(0)
           size == Int64(total)
           element == S("$arrayElemAt", Array(<<FieldRef(name), n>>))
           range == S("$range", Array(<<zero, size>>))
           vs == <<zero, size>>
<1>1. total \in Nat \ {0} /\ DOMAIN v[2] = 1 .. total /\ IsArray(v) /\ IsList(v[2]) /\ \A i \in DOMAIN v[2] : v[2][i] # Missing
  BY WholeParts DEF IsWhole
<1>2. PICK k \in 1 .. total : n = Int64(k - 1)
  <2>1. IsNumeric(zero) /\ AsInt(zero) = 0 /\ IsNumeric(size) /\ AsInt(size) = total
    BY DEF IsNumeric, AsInt, Int32, Int64
  <2>2. Evaluate(d, zero) = zero /\ Evaluate(d, size) = size
    BY ConstantEvaluates DEF Int32, Int64
  <2> HIDE DEF zero, size, total
  <2>3. Elements(d, Array(<<zero, size>>)) = vs
    BY <2>2, PairEvaluates
  <2>4. Evaluate(d, range) = EvaluateOperator("$range", d, Array(<<zero, size>>))
    BY CallEvaluates DEF Dollar
  <2>5. EvaluateOperator("$range", d, Array(<<zero, size>>)) = RangeOf(vs)
    BY <2>3 DEF EvaluateOperator
  <2>6. Len(vs) = 2 /\ vs[1] = zero /\ vs[2] = size /\ DOMAIN vs = {1, 2}
    BY TwoElements
  <2> HIDE DEF vs
  <2>7. RangeOf(vs) = Array([i \in 1 .. total |-> Int64(0 + (i - 1) * 1)])
    <3>1. \A i \in DOMAIN vs : IsNumeric(vs[i])
      BY <2>1, <2>6
    <3> DEFINE step == IF Len(vs) = 3 THEN AsInt(vs[3]) ELSE 1
               gap == AsInt(vs[2]) - AsInt(vs[1])
               stride == IF step > 0 THEN step ELSE -step
               ahead == IF step > 0 THEN gap ELSE -gap
               length == Most(0, (ahead + stride - 1) \div stride)
               start == AsInt(vs[1])
               list == [i \in 1 .. length |-> Int64(start + (i - 1) * step)]
    <3>2. step = 1 /\ gap = total /\ stride = 1 /\ ahead = total /\ start = 0
      BY <1>1, <2>1, <2>6 DEF total
    <3>3. Len(vs) \in {2, 3} /\ step # 0
      BY <2>6, <3>2
    <3>4. RangeOf(vs) = Array(list)
      BY <3>1, <3>3 DEF RangeOf
    <3> HIDE DEF step, gap, stride, ahead, start
    <3>5. length = total
      <4>1. total \in Nat
        BY <1>1 DEF total
      <4>2. total \div 1 \in Int /\ total = 1 * (total \div 1) + (total % 1) /\ total % 1 \in 0 .. 1 - 1
        BY <4>1, RemainderInRange
      <4>3. total \div 1 = total
        BY <4>1, <4>2
      <4>4. ahead + stride - 1 = total /\ stride = 1
        BY <3>2, <4>1
      <4>5. length = Most(0, total)
        BY <4>3, <4>4
      <4> QED BY <4>1, <4>5 DEF Most
    <3> HIDE DEF length
    <3>6. list = [i \in 1 .. total |-> Int64(0 + (i - 1) * 1)]
      BY <3>2, <3>5
    <3> QED BY <3>4, <3>6
  <2>8. n \in ToSet([i \in 1 .. total |-> Int64(0 + (i - 1) * 1)])
    BY <2>4, <2>5, <2>7 DEF Array, zero, size, total
  <2>9. PICK k \in 1 .. total : n = Int64(0 + (k - 1) * 1)
    BY <2>8 DEF ToSet
  <2>10. 0 + (k - 1) * 1 = k - 1
    BY <1>1
  <2> QED BY <2>9, <2>10
<1>3. Evaluate(d, element) = v[2][k]
  BY <1>1, <1>2, ElementEvaluates
<1> HIDE DEF element
<1>4. v[2][k] # MinKey /\ v[2][k] # Missing
  BY <1>1, <1>2, <1>3 DEF element
<1>5. Elements(d, Array(<<element, FieldRef(name)>>)) = <<v[2][k], v>>
  <2>1. Evaluate(d, FieldRef(name)) = v
    BY RefFinds
  <2> QED BY <1>3, <2>1, PairEvaluates
<1>6. Evaluate(d, S("$in", Array(<<element, FieldRef(name)>>))) = In(<<v[2][k], v>>)
  <2>1. Evaluate(d, S("$in", Array(<<element, FieldRef(name)>>))) =
          EvaluateOperator("$in", d, Array(<<element, FieldRef(name)>>))
    BY CallEvaluates DEF Dollar
  <2> QED BY <1>5, <2>1 DEF EvaluateOperator
<1>7. In(<<v[2][k], v>>) = Bool(TRUE)
  <2> DEFINE e == v[2][k]
             both == <<e, v>>
  <2>1. ValueEqual(e, v[2][k])
    BY <1>4 DEF ValueEqual, EqualNumbers
  <2>2. Len(both) = 2 /\ both[1] = e /\ both[2] = v
    BY TwoElements
  <2> HIDE DEF both
  <2>3. /\ Len(both) = 2
        /\ IsArray(both[2]) /\ both[1] # Missing
        /\ \E i \in DOMAIN both[2][2] : ValueEqual(both[1], both[2][2][i])
    BY <1>1, <1>2, <1>4, <2>1, <2>2
  <2> HIDE DEF e
  <2>4. In(both) = Bool(TRUE)
    BY <2>3 DEF In
  <2> QED BY <2>4 DEF both, e
<1> QED BY <1>6, <1>7 DEF element

(* An object: fields with names that come once. *)
IsTidy(v) ==
  /\ IsDocument(v) /\ v = <<v[1], v[2]>> /\ IsList(v[2]) /\ NamesOnce(v[2])
  /\ \A i \in DOMAIN v[2] : IsField(v[2][i])

(* As many names as fields: none comes twice. *)
LEMMA OnceIfAsMany ==
  ASSUME NEW s, IsList(s), Cardinality(Names(s)) = Len(s)
  PROVE  NamesOnce(s)
<1> DEFINE t == [i \in DOMAIN s |-> s[i][1]]
<1>1. Len(s) \in Nat /\ DOMAIN s = 1 .. Len(s)
  BY ListParts
<1>2. t = [i \in 1 .. Len(s) |-> t[i]] /\ {t[i] : i \in DOMAIN t} = Names(s)
  BY <1>1 DEF Names
<1>3. DOMAIN t = DOMAIN s /\ \A i \in DOMAIN s : t[i] = s[i][1]
  OBVIOUS
<1> HIDE DEF t
<1>4. IsList(t) /\ Len(t) = Len(s)
  BY <1>1, <1>2, ListFrom
<1>5. \A i, j \in DOMAIN t : t[i] = t[j] => i = j
  BY <1>2, <1>4, DistinctIfAsMany
<1> QED BY <1>3, <1>5 DEF NamesOnce

(* An object is what its list of entries makes. *)
LEMMA EntriesMakeObject ==
  ASSUME ValuesClosed, NEW d, NEW x, NEW v, Evaluate(d, x) = v, IsTidy(v)
  PROVE  Evaluate(d, S("$arrayToObject", Array(<<S("$objectToArray", x)>>))) = v
<1> DEFINE s == v[2]
           entry(i) == Document(<< <<"k", Text(s[i][1])>>, <<"v", s[i][2]>> >>)
           entries == [i \in DOMAIN s |-> entry(i)]
           call == S("$objectToArray", x)
           vs == <<Array(entries)>>
<1>1. IsDocument(v) /\ v = Document(s) /\ IsList(s) /\ \A i \in DOMAIN s : s[i] = <<s[i][1], s[i][2]>> /\ s[i][2] # Missing
  BY DEF IsTidy, IsField, IsDocument, Document
<1>2. Evaluate(d, call) = Array(entries)
  <2>1. Evaluate(d, call) = EvaluateOperator("$objectToArray", d, x)
    BY CallEvaluates DEF Dollar
  <2>2. EvaluateOperator("$objectToArray", d, x) = ObjectToArray(Value(d, x))
    BY DEF EvaluateOperator
  <2>3. ObjectToArray(v) = Array(entries)
    BY <1>1 DEF ObjectToArray
  <2> QED BY <2>1, <2>2, <2>3 DEF ValuesClosed
<1> HIDE DEF call, s
<1>3. \A i \in DOMAIN s : EntryField(entries[i]) = s[i]
  <2> SUFFICES ASSUME NEW i \in DOMAIN s PROVE EntryField(entries[i]) = s[i]
    OBVIOUS
  <2> DEFINE fields == << <<"k", Text(s[i][1])>>, <<"v", s[i][2]>> >>
  <2>1. Find(fields, "k") = Text(s[i][1])
    BY TwoFields
  <2>2. Find(fields, "v") = s[i][2]
    BY TwoFields
  <2> HIDE DEF fields
  <2>3. IsDocument(Document(fields)) /\ Document(fields)[2] = fields
    BY DEF IsDocument, Document
  <2>4. IsText(Text(s[i][1])) /\ Text(s[i][1])[2][2] = s[i][1]
    BY DEF IsText, Text
  <2>5. EntryField(Document(fields)) = <<s[i][1], s[i][2]>>
    BY <2>1, <2>2, <2>3, <2>4 DEF EntryField
  <2> QED BY <1>1, <2>5 DEF fields
<1> HIDE DEF entry
<1>4. DOMAIN entries = DOMAIN s
  OBVIOUS
<1> HIDE DEF entries
<1>5. [i \in DOMAIN entries |-> EntryField(entries[i])] = s
  <2>1. s = [i \in DOMAIN s |-> s[i]]
    BY <1>1, ListParts
  <2> QED BY <1>3, <1>4, <2>1
<1>6. Present(s) = s
  <2>1. {i \in DOMAIN s : s[i][2] # Missing} = DOMAIN s
    BY <1>1
  <2> QED BY <1>1, <2>1, PickedAll DEF Present, Selected
<1>7. Elements(d, Array(<<call>>)) = vs
  BY <1>2 DEF Elements, ValuesClosed, Array, IsArray
<1>8. Evaluate(d, S("$arrayToObject", Array(<<call>>))) = ArrayToObject(vs)
  <2>1. Evaluate(d, S("$arrayToObject", Array(<<call>>))) = EvaluateOperator("$arrayToObject", d, Array(<<call>>))
    BY CallEvaluates DEF Dollar
  <2> HIDE DEF vs
  <2> QED BY <1>7, <2>1 DEF EvaluateOperator
<1>9. Len(vs) = 1 /\ vs[1] = Array(entries)
  OBVIOUS
<1> HIDE DEF vs
<1>10. IsArray(Array(entries)) /\ Array(entries)[2] = entries
  BY DEF IsArray, Array
<1>11. ArrayToObject(vs) = Document(Present([i \in DOMAIN entries |-> EntryField(entries[i])]))
  BY <1>9, <1>10 DEF ArrayToObject
<1> QED BY <1>1, <1>5, <1>6, <1>8, <1>11 DEF call


(* A field by its name. *)
LEMMA GetFieldFinds ==
  ASSUME ValuesClosed, NEW d, NEW x, NEW v, Evaluate(d, x) = v, IsDocument(v), NEW key
  PROVE  Evaluate(d, Doc("$getField", << <<"field", Text(key)>>, <<"input", x>> >>)) = Find(v[2], key)
<1> DEFINE fields == << <<"field", Text(key)>>, <<"input", x>> >>
           arg == Document(fields)
<1>1. Names(fields) = {"field", "input"}
  BY TwoFields
<1>2. Find(fields, "field") = Text(key)
  BY TwoFields
<1>3. Find(fields, "input") = x
  BY TwoFields
<1>4. Evaluate(d, Text(key)) = Text(key)
  BY DEF Evaluate, Text, IsText, IsDocument, IsArray
<1>5. Text(key)[2][1] = 0 /\ Text(key)[2][2] = key /\ IsText(Text(key))
  BY DEF Text, IsText
<1> HIDE DEF fields
<1>6. IsDocument(arg) /\ arg[2] = fields
  BY DEF IsDocument, Document
<1> HIDE DEF arg
<1>7. EvaluateOperator("$getField", d, arg) =
        GetField(Value(d, Find(arg[2], "field")),
                 IF "input" \in Names(arg[2]) THEN Value(d, Find(arg[2], "input")) ELSE Document(d))
  BY <1>6 DEF EvaluateOperator
<1>8. Value(d, Find(arg[2], "field")) = Text(key) /\ Value(d, Find(arg[2], "input")) = v /\ "input" \in Names(arg[2])
  BY <1>1, <1>2, <1>3, <1>4, <1>6 DEF ValuesClosed
<1>9. GetField(Text(key), v) = Find(v[2], key)
  BY <1>5 DEF GetField
<1>10. Evaluate(d, S("$getField", arg)) = EvaluateOperator("$getField", d, arg)
  BY CallEvaluates DEF Dollar
<1> QED BY <1>7, <1>8, <1>9, <1>10 DEF Doc, arg, fields

(* Putting the next field of an object after those before it. *)
LEMMA PutNext ==
  ASSUME NEW s, IsList(s), NamesOnce(s), NEW m \in 0 .. Len(s) - 1
  PROVE  Put([i \in 1 .. m |-> s[i]], s[m + 1]) = [i \in 1 .. m + 1 |-> s[i]]
<1> DEFINE size == Len(s)
           part(n) == [i \in 1 .. n |-> s[i]]
<1>0. size \in Nat /\ DOMAIN s = 1 .. size
  BY ListParts
<1>1. m \in Nat /\ m + 1 \in 1 .. size
  BY <1>0, <1>0
<1>2. IsList(part(m)) /\ Len(part(m)) = m /\ DOMAIN part(m) = 1 .. m
  BY <1>1, ListFrom
<1>3. s[m + 1][1] \notin Names(part(m))
  <2> SUFFICES ASSUME NEW i \in 1 .. m, s[i][1] = s[m + 1][1] PROVE FALSE
    BY <1>2 DEF Names
  <2>1. i \in DOMAIN s /\ m + 1 \in DOMAIN s /\ i # m + 1
    BY <1>0, <1>1
  <2> QED BY <2>1 DEF NamesOnce
<1>4. Append(part(m), s[m + 1]) = part(m + 1)
  <2> DEFINE p == part(m)
             U == {p[i] : i \in DOMAIN p} \cup {s[m + 1]}
             q == Append(p, s[m + 1])
  <2>1. p \in Seq(U) /\ s[m + 1] \in U
    <3>1. p \in [1 .. m -> U]
      BY <1>2
    <3> HIDE DEF U, p
    <3>2. p \in Seq(U)
      BY <1>1, <3>1
    <3> QED BY <3>2 DEF U
  <2>2. \A i \in 1 .. m : p[i] = s[i]
    OBVIOUS
  <2> HIDE DEF U, p
  <2>3. q \in Seq(U) /\ Len(q) = m + 1 /\ (\A i \in 1 .. m : q[i] = p[i]) /\ q[m + 1] = s[m + 1]
    BY <1>1, <1>2, <2>1, AppendProperties DEF p
  <2> HIDE DEF q
  <2>4. IsList(q)
    BY <2>3, ListOf
  <2>5. IsList(part(m + 1)) /\ Len(part(m + 1)) = m + 1
    BY <1>1, ListFrom
  <2>6. DOMAIN q = 1 .. m + 1
    BY <2>3, <2>4, ListParts
  <2>7. \A i \in DOMAIN q : q[i] = part(m + 1)[i]
    <3> SUFFICES ASSUME NEW i \in 1 .. m + 1 PROVE q[i] = s[i]
      BY <2>6
    <3>1. i \in 1 .. m \/ i = m + 1
      BY <1>1
    <3> QED BY <2>2, <2>3, <3>1
  <2> HIDE DEF part
  <2>8. q = part(m + 1)
    BY <2>3, <2>4, <2>5, <2>7, EqualLists
  <2> QED BY <2>8 DEF q, p
<1> HIDE DEF part
<1> QED BY <1>3, <1>4 DEF Put, part

(* Putting a field of an object into it again. *)
LEMMA PutAgain ==
  ASSUME NEW s, IsList(s), NamesOnce(s), NEW i \in 1 .. Len(s)
  PROVE  Put(s, s[i]) = s
<1>0. DOMAIN s = 1 .. Len(s) /\ s = [j \in 1 .. Len(s) |-> s[j]]
  BY ListParts
<1>1. s[i][1] \in Names(s)
  BY <1>0 DEF Names
<1>2. \A j \in DOMAIN s : (IF s[j][1] = s[i][1] THEN s[i] ELSE s[j]) = s[j]
  BY <1>0 DEF NamesOnce
<1>3. [j \in DOMAIN s |-> IF s[j][1] = s[i][1] THEN s[i] ELSE s[j]] = s
  BY <1>0, <1>2
<1> QED BY <1>1, <1>3 DEF Put

(* The fields of the object put in, as far as they are put. *)
ArePuts(f, fields) == f = [n \in 0 .. Len(fields) |-> IF n = 0 THEN <<>> ELSE Put(f[n - 1], fields[n])]

LEMMA MergeRuns ==
  ASSUME NEW s, IsList(s), NamesOnce(s), NEW fields, fields = s \o s
  PROVE  \E f : ArePuts(f, fields)
<1> DEFINE size == Len(s)
           total == Len(fields)
           part(m) == [i \in 1 .. m |-> s[i]]
           at(m) == IF m <= size THEN part(m) ELSE s
           run == [m \in 0 .. total |-> at(m)]
           Step(f) == [n \in 0 .. total |-> IF n = 0 THEN <<>> ELSE Put(f[n - 1], fields[n])]
<1>1. size \in Nat /\ DOMAIN s = 1 .. size /\ s = [i \in 1 .. size |-> s[i]]
  BY ListParts
<1>2. total = size + size /\ \A i \in 1 .. size : fields[i] = s[i] /\ fields[size + i] = s[i]
  BY <1>1, ConcatLists
<1>3. part(0) = <<>> /\ part(size) = s
  BY <1>1
<1>4. \A m \in 0 .. size - 1 : Put(part(m), s[m + 1]) = part(m + 1)
  BY PutNext
<1>5. \A i \in 1 .. size : Put(s, s[i]) = s
  BY PutAgain
<1> HIDE DEF part, total, size
<1>6. ASSUME NEW n \in 0 .. total PROVE at(n) = IF n = 0 THEN <<>> ELSE Put(run[n - 1], fields[n])
  <2>1. CASE n = 0
    BY <1>1, <1>3, <2>1
  <2>2. ASSUME n # 0, n <= size PROVE at(n) = Put(run[n - 1], fields[n])
    <3>1. n - 1 \in 0 .. size - 1 /\ (n - 1) + 1 = n /\ n - 1 \in 0 .. total /\ n - 1 <= size /\ n \in 1 .. size
      BY <1>1, <1>2, <2>2
    <3>2. run[n - 1] = part(n - 1) /\ at(n) = part(n) /\ fields[n] = s[n]
      BY <1>2, <2>2, <3>1
    <3>3. Put(part(n - 1), s[(n - 1) + 1]) = part((n - 1) + 1)
      BY <1>4, <3>1
    <3> HIDE DEF run, at
    <3> QED BY <3>1, <3>2, <3>3
  <2>3. ASSUME ~(n <= size) PROVE at(n) = Put(run[n - 1], fields[n])
    <3>1. n - size \in 1 .. size /\ size + (n - size) = n /\ n - 1 \in 0 .. total
      BY <1>1, <1>2, <2>3
    <3>2. fields[n] = s[n - size] /\ at(n) = s
      BY <1>2, <2>3, <3>1
    <3>3. run[n - 1] = s
      <4>1. n - 1 = size \/ ~(n - 1 <= size)
        BY <1>1, <1>2, <2>3
      <4> QED BY <1>3, <3>1, <4>1
    <3> HIDE DEF run, at
    <3> QED BY <1>5, <3>1, <3>2, <3>3
  <2>4. n \in Int /\ (n = 0 => n <= size)
    BY <1>1, <1>2
  <2> HIDE DEF at, run
  <2> QED BY <2>1, <2>2, <2>3, <2>4
<1>7. run = Step(run)
  <2>1. run = [n \in 0 .. total |-> at(n)] /\ \A n \in 0 .. total : at(n) = IF n = 0 THEN <<>> ELSE Put(run[n - 1], fields[n])
    BY <1>6
  <2> HIDE DEF at, run
  <2> QED BY <2>1
<1>8. ArePuts(run, fields)
  <2> HIDE DEF run
  <2> QED BY <1>7 DEF total, ArePuts
<1> HIDE DEF run
<1> QED BY <1>8

(* Putting the fields of an object into nothing, twice, makes the object. *)
LEMMA PutsTwice ==
  ASSUME NEW s, IsList(s), NamesOnce(s), NEW fields, fields = s \o s,
         NEW merged, ArePuts(merged, fields)
  PROVE  merged[Len(fields)] = s
<1> DEFINE size == Len(s)
           total == Len(fields)
           part(m) == [i \in 1 .. m |-> s[i]]
           P == {m \in 0 .. total : merged[m] = IF m <= size THEN part(m) ELSE s}
<1>1. size \in Nat /\ DOMAIN s = 1 .. size /\ s = [i \in 1 .. size |-> s[i]]
  BY ListParts
<1>2. total = size + size /\ \A i \in 1 .. size : fields[i] = s[i] /\ fields[size + i] = s[i]
  BY <1>1, ConcatLists
<1>3. merged[0] = <<>> /\ \A n \in 1 .. total : merged[n] = Put(merged[n - 1], fields[n])
  <2>1. \A n \in 0 .. total : merged[n] = IF n = 0 THEN <<>> ELSE Put(merged[n - 1], fields[n])
    BY DEF ArePuts
  <2>2. 0 \in 0 .. total /\ 1 .. total \subseteq 0 .. total /\ \A n \in 1 .. total : n # 0
    BY <1>1, <1>2
  <2> QED BY <2>1, <2>2
<1>4. part(0) = <<>>
  OBVIOUS
<1>5. \A m \in 0 .. size - 1 : Put(part(m), s[m + 1]) = part(m + 1)
  BY PutNext
<1>6. part(size) = s
  BY <1>1
<1>7. \A i \in 1 .. size : Put(s, s[i]) = s
  BY PutAgain
<1>8. 0 \in P
  BY <1>1, <1>2, <1>3, <1>4
<1>9. ASSUME NEW m \in 0 .. total, m + 1 \in 0 .. total, m \in P PROVE m + 1 \in P
  <2>1. m + 1 \in 1 .. total /\ (m + 1) - 1 = m
    <3>1. total \in Nat
      BY <1>1, <1>2
    <3> HIDE DEF total, P
    <3> QED BY <1>9, <3>1
  <2>2. merged[m + 1] = Put(merged[m], fields[m + 1]) /\ merged[m] = IF m <= size THEN part(m) ELSE s
    BY <1>3, <1>9, <2>1
  <2>3. CASE m < size
    <3>1. m \in 0 .. size - 1 /\ m <= size /\ m + 1 <= size /\ fields[m + 1] = s[m + 1]
      BY <1>1, <1>2, <2>1, <2>3
    <3> HIDE DEF part
    <3>2. merged[m + 1] = part(m + 1)
      BY <1>5, <2>2, <3>1
    <3> QED BY <1>9, <3>1, <3>2
  <2>4. CASE m >= size
    <3>1. (m + 1) - size \in 1 .. size /\ size + ((m + 1) - size) = m + 1 /\ ~(m + 1 <= size)
      BY <1>1, <1>2, <2>1, <2>4
    <3>2. fields[m + 1] = s[(m + 1) - size]
      BY <1>2, <3>1
    <3>3. merged[m] = s
      <4>1. m = size \/ ~(m <= size)
        BY <1>1, <2>1, <2>4
      <4> HIDE DEF part
      <4> QED BY <1>6, <2>2, <4>1
    <3>4. merged[m + 1] = s
      BY <1>7, <2>2, <3>1, <3>2, <3>3
    <3> HIDE DEF part
    <3> QED BY <1>9, <3>1, <3>4
  <2> QED BY <1>1, <2>1, <2>3, <2>4
<1> HIDE DEF P
<1>10. total \in P
  <2>1. total \in Nat
    BY <1>1, <1>2
  <2>2. 0 .. total \subseteq P
    BY <1>8, <1>9, <2>1, HoldsUpTo
  <2> QED BY <2>1, <2>2
<1>11. CASE size = 0
  <2>1. total = size
    BY <1>2, <1>11
  <2> HIDE DEF part
  <2> QED BY <1>1, <1>6, <1>10, <2>1 DEF P
<1>12. CASE size # 0
  <2>1. ~(total <= size)
    BY <1>1, <1>2, <1>12
  <2> HIDE DEF part
  <2> QED BY <1>10, <2>1 DEF P
<1> QED BY <1>11, <1>12

(* Merging an object with itself changes nothing. *)
LEMMA MergesWithItself ==
  ASSUME ValuesClosed, NEW d, NEW x, NEW v, Evaluate(d, x) = v, IsTidy(v)
  PROVE  Evaluate(d, S("$mergeObjects", Array(<<x, x>>))) = v
<1> DEFINE s == v[2]
           arg == Array(<<x, x>>)
           vs == <<v, v>>
           fields == FlattenSeq([i \in DOMAIN vs |-> vs[i][2]])
           merged == CHOOSE f : f = [n \in 0 .. Len(fields) |-> IF n = 0 THEN <<>> ELSE Put(f[n - 1], fields[n])]
<1>1. IsDocument(v) /\ v = Document(s) /\ IsList(s) /\ NamesOnce(s)
  BY DEF IsTidy, IsDocument, Document
<1>2. IsArray(arg) /\ Elements(d, arg) = vs
  BY PairEvaluates
<1>3. Evaluate(d, S("$mergeObjects", arg)) = EvaluateOperator("$mergeObjects", d, arg)
  BY CallEvaluates DEF Dollar
<1> HIDE DEF arg
<1>4. Selected(vs, IsDocument) = vs
  <2>1. IsList(vs) /\ DOMAIN vs = {1, 2} /\ vs[1] = v /\ vs[2] = v
    BY TwoElements
  <2> HIDE DEF vs
  <2>2. {i \in DOMAIN vs : IsDocument(vs[i])} = DOMAIN vs
    BY <1>1, <2>1
  <2> QED BY <2>1, <2>2, PickedAll DEF Selected
<1>5. EvaluateOperator("$mergeObjects", d, arg) = MergeObjects(vs)
  <2> HIDE DEF vs
  <2> QED BY <1>2, <1>4 DEF EvaluateOperator
<1>6. fields = s \o s
  <2>1. [i \in DOMAIN vs |-> vs[i][2]] = <<s, s>>
    OBVIOUS
  <2> HIDE DEF vs
  <2> QED BY <2>1, FlattenTwo
<1>7. MergeObjects(vs) = Document(merged[Len(fields)])
  <2> HIDE DEF vs
  <2> QED BY DEF MergeObjects
<1> HIDE DEF fields, s
<1>8. \E f : ArePuts(f, fields)
  BY <1>1, <1>6, MergeRuns
<1>9. ArePuts(merged, fields)
  <2>1. merged = CHOOSE f : ArePuts(f, fields)
    BY DEF ArePuts
  <2> HIDE DEF merged
  <2> QED BY <1>8, <2>1
<1> HIDE DEF merged
<1>10. merged[Len(fields)] = s
  BY <1>1, <1>6, <1>9, PutsTwice
<1> QED BY <1>1, <1>3, <1>5, <1>7, <1>10 DEF arg


(* A present field of a well-formed document is a cell. *)
LEMMA FoundCell ==
  ASSUME IsStream(docs), NEW i \in DOMAIN docs, NEW name, Find(docs[i], name) # Missing
  PROVE  IsCell(Find(docs[i], name))
<1>1. IsList(docs[i]) /\ \A j \in DOMAIN docs[i] : IsCell(docs[i][j][2])
  BY DEF IsStream
<1>2. name \in Names(docs[i])
  BY <1>1, FindsFirst
<1> QED BY <1>1, <1>2, FindsFirst

(* The operators on arrays, on an array that is not empty. *)
ArraysAgree(d, ref, v) ==
  LET Val(expr) == Evaluate(d, expr)
      size == Val(S("$size", ref))
      parts(n) == Array(<<Call2("$slice", ref, Int32(n)),
                          S("$slice", Array(<<ref, Int32(n), size>>))>>)
      tails(n) == Array(<<S("$slice", Array(<<ref, Int32(0), Int32(Len(v[2]) - n)>>)), Call2("$slice", ref, Int32(-n))>>)
  IN  /\ \A n \in 1 .. Len(v[2]) : Val(S("$concatArrays", parts(n))) = v
      /\ \A n \in 1 .. Len(v[2]) : Val(S("$concatArrays", tails(n))) = v
      /\ Val(S("$last", ref)) = Val(S("$first", S("$reverseArray", ref)))
      /\ Val(S("$last", ref)) = Val(Call2("$arrayElemAt", ref, Int32(-1)))
      /\ \A n \in ToSet(Val(Call2("$range", Int32(0), size))[2]) :
           LET element == Call2("$arrayElemAt", ref, n)
           IN  Val(element) # MinKey => Val(Call2("$in", element, ref)) = Bool(TRUE)

LEMMA WholeArraysAgree ==
  ASSUME ValuesClosed, NEW d, NEW name, IsTopLevel(name), IsWhole(Find(d, name))
  PROVE  ArraysAgree(d, FieldRef(name), Find(d, name))
<1> DEFINE ref == FieldRef(name)
           v == Find(d, name)
           size == Int64(Len(v[2]))
<1>1. Evaluate(d, ref) = v /\ IsText(ref)
  BY RefFinds DEF FieldRef, IsText
<1>2. Evaluate(d, S("$size", ref)) = size
  BY <1>1, SizeEvaluates DEF IsWhole
<1>3. ASSUME NEW n \in ToSet(Evaluate(d, Call2("$range", Int32(0), size))[2]),
             Evaluate(d, Call2("$arrayElemAt", ref, n)) # MinKey
      PROVE  Evaluate(d, Call2("$in", Call2("$arrayElemAt", ref, n), ref)) = Bool(TRUE)
  BY <1>3, IndexesAreIn DEF Call2
<1> HIDE DEF ref, v
<1>4. IsWhole(v)
  BY DEF v
<1>5. \A n \in 1 .. Len(v[2]) : Evaluate(d, S("$concatArrays", Parts(ref, n, size))) = v
  BY <1>1, <1>4, SlicesJoin
<1>6. \A n \in 1 .. Len(v[2]) : Evaluate(d, S("$concatArrays", Tails(ref, n, Len(v[2])))) = v
  BY <1>1, <1>4, SlicesJoin
<1>7. /\ Evaluate(d, S("$last", ref)) = Evaluate(d, S("$first", S("$reverseArray", ref)))
      /\ Evaluate(d, S("$last", ref)) = Evaluate(d, Call2("$arrayElemAt", ref, Int32(-1)))
  BY <1>1, <1>4, EndsAgree DEF Call2
<1> HIDE DEF size
<1> QED BY <1>2, <1>3, <1>5, <1>6, <1>7 DEF ArraysAgree, Call2, ref, v, Parts, Tails, Cut

(* The operators on objects, on one whose names come once. *)
ObjectsAgree(d, ref, v) ==
  LET Val(expr) == Evaluate(d, expr)
  IN  /\ Val(S("$arrayToObject", Array(<<S("$objectToArray", ref)>>))) = v
      /\ Val(S("$mergeObjects", Array(<<ref, ref>>))) = v
      /\ \A key \in Names(v[2]) :
           Val(Doc("$getField", << <<"field", Text(key)>>, <<"input", ref>> >>)) = Find(v[2], key)

LEMMA TidyObjectsAgree ==
  ASSUME ValuesClosed, NEW d, NEW name, IsTopLevel(name), IsTidy(Find(d, name))
  PROVE  ObjectsAgree(d, FieldRef(name), Find(d, name))
<1> DEFINE ref == FieldRef(name)
           v == Find(d, name)
<1>1. Evaluate(d, ref) = v /\ IsTidy(v) /\ IsDocument(v)
  BY RefFinds DEF IsTidy
<1> HIDE DEF ref, v
<1>2. Evaluate(d, S("$arrayToObject", Array(<<S("$objectToArray", ref)>>))) = v
  BY <1>1, EntriesMakeObject
<1>3. Evaluate(d, S("$mergeObjects", Array(<<ref, ref>>))) = v
  BY <1>1, MergesWithItself
<1>4. ASSUME NEW key
      PROVE  Evaluate(d, Doc("$getField", << <<"field", Text(key)>>, <<"input", ref>> >>)) = Find(v[2], key)
  BY <1>1, GetFieldFinds
<1> QED BY <1>2, <1>3, <1>4 DEF ObjectsAgree, ref, v

(* The operators on arrays and on objects fit together (expression.cpp        *)
(* 703-925): two slices make up an array, its last element is found from      *)
(* either end, every index of its size is of an element $in finds; an object  *)
(* is made again from its entries, merged with itself it is what it was, and  *)
(* each of its fields is found by its name.                                   *)
THEOREM ContainersDoAgree ==
  ASSUME ValuesClosed
  PROVE  Spec => [](IsStream(docs) => ContainersAgree)
<1>1. IsStream(docs) => ContainersAgree
  <2>1. ASSUME IsStream(docs), NEW i \in DOMAIN docs, NEW name \in Fields,
               IsArray(Find(docs[i], name)), Find(docs[i], name) # Array(<<>>)
        PROVE  ArraysAgree(docs[i], FieldRef(name), Find(docs[i], name))
    <3> DEFINE v == Find(docs[i], name)
    <3>1. IsTopLevel(name)
      BY FieldsAssumption
    <3>2. IsCell(v)
      <4>1. v # Missing
        BY <2>1 DEF IsArray, Missing
      <4> QED BY <2>1, <4>1, FoundCell
    <3>3. IsWhole(v)
      <4>1. IsArray(v) /\ v # Array(<<>>) /\ v = <<v[1], v[2]>>
        BY <2>1, <3>2 DEF IsCell
      <4> HIDE DEF v
      <4>2. v[2] # <<>>
        BY <4>1 DEF Array, IsArray
      <4> QED BY <3>2, <4>1, <4>2 DEF IsCell, IsWhole
    <3> QED BY <3>1, <3>3, WholeArraysAgree
  <2>2. ASSUME IsStream(docs), NEW i \in DOMAIN docs, NEW name \in Fields,
               IsDocument(Find(docs[i], name)),
               Cardinality(Names(Find(docs[i], name)[2])) = Len(Find(docs[i], name)[2])
        PROVE  ObjectsAgree(docs[i], FieldRef(name), Find(docs[i], name))
    <3> DEFINE v == Find(docs[i], name)
    <3>1. IsTopLevel(name)
      BY FieldsAssumption
    <3>2. IsCell(v)
      <4>1. v # Missing
        BY <2>2 DEF IsDocument, Missing
      <4> QED BY <2>2, <4>1, FoundCell
    <3>3. IsTidy(v)
      <4>1. IsDocument(v) /\ Cardinality(Names(v[2])) = Len(v[2])
        BY <2>2
      <4> HIDE DEF v
      <4>2. IsList(v[2]) /\ NamesOnce(v[2])
        BY <3>2, <4>1, OnceIfAsMany DEF IsCell
      <4> QED BY <3>2, <4>1, <4>2 DEF IsCell, IsTidy
    <3> QED BY <3>1, <3>3, TidyObjectsAgree
  <2> SUFFICES ASSUME IsStream(docs) PROVE ContainersAgree
    OBVIOUS
  <2> QED BY <2>1, <2>2 DEF ContainersAgree, ArraysAgree, ObjectsAgree
<1> QED BY <1>1, PTL


-----------------------------------------------------------------------------
(* The two forms of $lookup.                                                *)

PipelinesClosed ==
  \A foreign, pipeline, bindings, owner :
    LookupPipeline(foreign, pipeline, bindings, owner) = PipelineOfLookup(foreign, pipeline, bindings, owner)
SubstitutionsClosed ==
  /\ \A v : Variables(v) = VariablesIn(v)
  /\ \A v, bindings : Substituted(v, bindings) = Substitute(v, bindings)

LEMMA SubstitutesText ==
  ASSUME NEW name, NEW b
  PROVE  /\ VariablesIn(FieldRef(name)) = {} /\ Substitute(FieldRef(name), b) = FieldRef(name)
         /\ VariablesIn(Variable(name)) = {name} /\ Substitute(Variable(name), b) = Find(b, name)
<1>1. VariablesIn(FieldRef(name)) = {} /\ Substitute(FieldRef(name), b) = FieldRef(name)
  <2> DEFINE v == FieldRef(name)
  <2>1. v[1] = "text" /\ v[2][1] = 1
    BY DEF FieldRef
  <2> HIDE DEF v
  <2>2. ~(IsText(v) /\ v[2][1] = 2) /\ ~IsDocument(v) /\ ~IsArray(v)
    BY <2>1 DEF IsText, IsDocument, IsArray
  <2>3. VariablesIn(v) = {}
    BY <2>2 DEF VariablesIn
  <2>4. Substitute(v, b) = v
    BY <2>2 DEF Substitute
  <2> QED BY <2>3, <2>4 DEF v
<1>2. VariablesIn(Variable(name)) = {name} /\ Substitute(Variable(name), b) = Find(b, name)
  <2> DEFINE v == Variable(name)
  <2>1. v[1] = "text" /\ v[2][1] = 2 /\ v[2][2] = name
    BY DEF Variable
  <2> HIDE DEF v
  <2>2. IsText(v) /\ ~IsDocument(v) /\ ~IsArray(v)
    BY <2>1 DEF IsText, IsDocument, IsArray
  <2>3. VariablesIn(v) = {name}
    BY <2>1, <2>2 DEF VariablesIn
  <2>4. Substitute(v, b) = Find(b, name)
    BY <2>1, <2>2 DEF Substitute
  <2> QED BY <2>3, <2>4 DEF v
<1> QED BY <1>1, <1>2

LEMMA SubstitutesPair ==
  ASSUME SubstitutionsClosed, NEW x, NEW y, NEW b
  PROVE  /\ VariablesIn(Array(<<x, y>>)) = VariablesIn(x) \cup VariablesIn(y)
         /\ Substitute(Array(<<x, y>>), b) = Array(<<Substitute(x, b), Substitute(y, b)>>)
<1> DEFINE v == Array(<<x, y>>)
<1>1. ~IsText(v) /\ ~IsDocument(v) /\ IsArray(v) /\ v[2] = <<x, y>>
  BY DEF Array, IsText, IsDocument, IsArray
<1> HIDE DEF v
<1>2. VariablesIn(v) = UNION {VariablesIn(v[2][i]) : i \in DOMAIN v[2]}
  BY <1>1 DEF VariablesIn, SubstitutionsClosed
<1>3. {VariablesIn(v[2][i]) : i \in DOMAIN v[2]} = {VariablesIn(x), VariablesIn(y)}
  <2> DEFINE s == <<x, y>>
  <2>1. DOMAIN s = {1, 2} /\ s[1] = x /\ s[2] = y
    BY TwoElements
  <2> HIDE DEF s
  <2> QED BY <1>1, <2>1 DEF s
<1>4. Substitute(v, b) = Array([i \in DOMAIN v[2] |-> Substitute(v[2][i], b)])
  BY <1>1 DEF Substitute, SubstitutionsClosed
<1>5. [i \in DOMAIN v[2] |-> Substitute(v[2][i], b)] = <<Substitute(x, b), Substitute(y, b)>>
  BY <1>1
<1> QED BY <1>2, <1>3, <1>4, <1>5 DEF v

LEMMA SubstitutesSingle ==
  ASSUME SubstitutionsClosed, NEW x, NEW b
  PROVE  /\ VariablesIn(Array(<<x>>)) = VariablesIn(x)
         /\ Substitute(Array(<<x>>), b) = Array(<<Substitute(x, b)>>)
<1> DEFINE v == Array(<<x>>)
<1>1. ~IsText(v) /\ ~IsDocument(v) /\ IsArray(v) /\ v[2] = <<x>>
  BY DEF Array, IsText, IsDocument, IsArray
<1> HIDE DEF v
<1>2. VariablesIn(v) = UNION {VariablesIn(v[2][i]) : i \in DOMAIN v[2]}
  BY <1>1 DEF VariablesIn, SubstitutionsClosed
<1>3. {VariablesIn(v[2][i]) : i \in DOMAIN v[2]} = {VariablesIn(x)}
  BY <1>1
<1>4. Substitute(v, b) = Array([i \in DOMAIN v[2] |-> Substitute(v[2][i], b)])
  BY <1>1 DEF Substitute, SubstitutionsClosed
<1>5. [i \in DOMAIN v[2] |-> Substitute(v[2][i], b)] = <<Substitute(x, b)>>
  BY <1>1
<1> QED BY <1>2, <1>3, <1>4, <1>5 DEF v

LEMMA SubstitutesCall ==
  ASSUME SubstitutionsClosed, NEW op, NEW x, NEW b
  PROVE  /\ VariablesIn(S(op, x)) = VariablesIn(x)
         /\ Substitute(S(op, x), b) = S(op, Substitute(x, b))
<1> DEFINE v == S(op, x)
<1>1. ~IsText(v) /\ ~IsArray(v) /\ IsDocument(v) /\ v[2] = << <<op, x>> >>
  BY DEF S, Document, IsText, IsArray, IsDocument
<1> HIDE DEF v
<1>2. VariablesIn(v) = UNION {VariablesIn(v[2][i][2]) : i \in DOMAIN v[2]}
  <2>1. VariablesIn(v) = UNION {Variables(v[2][i][2]) : i \in DOMAIN v[2]}
    BY <1>1 DEF VariablesIn
  <2>2. \A u : Variables(u) = VariablesIn(u)
    BY DEF SubstitutionsClosed
  <2> QED BY <2>1, <2>2
<1>3. {VariablesIn(v[2][i][2]) : i \in DOMAIN v[2]} = {VariablesIn(x)}
  BY <1>1
<1>4. Substitute(v, b) = Document([i \in DOMAIN v[2] |-> <<v[2][i][1], Substitute(v[2][i][2], b)>>])
  <2>1. Substitute(v, b) = Document([i \in DOMAIN v[2] |-> <<v[2][i][1], Substituted(v[2][i][2], b)>>])
    BY <1>1 DEF Substitute
  <2>2. \A u : Substituted(u, b) = Substitute(u, b)
    BY DEF SubstitutionsClosed
  <2> QED BY <2>1, <2>2
<1>5. [i \in DOMAIN v[2] |-> <<v[2][i][1], Substitute(v[2][i][2], b)>>] = << <<op, Substitute(x, b)>> >>
  BY <1>1
<1> QED BY <1>2, <1>3, <1>4, <1>5 DEF v, S

(* A pipeline of one stage is the stage. *)
LEMMA OneStageRuns ==
  ASSUME NEW start, NEW stage, NEW owner
  PROVE  RunPipeline(start, <<stage>>, owner) = RunStage(start, stage, owner)
<1> DEFINE pipeline == <<stage>>
           Step(f) == [n \in 0 .. Len(pipeline) |->
                         IF n = 0 THEN Yields(start)
                         ELSE IF f[n - 1].thrown THEN Throws
                         ELSE RunStage(f[n - 1].docs, pipeline[n], owner)]
           result == CHOOSE f : f = Step(f)
           run == [n \in 0 .. 1 |-> IF n = 0 THEN Yields(start) ELSE RunStage(start, stage, owner)]
<1>1. Len(pipeline) = 1 /\ pipeline[1] = stage
  OBVIOUS
<1>2. Yields(start).thrown = FALSE /\ Yields(start).docs = start
  BY DEF Yields
<1> HIDE DEF pipeline
<1>3. run[0] = Yields(start) /\ run[1] = RunStage(start, stage, owner) /\ run = [n \in 0 .. 1 |-> run[n]]
  OBVIOUS
<1> HIDE DEF run
<1>4. run = Step(run)
  <2>1. ASSUME NEW n \in 0 .. 1
        PROVE  run[n] = IF n = 0 THEN Yields(start)
                        ELSE IF run[n - 1].thrown THEN Throws
                        ELSE RunStage(run[n - 1].docs, pipeline[n], owner)
    <3>1. CASE n = 0
      BY <1>3, <3>1
    <3>2. CASE n = 1
      <4>1. n # 0 /\ n - 1 = 0
        BY <3>2
      <4> QED BY <1>1, <1>2, <1>3, <3>2, <4>1
    <3> QED BY <3>1, <3>2
  <2> QED BY <1>1, <1>3, <2>1
<1>5. result = Step(result)
  <2> HIDE DEF Step
  <2>1. \E f : f = Step(f)
    BY <1>4
  <2> QED BY <2>1
<1>6. RunPipeline(start, pipeline, owner) = result[Len(pipeline)]
  BY DEF RunPipeline
<1> HIDE DEF result
<1>7. result[0] = Yields(start)
  BY <1>1, <1>5
<1>8. result[1] = IF result[0].thrown THEN Throws ELSE RunStage(result[0].docs, pipeline[1], owner)
  <2>1. 1 \in 0 .. Len(pipeline) /\ 1 # 0 /\ 1 - 1 = 0
    BY <1>1
  <2>2. result[1] = IF 1 = 0 THEN Yields(start)
                    ELSE IF result[1 - 1].thrown THEN Throws
                    ELSE RunStage(result[1 - 1].docs, pipeline[1], owner)
    BY <1>5, <2>1
  <2> QED BY <2>1, <2>2
<1> QED BY <1>1, <1>2, <1>6, <1>7, <1>8 DEF pipeline

LEMMA MatchRuns ==
  ASSUME NEW stream, NEW expr, NEW owner
  PROVE  RunStage(stream, S("$match", S("$expr", expr)), owner) =
           Yields(Picked(stream, {k \in DOMAIN stream : Truthy(Evaluate(stream[k], expr))}))
<1> DEFINE filter == << <<"$expr", expr>> >>
           stage == S("$match", Document(filter))
<1>1. MatchStage(stream, filter) = Picked(stream, {k \in DOMAIN stream : Truthy(Evaluate(stream[k], expr))})
  BY ExprMatches DEF MatchStage, Selected
<1> HIDE DEF filter
<1>2. Document(filter)[2] = filter
  BY DEF Document
<1>3. IsDocument(stage) /\ Len(stage[2]) = 1 /\ stage[2][1][1] = "$match" /\ stage[2][1][2] = Document(filter)
  BY DEF S, Document, IsDocument
<1> HIDE DEF stage
<1>4. RunStage(stream, stage, owner) = Yields(MatchStage(stream, Document(filter)[2]))
  BY <1>3 DEF RunStage
<1> QED BY <1>1, <1>2, <1>4 DEF stage, filter, S

(* A comparison for equality in an expression and the join of two fields. *)
LEMMA JoinsIfEqual ==
  ASSUME ValuesClosed, NEW d, NEW name, IsTopLevel(name), NEW v, v \notin {Missing, Null}, ~IsArray(v), Evaluate(d, v) = v
  PROVE  Truthy(Evaluate(d, S("$eq", Array(<<FieldRef(name), v>>)))) <=> Joins(v, Find(d, name))
<1> DEFINE w == Find(d, name)
           arg == Array(<<FieldRef(name), v>>)
<1>1. Evaluate(d, FieldRef(name)) = w
  BY RefFinds
<1> HIDE DEF w
<1>2. CASE w = Missing
  <2> DEFINE vs == <<w, v>>
  <2>1. Elements(d, arg) = vs
    BY <1>1, PairEvaluates
  <2>2. Evaluate(d, S("$eq", arg)) = EvaluateOperator("$eq", d, arg)
    BY CallEvaluates DEF Dollar
  <2>3. Missing \in ToSet(vs)
    BY <1>2 DEF ToSet
  <2> HIDE DEF vs, arg
  <2>4. EvaluateOperator("$eq", d, arg) = Comparison("$eq", vs)
    BY <2>1 DEF EvaluateOperator
  <2>5. Comparison("$eq", vs) = Bool(FALSE)
    BY <2>3 DEF Comparison
  <2>6. ~Joins(v, w)
    BY <1>2 DEF Joins
  <2> QED BY <2>2, <2>4, <2>5, <2>6, TruthOfBool DEF arg, w
<1>3. CASE w # Missing
  <2>1. Evaluate(d, S("$eq", arg)) = Bool(ValueEqual(w, v))
    BY <1>1, <1>3, ComparisonEvaluates
  <2>2. ValueEqual(w, v) <=> ValueEqual(v, w)
    BY DEF ValueEqual, EqualNumbers
  <2>3. Joins(v, w) <=> ValueEqual(v, w)
    BY <1>3 DEF Joins
  <2>4. ValueEqual(w, v) \in BOOLEAN
    BY DEF ValueEqual, EqualNumbers
  <2> HIDE DEF arg
  <2> QED BY <2>1, <2>2, <2>3, <2>4, TruthOfBool DEF arg, w
<1> QED BY <1>2, <1>3


(* The operands of the form with a pipeline. *)
Compared(name, v) == S("$match", S("$expr", S("$eq", Array(<<FieldRef(name), v>>))))

LEMMA PipelineFields ==
  ASSUME NEW from, NEW local, NEW foreign
  PROVE  LET spec == LookupBy(from, local, foreign)
         IN  /\ Find(spec, "from") = Text(from) /\ Find(spec, "as") = Text("x")
             /\ Find(spec, "localField") = Missing /\ Find(spec, "foreignField") = Missing
             /\ Find(spec, "let") = Document(<< <<"v", FieldRef(local)>> >>)
             /\ Find(spec, "pipeline") = Array(<<Compared(foreign, Variable("v"))>>)
<1> DEFINE spec == LookupBy(from, local, foreign)
           let == Document(<< <<"v", FieldRef(local)>> >>)
           pipeline == Array(<<Compared(foreign, Variable("v"))>>)
<1>1. spec = << <<"from", Text(from)>>, <<"let", let>>, <<"pipeline", pipeline>>, <<"as", Text("x")>> >>
  BY DEF LookupBy, Compared, Doc, S
<1> HIDE DEF let, pipeline
<1>2. /\ spec = [i \in 1 .. 4 |-> spec[i]] /\ DOMAIN spec = 1 .. 4
      /\ spec[1] = <<"from", Text(from)>> /\ spec[2] = <<"let", let>>
      /\ spec[3] = <<"pipeline", pipeline>> /\ spec[4] = <<"as", Text("x")>>
  BY <1>1
<1> HIDE DEF spec
<1>3. IsList(spec)
  BY <1>2, ListFrom
<1>4. spec[1][1] = "from" /\ spec[2][1] = "let" /\ spec[3][1] = "pipeline" /\ spec[4][1] = "as"
  BY <1>2
<1>5. \A i \in DOMAIN spec : i \in {1, 2, 3, 4}
  BY <1>2
<1>6. Find(spec, "from") = spec[1][2]
  BY <1>2, <1>3, <1>4, <1>5, FindIs
<1>7. Find(spec, "let") = spec[2][2]
  BY <1>2, <1>3, <1>4, <1>5, FindIs
<1>8. Find(spec, "pipeline") = spec[3][2]
  BY <1>2, <1>3, <1>4, <1>5, FindIs
<1>9. Find(spec, "as") = spec[4][2]
  BY <1>2, <1>3, <1>4, <1>5, FindIs
<1>10. "localField" \notin Names(spec) /\ "foreignField" \notin Names(spec)
  BY <1>4, <1>5 DEF Names
<1> QED BY <1>2, <1>3, <1>6, <1>7, <1>8, <1>9, <1>10, FindsFirst DEF spec, let, pipeline

(* What a pipeline that compares with a variable finds for a document: it    *)
(* never throws.                                                             *)
LEMMA PipelineFinds ==
  ASSUME ValuesClosed, PipelinesClosed, SubstitutionsClosed,
         NEW doc, NEW from, NEW local, IsTopLevel(local), NEW foreign, NEW owner, from \in DOMAIN owner
  PROVE  LookedUp(doc, LookupBy(from, local, foreign), owner) =
           Yields(Picked(owner[from],
                         {k \in DOMAIN owner[from] :
                            Truthy(Evaluate(owner[from][k], S("$eq", Array(<<FieldRef(foreign), OrNull(Find(doc, local))>>))))}))
<1> DEFINE spec == LookupBy(from, local, foreign)
           let == << <<"v", FieldRef(local)>> >>
           v == OrNull(Find(doc, local))
           bindings == << <<"v", v>> >>
           pipeline == Array(<<Compared(foreign, Variable("v"))>>)
           list == owner[from]
           found == Picked(list, {k \in DOMAIN list : Truthy(Evaluate(list[k], S("$eq", Array(<<FieldRef(foreign), v>>))))})
<1>1. /\ Find(spec, "from") = Text(from) /\ Find(spec, "localField") = Missing
      /\ Find(spec, "let") = Document(let) /\ Find(spec, "pipeline") = pipeline
  BY PipelineFields
<1>2. /\ Text(from)[2][2] = from /\ Document(let) # Missing /\ Document(let)[2] = let /\ pipeline # Missing
  BY DEF Text, Document, Missing, Array
<1>3. Bindings(doc, let) = bindings
  <2>1. Evaluate(doc, FieldRef(local)) = Find(doc, local)
    BY RefFinds
  <2> HIDE DEF v
  <2>2. OrNull(Evaluate(doc, FieldRef(local))) = v
    BY <2>1 DEF v
  <2> QED BY <2>2 DEF Bindings
<1>4. VariablesIn(pipeline) = {"v"}
  <2>1. VariablesIn(Array(<<FieldRef(foreign), Variable("v")>>)) = {"v"}
    <3> HIDE DEF v
    <3>1. VariablesIn(FieldRef(foreign)) = {} /\ Substitute(FieldRef(foreign), bindings) = FieldRef(foreign)
      BY SubstitutesText
    <3>2. VariablesIn(Variable("v")) = {"v"} /\ Substitute(Variable("v"), bindings) = Find(bindings, "v")
      BY SubstitutesText
    <3>3. VariablesIn(Array(<<FieldRef(foreign), Variable("v")>>)) =
            VariablesIn(FieldRef(foreign)) \cup VariablesIn(Variable("v"))
      BY SubstitutesPair
    <3> QED BY <3>1, <3>2, <3>3
  <2>2. VariablesIn(Compared(foreign, Variable("v"))) = {"v"}
    BY <2>1, SubstitutesCall DEF Compared
  <2> QED BY <2>2, SubstitutesSingle
<1>5. Substitute(pipeline, bindings) = Array(<<Compared(foreign, v)>>)
  <2> HIDE DEF v
  <2>1. Find(bindings, "v") = v
    BY OneField
  <2> HIDE DEF bindings
  <2>2. Substitute(FieldRef(foreign), bindings) = FieldRef(foreign) /\ Substitute(Variable("v"), bindings) = v
    BY <2>1, SubstitutesText
  <2>3. Substitute(Array(<<FieldRef(foreign), Variable("v")>>), bindings) = Array(<<FieldRef(foreign), v>>)
    BY <2>2, SubstitutesPair
  <2>4. Substitute(Compared(foreign, Variable("v")), bindings) = Compared(foreign, v)
    BY <2>3, SubstitutesCall DEF Compared
  <2> QED BY <2>4, SubstitutesSingle
<1>6. Names(bindings) = {"v"}
  <2> HIDE DEF v
  <2> QED BY OneField
<1> HIDE DEF spec, let, bindings, pipeline, v, list
<1>7. ForeignDocs(doc, spec, owner) = list
  BY <1>1, <1>2 DEF ForeignDocs, list
<1>8. LookedUp(doc, spec, owner) = LookupPipeline(list, pipeline, bindings, owner)
  <2>1. ValueOr(Find(spec, "let"), Document(<<>>)) = Document(let)
    BY <1>1, <1>2 DEF ValueOr
  <2> QED BY <1>1, <1>2, <1>3, <1>7, <2>1 DEF LookedUp
<1>9. LookupPipeline(list, pipeline, bindings, owner) = RunPipeline(list, <<Compared(foreign, v)>>, owner)
  <2>1. LookupPipeline(list, pipeline, bindings, owner) = PipelineOfLookup(list, pipeline, bindings, owner)
    BY DEF PipelinesClosed
  <2>2. VariablesIn(pipeline) \subseteq Names(bindings)
    BY <1>4, <1>6
  <2>3. Substitute(pipeline, bindings)[2] = <<Compared(foreign, v)>>
    BY <1>5 DEF Array
  <2> QED BY <2>1, <2>2, <2>3 DEF PipelineOfLookup
<1>10. RunPipeline(list, <<Compared(foreign, v)>>, owner) = Yields(found)
  BY OneStageRuns, MatchRuns DEF Compared
<1> QED BY <1>8, <1>9, <1>10 DEF spec, list, v


(* That form is one the stage takes. *)
LEMMA PipelineIsLookup ==
  ASSUME NEW from, NEW local, NEW foreign
  PROVE  IsLookup(LookupBy(from, local, foreign)) /\ Find(LookupBy(from, local, foreign), "as")[2][2] = "x"
<1> DEFINE spec == LookupBy(from, local, foreign)
<1>1. /\ Find(spec, "from") = Text(from) /\ Find(spec, "as") = Text("x")
      /\ Find(spec, "localField") = Missing /\ Find(spec, "foreignField") = Missing
      /\ Find(spec, "let") = Document(<< <<"v", FieldRef(local)>> >>)
      /\ Find(spec, "pipeline") = Array(<<Compared(foreign, Variable("v"))>>)
  BY PipelineFields
<1>2. \A word : IsText(Text(word)) /\ Text(word)[2][2] = word
  BY DEF IsText, Text
<1>3. \A s : IsArray(Array(s)) /\ Array(s) # Missing
  BY DEF IsArray, Array, Missing
<1>4. ~IsText(Missing) /\ IsTopLevel("x")
  BY FieldsAssumption DEF IsText, Missing
<1> HIDE DEF spec
<1>5. IsLookup(spec)
  BY <1>1, <1>2, <1>3, <1>4 DEF IsLookup
<1> QED BY <1>1, <1>2, <1>5 DEF spec

LEMMA RowJoins ==
  ASSUME NEW f \in Fields, NEW g \in Fields, NEW from, NEW owner, from \in DOMAIN owner, NEW stream, NEW i \in DOMAIN stream
  PROVE  LookupStage(stream, Lookup(from, f, g), owner).docs[i] =
           WithArray(stream[i], "x",
                     Picked(owner[from], {k \in DOMAIN owner[from] : Joins(Find(stream[i], f), Find(owner[from][k], g))}))
<1>1. LookupStage(stream, Lookup(from, f, g), owner).docs =
        [j \in DOMAIN stream |->
           WithArray(stream[j], "x",
                     Picked(owner[from], {k \in DOMAIN owner[from] : Joins(Find(stream[j], f), Find(owner[from][k], g))}))]
  BY LookupYields
<1> QED BY <1>1

(* A $lookup of either form puts the same into a document. *)
LEMMA FormsAgree ==
  ASSUME ValuesClosed, PipelinesClosed, SubstitutionsClosed, NEW f \in Fields, NEW g \in Fields,
         NEW from, NEW owner, from \in DOMAIN owner, owner[from] = Others
  PROVE  SameFound(f, LookupStage(docs, Lookup(from, f, g), owner), LookupStage(docs, LookupBy(from, f, g), owner))
<1> DEFINE spec == LookupBy(from, f, g)
           byField == LookupStage(docs, Lookup(from, f, g), owner)
           byPipeline == LookupStage(docs, spec, owner)
           joined(i) == {k \in DOMAIN Others : Joins(Find(docs[i], f), Find(Others[k], g))}
           equal(i) == {k \in DOMAIN Others :
                          Truthy(Evaluate(Others[k], S("$eq", Array(<<FieldRef(g), OrNull(Find(docs[i], f))>>))))}
           found == [i \in DOMAIN docs |-> LookedUp(docs[i], spec, owner)]
<1>2. IsTopLevel(f) /\ IsTopLevel(g) /\ IsTopLevel("x")
  BY FieldsAssumption
<1>3. ASSUME NEW i \in DOMAIN docs PROVE byField.docs[i] = WithArray(docs[i], "x", Picked(Others, joined(i)))
  <2>1. byField.docs[i] =
          WithArray(docs[i], "x",
                    Picked(owner[from], {k \in DOMAIN owner[from] : Joins(Find(docs[i], f), Find(owner[from][k], g))}))
    BY RowJoins
  <2> HIDE DEF byField
  <2> QED BY <2>1
<1>4. \A i \in DOMAIN docs : LookedUp(docs[i], spec, owner) = Yields(Picked(Others, equal(i)))
  <2> SUFFICES ASSUME NEW i \in DOMAIN docs PROVE LookedUp(docs[i], spec, owner) = Yields(Picked(Others, equal(i)))
    OBVIOUS
  <2> QED BY <1>2, PipelineFinds
<1>5. IsLookup(spec) /\ Find(spec, "as")[2][2] = "x"
  BY PipelineIsLookup
<1> HIDE DEF spec, joined, equal
<1>7. byPipeline = WithFound(docs, "x", found)
  BY <1>5 DEF LookupStage
<1>8. \A i \in DOMAIN docs : found[i].thrown = FALSE /\ found[i].docs = Picked(Others, equal(i))
  BY <1>4 DEF Yields
<1> HIDE DEF found
<1>9. byPipeline = Yields([i \in DOMAIN docs |-> WithArray(docs[i], "x", found[i].docs)])
  BY <1>7, <1>8 DEF WithFound
<1> HIDE DEF byPipeline
<1>10. byPipeline.thrown = FALSE /\ byPipeline.docs = [i \in DOMAIN docs |-> WithArray(docs[i], "x", found[i].docs)]
  BY <1>9 DEF Yields
<1>11. ASSUME NEW i \in DOMAIN docs, Find(docs[i], f) \notin {Missing, Null}, ~IsArray(Find(docs[i], f)),
              \A k \in DOMAIN Others : Evaluate(Others[k], Find(docs[i], f)) = Find(docs[i], f)
       PROVE  joined(i) = equal(i)
  <2> DEFINE v == Find(docs[i], f)
  <2>1. OrNull(v) = v
    BY <1>11 DEF OrNull
  <2>2. ASSUME NEW k \in DOMAIN Others
        PROVE  Truthy(Evaluate(Others[k], S("$eq", Array(<<FieldRef(g), v>>)))) <=> Joins(v, Find(Others[k], g))
    <3>1. v \notin {Missing, Null} /\ ~IsArray(v) /\ Evaluate(Others[k], v) = v
      BY <1>11
    <3> HIDE DEF v
    <3> QED BY <1>2, <3>1, JoinsIfEqual
  <2> HIDE DEF v
  <2> QED BY <2>1, <2>2 DEF joined, equal, v
<1> HIDE DEF byField
<1>12. ASSUME NEW i \in DOMAIN docs, Find(docs[i], f) \notin {Missing, Null}, ~IsArray(Find(docs[i], f)),
              \A k \in DOMAIN Others : Evaluate(Others[k], Find(docs[i], f)) = Find(docs[i], f)
       PROVE  byField.docs[i] = byPipeline.docs[i]
  <2>1. joined(i) = equal(i)
    BY <1>11, <1>12
  <2>2. byField.docs[i] = WithArray(docs[i], "x", Picked(Others, joined(i)))
    BY <1>3
  <2>3. byPipeline.docs[i] = WithArray(docs[i], "x", Picked(Others, equal(i)))
    BY <1>8, <1>10
  <2> QED BY <2>1, <2>2, <2>3
<1>13. SameFound(f, byField, byPipeline)
  BY <1>10, <1>12 DEF SameFound
<1> QED BY <1>13 DEF byField, byPipeline, spec

(* The two forms of $lookup (lookup.cpp 66-96 and 157-266) put the same       *)
(* documents into a document, if its field is no array and no null and the    *)
(* expressions of the pipeline take its value for what it is, whatever the    *)
(* documents of the other collection hold; and the pipeline never throws.     *)
THEOREM LookupFormsDoAgree ==
  ASSUME ValuesClosed, PipelinesClosed, SubstitutionsClosed
  PROVE  Spec => []LookupFormsAgree
<1>1. LookupFormsAgree
  <2>1. "other" \in DOMAIN Owner /\ Owner["other"] = Others
    BY DEF Owner
  <2> QED BY <2>1, FormsAgree DEF LookupFormsAgree
<1> QED BY <1>1, PTL
=============================================================================
