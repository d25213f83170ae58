-------------------------------- MODULE Bson --------------------------------
(***************************************************************************)
(* BSON values and documents, and how the query engine compares and orders *)
(* them (core/src/query/value.cpp, key_order.cpp, sort.cpp).               *)
(*                                                                         *)
(* A value is a pair of a type and a payload, a document the sequence of   *)
(* its fields, each a name and a value: fields have an order and a name    *)
(* may occur twice.  Two values are the same bytes if and only if they are *)
(* the same pair, so an int32, an int64 and a double are never the same.   *)
(* Left out: dates, binary data and the other types, each compared only    *)
(* with its own kind, and paths that name a position of an array.          *)
(***************************************************************************)
EXTENDS Lists
LOCAL INSTANCE SequencesExt

CONSTANTS
  Words,     \* the texts and variable names, as a sequence in the order of their bytes
  Dotted,    \* keys with a dot in them, mapped to the names between the dots
  IntBound,  \* bound: an int64 lies in -IntBound .. IntBound - 1, and wraps around
  Scale,        \* a double counts units, so many of them in the number 1: a power of two
  Significand,  \* bound: the largest significand of a double, 2^53 - 1 in the code
  Spacings      \* bound: how far apart doubles may lie, in units: powers of two

ASSUME BsonAssumption == IntBound \in Nat \ {0, 1} /\ IsList(Words)

(* The code has 2^53 - 1 and all powers of two up to the largest double. *)
ASSUME DoublesAssumption ==
  /\ Significand \in Nat
  /\ Spacings \subseteq Nat \ {0} /\ Scale \in Spacings

Missing == <<"missing", 0>>   \* no value: never in a document
Null == <<"null", 0>>
MinKey == <<"minKey", 0>>
Bool(b) == <<"bool", b>>
Oid(n) == <<"oid", n>>
Int32(n) == <<"int32", n>>
Int64(n) == <<"int64", n>>
Array(s) == <<"array", s>>
Document(fields) == <<"document", fields>>

Double(n) == <<"double", n>>   \* so many units

(* A text begins with no $, with one, or with two. *)
Text(word) == <<"text", <<0, word>>>>
FieldRef(path) == <<"text", <<1, path>>>>
Variable(name) == <<"text", <<2, name>>>>

(* The keys that begin with a $. *)
Dollar ==
  {"$and", "$or", "$expr", "$eq", "$ne", "$gt", "$gte", "$lt", "$lte", "$in", "$nin", "$exists",
   "$set", "$unset", "$inc", "$push", "$first", "$last", "$min", "$max", "$sum", "$avg",
   "$literal", "$ifNull", "$cond", "$switch", "$not", "$add", "$subtract", "$size", "$concatArrays",
   "$slice", "$range", "$isArray", "$reverseArray", "$arrayElemAt", "$mergeObjects",
   "$objectToArray", "$arrayToObject", "$getField", "$type", "$isNumber",
   "$match", "$sort", "$skip", "$limit", "$project", "$addFields", "$group", "$count",
   "$sortByCount", "$lookup", "$replaceRoot", "$replaceWith", "$unwind"}

Wrap(n) == ((n + IntBound) % (2 * IntBound)) - IntBound

-----------------------------------------------------------------------------
(* Doubles: a significand times a spacing.  Infinities and NaN are left out, *)
(* and the two zeros are one.                                                *)

Doubles == {m * s : m \in -Significand .. Significand, s \in Spacings}

Distance(m, n) == IF m < n THEN n - m ELSE m - n

(* The doubles nearest to a fraction. *)
Nearest(a, b) == {d \in Doubles : \A e \in Doubles : Distance(b * d, a) <= Distance(b * e, a)}

(* The quotient as a double: of two that are equally near the even one. *)
Quotient(a, b) ==
  LET nearest == Nearest(a, b)
  IN  CHOOSE d \in nearest : \A e \in nearest \ {d} : e % (2 * Distance(d, e)) # 0

(* What arithmetic on doubles, and the conversion of an int64, make of a number. *)
Rounded(n) == IF n \in Doubles THEN n ELSE Quotient(n, 1)

-----------------------------------------------------------------------------
(* Types.                                                                   *)

IsArray(v) == v[1] = "array"
IsDocument(v) == v[1] = "document"
IsText(v) == v[1] = "text"
IsNumeric(v) == v[1] \in {"int32", "int64", "double"}
IsNullish(v) == v = Null

(* A number in units, whatever its type, and what bson_iter_as_double makes *)
(* of it; bson_iter_as_int64 cuts towards 0.                                *)
Units(v) == IF v[1] = "double" THEN v[2] ELSE Scale * v[2]
AsDouble(v) == IF v[1] = "double" THEN v[2] ELSE Rounded(Scale * v[2])
AsInt(v) ==
  IF v[1] # "double" THEN v[2]
  ELSE IF v[2] >= 0 THEN v[2] \div Scale ELSE -((-v[2]) \div Scale)

(* A double, or a whole number that is one: every one up to 2^53. *)
IsExact(v) == IsNumeric(v) /\ Units(v) \in Doubles

(* is_truthy_for_expr, is_truthy_expr_value, is_truthy_projection_value, is_truthy *)
IsSwitch(v) == v[1] = "bool" \/ IsNumeric(v)
IsOn(v) == IF v[1] = "bool" THEN v[2] ELSE v[2] # 0
Truthy(v) == v # Missing /\ ~IsNullish(v) /\ (IsSwitch(v) => IsOn(v))
TruthyProjection(v) == IsSwitch(v) /\ IsOn(v)

-----------------------------------------------------------------------------
(* Fields.                                                                  *)

Names(doc) == {doc[i][1] : i \in DOMAIN doc}

(* bson_iter_find: the first field of that name. *)
Find(doc, name) ==
  LET at == {i \in DOMAIN doc : doc[i][1] = name}
  IN  IF at = {} THEN Missing ELSE doc[CHOOSE i \in at : \A j \in at : i <= j][2]

(* The last field of that name. *)
FindLast(doc, name) ==
  LET at == {i \in DOMAIN doc : doc[i][1] = name}
  IN  IF at = {} THEN Missing ELSE doc[CHOOSE i \in at : \A j \in at : j <= i][2]

(* top_level_only *)
IsTopLevel(key) == key \notin DOMAIN Dotted

(* resolve_path: documents in documents. *)
ResolvePath(doc, key) ==
  IF IsTopLevel(key) THEN Find(doc, key)
  ELSE FoldLeft(LAMBDA v, name : IF IsDocument(v) THEN Find(v[2], name) ELSE Missing,
                Document(doc), Dotted[key])

Without(doc, names) == Selected(doc, LAMBDA field : field[1] \notin names)

(* Fields whose value is missing are left out. *)
Present(fields) == Selected(fields, LAMBDA field : field[2] # Missing)

-----------------------------------------------------------------------------
(* Comparison.                                                              *)

Sign(n) == IF n < 0 THEN -1 ELSE IF n > 0 THEN 1 ELSE 0

(* numeric_equal, numeric_compare: as doubles if one is a double. *)
EqualNumbers(v, w) == IF "double" \in {v[1], w[1]} THEN AsDouble(v) = AsDouble(w) ELSE v[2] = w[2]
CompareNumbers(v, w) ==
  IF "double" \in {v[1], w[1]} THEN Sign(AsDouble(v) - AsDouble(w)) ELSE Sign(v[2] - w[2])

(* MinKey and its like are not even equal to themselves. *)
ValueEqual(v, w) ==
  IF IsNumeric(v) /\ IsNumeric(w) THEN EqualNumbers(v, w) ELSE v = w /\ v # MinKey

Unordered == 2

Position(word) == IF word \in ToSet(Words) THEN CHOOSE i \in DOMAIN Words : Words[i] = word ELSE 0
CompareTexts(s, t) ==
  IF s[1] # t[1] THEN Sign(t[1] - s[1]) ELSE Sign(Position(s[2]) - Position(t[2]))

(* value_compare: an order within some types, none between types. *)
ValueCompare(v, w) ==
  CASE IsNumeric(v) /\ IsNumeric(w) -> CompareNumbers(v, w)
    [] IsText(v) /\ IsText(w) -> CompareTexts(v[2], w[2])
    [] v[1] = "oid" /\ w[1] = "oid" -> Sign(v[2] - w[2])
    [] v[1] = "bool" /\ w[1] = "bool" -> IF v = w THEN 0 ELSE IF v[2] THEN 1 ELSE -1
    [] OTHER -> Unordered

(* sort_type_rank *)
TypeRank(v) ==
  CASE v[1] = "minKey" -> 1 [] v[1] = "null" -> 2 [] IsNumeric(v) -> 3 [] IsText(v) -> 4
    [] IsDocument(v) -> 5 [] IsArray(v) -> 6 [] v[1] = "oid" -> 8 [] v[1] = "bool" -> 9
    [] OTHER -> 100

(* Mutant: a missing value is equal to every other. *)
CompareMissingAsEqual(v, w) ==
  IF Missing \in {v, w} THEN 0
  ELSE IF ValueCompare(v, w) # Unordered THEN ValueCompare(v, w)
  ELSE Sign(TypeRank(v) - TypeRank(w))

(* compare_optional_values_for_sort, ascending; descending turns it round. *)
CompareForSort(v, w) ==
  CASE v = Missing /\ w = Missing -> 0
    [] v = Missing /\ w # Missing -> IF IsNullish(w) THEN 0 ELSE -1
    [] v # Missing /\ w = Missing -> IF IsNullish(v) THEN 0 ELSE 1
    [] OTHER -> IF ValueCompare(v, w) # Unordered THEN ValueCompare(v, w)
                ELSE Sign(TypeRank(v) - TypeRank(w))

(* A direction that is no number means ascending. *)
Descends(direction) == IsNumeric(direction) /\ AsInt(direction) < 0

(* sort_less: the first path on which the documents differ decides. *)
SortLess(d, e, spec) ==
  LET Compared(i) == CompareForSort(ResolvePath(d, spec[i][1]), ResolvePath(e, spec[i][1]))
  IN  \E i \in DOMAIN spec :
        /\ Compared(i) = IF Descends(spec[i][2]) THEN 1 ELSE -1
        /\ \A j \in 1 .. i - 1 : Compared(j) = 0

(* What the order is made for.  MinKey is left out: a missing value sorts as *)
(* null does, but MinKey before null and not before a missing value.  So are *)
(* whole numbers that are no doubles: two of them differ, and may both equal *)
(* the double between them.                                                  *)
Sortable(v) ==
  \/ v = Missing \/ IsNullish(v) \/ IsDocument(v) \/ IsArray(v)
  \/ (IsExact(v) \/ v[1] = "oid") /\ v[2] \in Int
  \/ IsText(v) /\ v[2][1] \in Int
  \/ \E b \in BOOLEAN : v = Bool(b)

(* std::stable_sort: what compares alike stays in the order it came in. *)
SortOrder(docs, spec) ==
  {o \in (DOMAIN docs) \X (DOMAIN docs) :
     \/ SortLess(docs[o[1]], docs[o[2]], spec)
     \/ o[1] < o[2] /\ ~SortLess(docs[o[2]], docs[o[1]], spec)}

StableSort(docs, spec) ==
  LET order == Arranged(DOMAIN docs, SortOrder(docs, spec))
  IN  [k \in DOMAIN docs |-> docs[order[k]]]
=============================================================================
