----------------------------- MODULE Documents -----------------------------
(***************************************************************************)
(* Documents as the query engine sees them: which documents a filter       *)
(* matches (core/src/query/filter.cpp), how values compare (value.cpp,     *)
(* key_order.cpp, sort.cpp), and the keys a document has in an index       *)
(* (extract_component and expand_doc_keys of core/src/index/manager.cpp).  *)
(*                                                                         *)
(* A document maps every path to a field; a field is absent, one value or  *)
(* an array, of which only the set of elements matters.  Values are        *)
(* integers in the order of the index: null, then numbers, then texts.     *)
(* Nested arrays, other types and the operators $in, $nin, $exists, $and,  *)
(* $or and $expr, which no plan uses, are left out.                        *)
(***************************************************************************)
EXTENDS Lists

Nullish == 0
FirstText == 10
RegexValue == 90   \* a regular expression used as a value: no document has one
ArrayRank == 100   \* arrays sort behind every value, and are equal to each other

Absent == [kind |-> "absent", of |-> {}]
One(v) == [kind |-> "one", of |-> {v}]
Array(s) == [kind |-> "array", of |-> s]

-----------------------------------------------------------------------------
(* Filters: a partial function from paths to clauses, which must all hold. *)

Eq(v) == [op |-> "eq", key |-> v]
Ne(v) == [op |-> "ne", key |-> v]
Regex(texts) == [op |-> "regex", key |-> RegexValue, texts |-> texts]

(* $gt, $gte, $lt, $lte, tightened to one bound on each side. *)
NoBound == [key |-> -1, inclusive |-> TRUE]
Bound(v, inclusive) == [key |-> v, inclusive |-> inclusive]
Between(low, high) == [op |-> "range", low |-> low, high |-> high]

(* value_compare gives an order within a type, and none between types. *)
Comparable(v, w) ==
  /\ v # Nullish /\ w # Nullish
  /\ v < FirstText <=> w < FirstText

AboveLow(v, low) == v > low.key \/ (v = low.key /\ low.inclusive)
BelowHigh(v, high) == v < high.key \/ (v = high.key /\ high.inclusive)

(* Equality looks into an array; order and regular expressions do not.      *)
EvalField(clause, field) ==
  CASE clause.op = "eq" -> clause.key \in field.of
    [] clause.op = "ne" -> clause.key \notin field.of
    [] clause.op = "regex" -> field.kind = "one" /\ field.of \subseteq clause.texts
    [] clause.op = "range" ->
         /\ field.kind = "one"
         /\ \A v \in field.of :
              /\ clause.low # NoBound => Comparable(v, clause.low.key) /\ AboveLow(v, clause.low)
              /\ clause.high # NoBound => Comparable(v, clause.high.key) /\ BelowHigh(v, clause.high)

MatchesFilter(doc, filter) == \A p \in DOMAIN filter : EvalField(filter[p], doc[p])

-----------------------------------------------------------------------------
(* Sort order: a sequence of paths, each ascending or descending.           *)

SortValue(doc, path) ==
  CASE doc[path].kind = "absent" -> Nullish
    [] doc[path].kind = "array" -> ArrayRank
    [] doc[path].kind = "one" -> CHOOSE v \in doc[path].of : TRUE

SortValues(doc, sort) == [i \in DOMAIN sort |-> SortValue(doc, sort[i].path)]

(* sort_less: the first path on which the documents differ decides. *)
SortLess(d, e, sort) ==
  LET v == SortValues(d, sort)
      w == SortValues(e, sort)
  IN  \E i \in DOMAIN sort :
        /\ \A j \in 1 .. i - 1 : v[j] = w[j]
        /\ IF sort[i].ascending THEN v[i] < w[i] ELSE v[i] > w[i]

-----------------------------------------------------------------------------
(* Index keys: one value per path.                                          *)

(* Mutant: an array does not end ordered reads of its index. *)
NoArrayMatters(doc, paths) == FALSE

HasArray(doc, paths) == \E i \in DOMAIN paths : doc[paths[i]].kind = "array"

(* An absent field and an empty array are indexed like null. *)
ComponentValues(field) == IF field.of = {} THEN {Nullish} ELSE field.of

(* The combinations of the paths' values; none with more than one array. *)
KeysOf(doc, paths) ==
  LET values == [i \in DOMAIN paths |-> ComponentValues(doc[paths[i]])]
      arrays == {i \in DOMAIN paths : doc[paths[i]].kind = "array"}
  IN  IF Cardinality(arrays) > 1 THEN {}
      ELSE {k \in [DOMAIN paths -> UNION {values[i] : i \in DOMAIN paths}] :
              \A i \in DOMAIN paths : k[i] \in values[i]}
=============================================================================
