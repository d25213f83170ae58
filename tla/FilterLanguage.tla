--------------------------- MODULE FilterLanguage ---------------------------
(***************************************************************************)
(* The filter language (core/src/query/filter.cpp): a filter is a document *)
(* whose fields must all hold.  A key that begins with $ is $and, $or or   *)
(* $expr; any other is a path, with a value or a document of operators.    *)
(* Left out: regular expressions, and the cap of 100 on nesting.           *)
(***************************************************************************)
EXTENDS Expressions
LOCAL INSTANCE SequencesExt

(* A filter within a filter: Holds(doc, filter) is Matches(doc, filter).    *)
CONSTANT Holds(_, _)

(* is_operator_doc *)
IsOperatorDoc(v) == IsDocument(v) /\ v[2] # <<>> /\ v[2][1][1] \in Dollar

(* Equality looks into an array, but not into an array in it. *)
EqualsOrContains(wanted, v) ==
  \/ ValueEqual(wanted, v)
  \/ IsArray(v) /\ \E i \in DOMAIN v[2] : ValueEqual(wanted, v[2][i])

EvalIn(wanted, v) ==
  IsArray(wanted) /\ \E i \in DOMAIN wanted[2] : EqualsOrContains(wanted[2][i], v)

EvalExists(wanted, present) ==
  LET want == IF IsNumeric(wanted) THEN AsInt(wanted) # 0 ELSE wanted = Bool(TRUE)
  IN  IF want THEN present ELSE ~present

(* Mutant: values of different types are ordered by their types. *)
OrderedByType(op, wanted, v) == CompareForSort(v, wanted) \in Verdict[op]

Ordered(op, wanted, v) == ValueCompare(v, wanted) \in Verdict[op]

(* eval_operator, on a value that may be missing *)
EvalOperator(op, wanted, v) ==
  CASE op = "$eq" -> v # Missing /\ EqualsOrContains(wanted, v)
    [] op = "$ne" -> v = Missing \/ ~EqualsOrContains(wanted, v)
    [] op \in DOMAIN Verdict -> v # Missing /\ Ordered(op, wanted, v)
    [] op = "$in" -> v # Missing /\ EvalIn(wanted, v)
    [] op = "$nin" -> v = Missing \/ ~EvalIn(wanted, v)
    [] op = "$exists" -> EvalExists(wanted, v # Missing)
    [] OTHER -> FALSE

EvalField(doc, key, clause) ==
  LET v == ResolvePath(doc, key)
  IN  IF IsOperatorDoc(clause)
      THEN \A i \in DOMAIN clause[2] : EvalOperator(clause[2][i][1], clause[2][i][2], v)
      ELSE v # Missing /\ EqualsOrContains(clause, v)

(* eval_logical: an empty array holds for neither, an element that is no    *)
(* document ends $and, and takes back what $or had found.                   *)
EvalLogical(op, clauses, doc) ==
  LET c == clauses[2]
      HoldsAt(i) == IsDocument(c[i]) /\ Holds(doc, c[i][2])
  IN  /\ IsArray(clauses) /\ c # <<>>
      /\ IF op = "$and" THEN \A i \in DOMAIN c : HoldsAt(i)
         ELSE \E i \in DOMAIN c : HoldsAt(i) /\ \A j \in i + 1 .. Len(c) : IsDocument(c[j])

(* eval_top_operator *)
EvalTopOperator(op, arg, doc) ==
  CASE op \in {"$and", "$or"} -> EvalLogical(op, arg, doc)
    [] op = "$expr" -> Truthy(Evaluate(doc, arg))
    [] OTHER -> FALSE

(* match_doc *)
Matches(doc, filter) ==
  \A i \in DOMAIN filter :
    IF filter[i][1] \in Dollar THEN EvalTopOperator(filter[i][1], filter[i][2], doc)
    ELSE EvalField(doc, filter[i][1], filter[i][2])
=============================================================================
