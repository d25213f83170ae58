---------------------------- MODULE Expressions ----------------------------
(***************************************************************************)
(* Aggregation expressions (core/src/query/expression.cpp).  An expression *)
(* is a value; Evaluate gives its value for a document, or Missing.        *)
(*                                                                         *)
(* Left out: the operators on characters ($concat, $toString, $split and   *)
(* the like), conversions, multiplication, division, roots and logarithms, *)
(* which relate no two parts of the engine, and the cap of 100 on nesting. *)
(***************************************************************************)
EXTENDS Bson
LOCAL INSTANCE SequencesExt

(* The value of an expression within an expression: Value(doc, expr) is     *)
(* Evaluate(doc, expr).  The constant stands where the code calls itself.   *)
CONSTANT Value(_, _)

-----------------------------------------------------------------------------
(* Arguments.                                                               *)

(* evaluate_array_elements *)
Elements(doc, arg) ==
  IF IsArray(arg) THEN [i \in DOMAIN arg[2] |-> Value(doc, arg[2][i])] ELSE <<>>

(* evaluate_unary_array_arg: the argument may stand in an array of its own. *)
UnaryArg(doc, arg) ==
  IF ~IsArray(arg) THEN Value(doc, arg)
  ELSE IF Len(arg[2]) = 1 THEN Value(doc, arg[2][1]) ELSE Missing

(* fold_array: the elements of an array, or the one value. *)
Folded(v) == IF v = Missing THEN <<>> ELSE IF IsArray(v) THEN v[2] ELSE <<v>>

(* The loops that add up, in doubles and in int64. *)
DoubleTotal(numbers) ==
  LET sum[n \in 0 .. Len(numbers)] == IF n = 0 THEN 0 ELSE Rounded(sum[n - 1] + AsDouble(numbers[n]))
  IN  sum[Len(numbers)]
IntTotal(numbers) ==
  LET sum[n \in 0 .. Len(numbers)] == IF n = 0 THEN 0 ELSE Wrap(sum[n - 1] + AsInt(numbers[n]))
  IN  sum[Len(numbers)]
HasDouble(numbers) == \E i \in DOMAIN numbers : numbers[i][1] = "double"

-----------------------------------------------------------------------------
(* One operator per operator, on the values vs of its arguments where it     *)
(* evaluates them all.                                                       *)

FirstOf(vs, default) == IF vs = <<>> THEN default ELSE Head(vs)
IfNull(vs) == FirstOf(Selected(vs, LAMBDA v : v # Missing /\ ~IsNullish(v)), Null)

Size(v) == IF IsArray(v) THEN Int64(Len(v[2])) ELSE Missing

(* reduce_arithmetic for $add and $subtract: int64 unless there is a double. *)
Arithmetic(op, vs) ==
  LET Signed(n, i) == IF op = "$add" \/ i = 1 THEN n ELSE -n
      doubles == [i \in DOMAIN vs |-> Double(Signed(AsDouble(vs[i]), i))]
      wholes == [i \in DOMAIN vs |-> Int64(Signed(AsInt(vs[i]), i))]
  IN  IF vs = <<>> \/ \E i \in DOMAIN vs : ~IsNumeric(vs[i]) THEN Null
      ELSE IF HasDouble(vs) THEN Double(DoubleTotal(doubles)) ELSE Int64(IntTotal(wholes))

Verdict == [op \in {"$gt", "$gte", "$lt", "$lte"} |->
              CASE op = "$gt" -> {1} [] op = "$gte" -> {0, 1}
                [] op = "$lt" -> {-1} [] op = "$lte" -> {-1, 0}]

(* Mutant: numbers of different types are never equal. *)
ComparisonOfTypes(op, vs) ==
  IF op = "$eq" THEN Bool(vs[1] = vs[2])
  ELSE IF op = "$ne" THEN Bool(vs[1] # vs[2]) ELSE Bool(ValueCompare(vs[1], vs[2]) \in Verdict[op])

Comparison(op, vs) ==
  IF Len(vs) # 2 \/ Missing \in ToSet(vs) THEN Bool(FALSE)
  ELSE CASE op = "$eq" -> Bool(ValueEqual(vs[1], vs[2]))
         [] op = "$ne" -> Bool(~ValueEqual(vs[1], vs[2]))
         [] OTHER -> Bool(ValueCompare(vs[1], vs[2]) \in Verdict[op])

(* if, then and else, in an object or in an array *)
CondParts(arg) ==
  IF IsDocument(arg) THEN <<Find(arg[2], "if"), Find(arg[2], "then"), Find(arg[2], "else")>>
  ELSE IF IsArray(arg) THEN arg[2] ELSE <<>>

Cond(doc, parts) ==
  LET test == Value(doc, parts[1])
  IN  IF Len(parts) # 3 \/ Missing \in ToSet(parts) THEN Missing
      ELSE IF test = Missing THEN Missing
      ELSE Value(doc, IF Truthy(test) THEN parts[2] ELSE parts[3])

(* Mutant: a branch whose case is missing is taken. *)
TakenUnlessFalse(doc, branch) ==
  LET case == Value(doc, Find(branch[2], "case")) IN case = Missing \/ Truthy(case)

(* A branch of $switch that is well formed and whose case holds. *)
Taken(doc, branch) ==
  /\ IsDocument(branch)
  /\ {"case", "then"} \subseteq Names(branch[2])
  /\ Truthy(Value(doc, Find(branch[2], "case")))

Switch(doc, spec) ==
  LET branches == Find(spec, "branches")
      taken == Selected(branches[2], LAMBDA branch : Taken(doc, branch))
  IN  IF ~IsArray(branches) THEN Missing
      ELSE IF taken # <<>> THEN Value(doc, Find(Head(taken)[2], "then"))
      ELSE IF "default" \in Names(spec) THEN Value(doc, Find(spec, "default"))
      ELSE Missing

Logical(op, vs) ==
  IF op = "$and" THEN Bool(\A i \in DOMAIN vs : Truthy(vs[i]))
  ELSE Bool(\E i \in DOMAIN vs : Truthy(vs[i]))

Not(doc, arg) ==
  IF IsArray(arg) THEN Bool(Len(arg[2]) = 1 /\ ~Truthy(Elements(doc, arg)[1]))
  ELSE Bool(~Truthy(Value(doc, arg)))

SumOf(numbers) ==
  IF HasDouble(numbers) THEN Double(DoubleTotal(numbers)) ELSE Int64(IntTotal(numbers))

Average(numbers) ==
  IF numbers = <<>> THEN Null ELSE Double(Quotient(DoubleTotal(numbers), Len(numbers)))

(* $min and $max pass over null; a value of another type never wins. *)
NotNull(vs) == Selected(vs, LAMBDA v : ~IsNullish(v))
Extreme(op, vs) ==
  LET wins == IF op = "$min" THEN -1 ELSE 1
  IN  IF vs = <<>> THEN Null
      ELSE FoldLeft(LAMBDA best, v : IF ValueCompare(v, best) = wins THEN v ELSE best,
                    vs[1], Tail(vs))

ConcatArrays(vs) ==
  IF \E i \in DOMAIN vs : ~IsArray(vs[i]) THEN Null
  ELSE Array(FlattenSeq([i \in DOMAIN vs |-> vs[i][2]]))

Least(m, n) == IF m <= n THEN m ELSE n
Most(m, n) == IF m >= n THEN m ELSE n

(* Mutant: a negative count takes one element too many. *)
SliceOneMore(vs) ==
  LET total == Len(vs[1][2])
      n == AsInt(vs[2])
  IN  IF n >= 0 THEN Array(SubSeq(vs[1][2], 1, Least(n, total)))
      ELSE Array(SubSeq(vs[1][2], Most(1, total + n), total))

(* [array, n]: the first n, or the last -n; [array, position, n] *)
Slice(vs) ==
  LET total == Len(vs[1][2])
      Start(at) == IF at < 0 THEN Most(0, total + at) ELSE Least(at, total)
      Cut(start, n) == Array(SubSeq(vs[1][2], start + 1, start + Most(0, Least(n, total - start))))
      n == AsInt(vs[2])
  IN  IF Len(vs) \notin {2, 3} THEN Null
      ELSE IF ~IsArray(vs[1]) \/ \E i \in 2 .. Len(vs) : ~IsNumeric(vs[i]) THEN Null
      ELSE IF Len(vs) = 3 THEN Cut(Start(n), AsInt(vs[3]))
      ELSE IF n >= 0 THEN Cut(0, n) ELSE Cut(Start(n), -n)

(* [start, end, step] *)
RangeOf(vs) ==
  LET step == IF Len(vs) = 3 THEN AsInt(vs[3]) ELSE 1
      gap == AsInt(vs[2]) - AsInt(vs[1])
      stride == IF step > 0 THEN step ELSE -step
      ahead == IF step > 0 THEN gap ELSE -gap
      size == Most(0, (ahead + stride - 1) \div stride)
  IN  IF Len(vs) \notin {2, 3} \/ \E i \in DOMAIN vs : ~IsNumeric(vs[i]) THEN Null
      ELSE IF step = 0 THEN Null
      ELSE Array([i \in 1 .. size |-> Int64(AsInt(vs[1]) + (i - 1) * step)])

In(vs) ==
  Bool(/\ Len(vs) = 2
       /\ IsArray(vs[2]) /\ vs[1] # Missing
       /\ \E i \in DOMAIN vs[2][2] : ValueEqual(vs[1], vs[2][2][i]))

FirstOrLast(op, v) ==
  IF ~IsArray(v) THEN Null
  ELSE IF v[2] = <<>> THEN Null
  ELSE IF op = "$first" THEN Head(v[2]) ELSE Last(v[2])

ReverseArray(v) == IF IsArray(v) THEN Array(Reverse(v[2])) ELSE Null

(* A negative index counts from the end; one beyond the ends gives nothing. *)
ArrayElemAt(vs) ==
  LET total == Len(vs[1][2])
      i == IF AsInt(vs[2]) < 0 THEN total + AsInt(vs[2]) ELSE AsInt(vs[2])
  IN  IF Len(vs) < 2 THEN Missing
      ELSE IF ~IsArray(vs[1]) \/ ~IsNumeric(vs[2]) THEN Missing
      ELSE IF i \in 0 .. total - 1 THEN vs[1][2][i + 1] ELSE Missing

-----------------------------------------------------------------------------
(* Objects.                                                                 *)

(* Insertion into an object that keeps one value for each name. *)
Put(doc, field) ==
  IF field[1] \in Names(doc)
  THEN [i \in DOMAIN doc |-> IF doc[i][1] = field[1] THEN field ELSE doc[i]]
  ELSE Append(doc, field)

MergeObjects(objects) ==
  LET fields == FlattenSeq([i \in DOMAIN objects |-> objects[i][2]])
      merged[n \in 0 .. Len(fields)] == IF n = 0 THEN <<>> ELSE Put(merged[n - 1], fields[n])
  IN  Document(merged[Len(fields)])

ObjectToArray(v) ==
  IF ~IsDocument(v) THEN Null
  ELSE Array([i \in DOMAIN v[2] |-> Document(<< <<"k", Text(v[2][i][1])>>, <<"v", v[2][i][2]>> >>)])

(* An entry is {k, v} or [k, v], and k begins with no $; others are passed over. *)
EntryField(entry) ==
  LET k == IF IsDocument(entry) THEN Find(entry[2], "k")
           ELSE IF IsArray(entry) /\ Len(entry[2]) >= 2 THEN entry[2][1] ELSE Missing
      v == IF IsDocument(entry) THEN Find(entry[2], "v") ELSE entry[2][2]
  IN  IF ~IsText(k) THEN <<"", Missing>> ELSE <<k[2][2], v>>

(* The array must itself stand in an array of one element. *)
ArrayToObject(vs) ==
  IF Len(vs) # 1 THEN Null
  ELSE IF ~IsArray(vs[1]) THEN Null
  ELSE Document(Present([i \in DOMAIN vs[1][2] |-> EntryField(vs[1][2][i])]))

(* {field, input}, or the name of a field of the document. *)
GetField(name, input) ==
  IF ~IsText(name) \/ ~IsDocument(input) THEN Missing
  ELSE IF name[2][1] # 0 THEN Missing ELSE Find(input[2], name[2][2])

TypeOf(v) ==
  CASE v[1] = "text" -> "string" [] v[1] = "document" -> "object"
    [] v[1] = "int32" -> "int" [] v[1] = "int64" -> "long" [] v[1] = "oid" -> "objectId"
    [] v[1] = "minKey" -> "missing" [] OTHER -> v[1]

-----------------------------------------------------------------------------

(* evaluate_operator_expression *)
EvaluateOperator(op, doc, arg) ==
  LET v == Value(doc, arg)
      vs == Elements(doc, arg)
  IN  CASE op = "$literal" -> arg
        [] op = "$ifNull" -> IfNull(vs)
        [] op = "$size" -> Size(v)
        [] op \in {"$add", "$subtract"} -> Arithmetic(op, vs)
        [] op \in {"$eq", "$ne", "$gt", "$gte", "$lt", "$lte"} -> Comparison(op, vs)
        [] op = "$cond" -> Cond(doc, CondParts(arg))
        [] op = "$switch" -> IF IsDocument(arg) THEN Switch(doc, arg[2]) ELSE Missing
        [] op \in {"$and", "$or"} -> IF IsArray(arg) THEN Logical(op, vs) ELSE Bool(FALSE)
        [] op = "$not" -> Not(doc, arg)
        [] op = "$type" -> Text(TypeOf(v))
        [] op = "$isNumber" -> Bool(IsNumeric(v))
        [] op = "$sum" -> SumOf(Selected(Folded(v), IsNumeric))
        [] op = "$avg" -> Average(Selected(Folded(v), IsNumeric))
        [] op \in {"$min", "$max"} -> Extreme(op, NotNull(Folded(v)))
        [] op = "$concatArrays" -> IF IsArray(arg) THEN ConcatArrays(vs) ELSE Null
        [] op = "$slice" -> Slice(vs)
        [] op = "$range" -> RangeOf(vs)
        [] op = "$in" -> In(vs)
        [] op = "$isArray" -> Bool(IsArray(UnaryArg(doc, arg)))
        [] op \in {"$first", "$last"} -> FirstOrLast(op, UnaryArg(doc, arg))
        [] op = "$reverseArray" -> ReverseArray(UnaryArg(doc, arg))
        [] op = "$mergeObjects" -> IF IsArray(arg) THEN MergeObjects(Selected(vs, IsDocument)) ELSE Null
        [] op = "$objectToArray" -> ObjectToArray(v)
        [] op = "$arrayToObject" -> ArrayToObject(vs)
        [] op = "$getField" ->
             IF IsDocument(arg)
             THEN GetField(Value(doc, Find(arg[2], "field")),
                           IF "input" \in Names(arg[2]) THEN Value(doc, Find(arg[2], "input")) ELSE Document(doc))
             ELSE GetField(arg, Document(doc))
        [] op = "$arrayElemAt" -> ArrayElemAt(vs)
        [] OTHER -> Missing

(* evaluate_expression: a text with one $ is a path; one with two is the    *)
(* path of a field whose name begins with $, which no document has.         *)
Evaluate(doc, expr) ==
  CASE IsText(expr) /\ expr[2][1] = 1 -> ResolvePath(doc, expr[2][2])
    [] IsText(expr) /\ expr[2][1] = 2 -> Missing
    [] IsDocument(expr) ->
         IF expr[2] # <<>> /\ expr[2][1][1] \in Dollar
         THEN EvaluateOperator(expr[2][1][1], doc, expr[2][1][2])
         ELSE Document(Present([i \in DOMAIN expr[2] |-> <<expr[2][i][1], Value(doc, expr[2][i][2])>>]))
    [] IsArray(expr) ->
         Array(Selected([i \in DOMAIN expr[2] |-> Value(doc, expr[2][i])], LAMBDA v : v # Missing))
    [] OTHER -> expr
=============================================================================
