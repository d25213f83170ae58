------------------------------- MODULE Stages -------------------------------
(***************************************************************************)
(* The aggregation pipeline (core/src/query/pipeline/, query/project.cpp): *)
(* what each stage makes of a stream of documents, a sequence.  A stage    *)
(* that throws ends the aggregation: its result has no documents.          *)
(***************************************************************************)
EXTENDS FilterLanguage
LOCAL INSTANCE SequencesExt

(* Where the code calls itself on a part: LookupPipeline(docs, pipeline,      *)
(* bindings, owner) is PipelineOfLookup, Variables is VariablesIn,            *)
(* Substituted is Substitute and SizeOf is PayloadSize.                       *)
CONSTANTS LookupPipeline(_, _, _, _), Variables(_), Substituted(_, _), SizeOf(_)

Yields(docs) == [thrown |-> FALSE, docs |-> docs]
Throws == [thrown |-> TRUE, docs |-> <<>>]

OrNull(v) == IF v = Missing THEN Null ELSE v
ValueOr(v, default) == IF v = Missing THEN default ELSE v

(* The values of an expression over a stream. *)
Evaluated(docs, expr) == [i \in DOMAIN docs |-> Evaluate(docs[i], expr)]

-----------------------------------------------------------------------------
(* $match, $sort, $skip, $limit, $count                                     *)

MatchStage(docs, filter) == Selected(docs, LAMBDA doc : Matches(doc, filter))

SkipStage(docs, n) == SubSeq(docs, Most(0, n) + 1, Len(docs))

(* A limit of 0 or below is none. *)
LimitStage(docs, n) == IF n <= 0 THEN docs ELSE SubSeq(docs, 1, Least(n, Len(docs)))

CountStage(docs, name) ==
  IF ~IsText(name) THEN Throws
  ELSE IF name[2][1] # 0 \/ ~IsTopLevel(name[2][2]) THEN Throws
  ELSE Yields(IF docs = <<>> THEN <<>> ELSE << << <<name[2][2], Int64(Len(docs))>> >> >>)

-----------------------------------------------------------------------------
(* $unwind                                                                  *)

(* clone_doc_with_replaced_field, ..without_field, ..with_array_index: the   *)
(* field and the index go to the end; a missing value or index is left out. *)
Rebuilt(doc, path, v, index, i) ==
  Without(doc, {path, index} \ {""}) \o Present(<< <<path, v>>, <<index, IF index = "" THEN Missing ELSE i>> >>)

(* Mutant: the rows come last element first. *)
UnwoundBackwards(doc, path, preserve, index) ==
  LET v == Find(doc, path)
  IN  IF ~IsArray(v) THEN <<doc>>
      ELSE Reverse([i \in DOMAIN v[2] |-> Rebuilt(doc, path, v[2][i], index, Int64(i - 1))])

(* One document per element; the rest passes, if it is no array, or if the *)
(* stage preserves it, and has the index null.                              *)
Unwound(doc, path, preserve, index) ==
  LET v == Find(doc, path)
  IN  IF v = Missing
      THEN IF ~preserve THEN <<>>
           ELSE IF index = "" THEN <<doc>> ELSE <<Append(Without(doc, {index}), <<index, Null>>)>>
      ELSE IF ~IsArray(v) THEN <<IF index = "" THEN doc ELSE Rebuilt(doc, path, v, index, Null)>>
      ELSE IF v[2] = <<>> THEN IF preserve THEN <<Rebuilt(doc, path, Missing, index, Null)>> ELSE <<>>
      ELSE [i \in DOMAIN v[2] |-> Rebuilt(doc, path, v[2][i], index, Int64(i - 1))]

UnwindStage(docs, arg) ==
  LET spec == IF IsText(arg) THEN << <<"path", arg>> >> ELSE arg[2]
      path == Find(spec, "path")
      index == Find(spec, "includeArrayIndex")
      name == IF index = Missing THEN "" ELSE index[2][2]
      preserve == Truthy(Find(spec, "preserveNullAndEmptyArrays"))
  IN  IF path = Missing THEN Throws
      ELSE IF ~IsTopLevel(path[2][2]) THEN Throws
      ELSE Yields(FlattenSeq([i \in DOMAIN docs |-> Unwound(docs[i], path[2][2], preserve, name)]))

-----------------------------------------------------------------------------
(* $project                                                                 *)

OnFields(spec) == {name \in Names(spec) \ {"_id"} : \E i \in DOMAIN spec :
                     spec[i][1] = name /\ TruthyProjection(spec[i][2])}
OffFields(spec) == {name \in Names(spec) \ {"_id"} : \E i \in DOMAIN spec :
                     spec[i][1] = name /\ ~TruthyProjection(spec[i][2])}
KeepsId(spec) == "_id" \in Names(spec) => TruthyProjection(FindLast(spec, "_id"))
IdOf(doc, spec) == IF KeepsId(spec) THEN Present(<< <<"_id", Find(doc, "_id")>> >>) ELSE <<>>

(* project: fields that are wanted in the order of the specification, after *)
(* the _id; what is left when fields are not wanted in its own order.        *)
Project(doc, spec) ==
  LET on == OnFields(spec)
      off == OffFields(spec)
  IN  CASE spec = <<>> \/ (on # {} /\ off # {}) -> doc
        [] on # {} /\ off = {} ->
             IdOf(doc, spec) \o
             Present([i \in DOMAIN spec |->
                        <<spec[i][1], IF spec[i][1] = "_id" THEN Missing ELSE Find(doc, spec[i][1])>>])
        [] OTHER -> Selected(doc, LAMBDA field : IF field[1] = "_id" THEN KeepsId(spec)
                                                  ELSE field[1] \notin off)

(* Mutant: a computed projection drops the _id unless it is asked for. *)
ComputedWithoutId(doc, spec) ==
  Present([i \in DOMAIN spec |-> <<spec[i][1], IF TruthyProjection(spec[i][2]) THEN ResolvePath(doc, spec[i][1])
                                               ELSE Evaluate(doc, spec[i][2])>>])

Computed(doc, spec) ==
  LET Wanted(name, v) == IF name = "_id" THEN Missing
                         ELSE IF TruthyProjection(v) THEN ResolvePath(doc, name) ELSE Evaluate(doc, v)
  IN  IdOf(doc, spec) \o Present([i \in DOMAIN spec |-> <<spec[i][1], Wanted(spec[i][1], spec[i][2])>>])

(* clone_doc_with_projection, over a stream *)
ProjectStage(docs, spec) ==
  LET others == Selected(spec, LAMBDA field : field[1] # "_id")
      plain == \A i \in DOMAIN others : IsSwitch(others[i][2])
      mixed == \E i \in DOMAIN others : IsSwitch(others[i][2]) /\ ~IsOn(others[i][2])
  IN  IF plain THEN Yields([i \in DOMAIN docs |-> Project(docs[i], spec)])
      ELSE IF docs # <<>> /\ (mixed \/ \E name \in Names(others) : ~IsTopLevel(name)) THEN Throws
      ELSE Yields([i \in DOMAIN docs |-> Computed(docs[i], spec)])

-----------------------------------------------------------------------------
(* $set, $addFields, $unset, $replaceRoot, $replaceWith                     *)

(* Mutant: a value that is missing is set as well. *)
AddFieldsMissingToo(doc, spec) == doc \o [i \in DOMAIN spec |-> <<spec[i][1], Evaluate(doc, spec[i][2])>>]

(* Every field is copied and the new ones are appended, whatever the names: *)
(* a field that is set anew stands twice in the document, the old one first. *)
AddFields(doc, spec) ==
  doc \o Present([i \in DOMAIN spec |-> <<spec[i][1], Evaluate(doc, spec[i][2])>>])

AddFieldsStage(docs, spec) ==
  IF docs # <<>> /\ \E name \in Names(spec) : ~IsTopLevel(name) THEN Throws
  ELSE Yields([i \in DOMAIN docs |-> AddFields(docs[i], spec)])

UnsetStage(docs, arg) ==
  LET fields == IF IsArray(arg) THEN arg[2] ELSE <<arg>>
  IN  IF \E i \in DOMAIN fields : ~IsText(fields[i]) THEN Throws
      ELSE IF \E i \in DOMAIN fields : ~IsTopLevel(fields[i][2][2]) THEN Throws
      ELSE Yields([i \in DOMAIN docs |-> Without(docs[i], {fields[k][2][2] : k \in DOMAIN fields})])

(* The documents that take the place of those of the stream. *)
Roots(values) ==
  IF \E i \in DOMAIN values : ~IsDocument(values[i]) THEN Throws
  ELSE Yields([i \in DOMAIN values |-> values[i][2]])

ReplaceRootStage(docs, expr) == Roots(Evaluated(docs, expr))

-----------------------------------------------------------------------------
(* $group, $sortByCount                                                     *)

Accumulators == {"$sum", "$avg", "$first", "$last", "$push", "$min", "$max"}

(* Where the engine has no order it compares the bytes of {v: value}: the     *)
(* length of the value, then its type, then its content, which the model       *)
(* does not tell apart: two documents of one length are alike, or two arrays.  *)
TypeByte == [double |-> 1, text |-> 2, document |-> 3, array |-> 4, oid |-> 7, bool |-> 8,
             null |-> 10, int32 |-> 16, int64 |-> 18, minKey |-> 255]

PayloadSize(v) ==
  LET Framed(sizes) == FoldLeft(LAMBDA sum, size : sum + size, 5, sizes)
  IN  CASE v[1] \in {"null", "minKey"} -> 0 [] v[1] = "bool" -> 1 [] v[1] = "int32" -> 4
        [] v[1] \in {"int64", "double"} -> 8 [] v[1] = "oid" -> 12
        [] IsText(v) -> 5 + v[2][1] + Len(v[2][2])
        [] IsDocument(v) -> Framed([i \in DOMAIN v[2] |-> 2 + Len(v[2][i][1]) + SizeOf(v[2][i][2])])
        [] IsArray(v) -> Framed([i \in DOMAIN v[2] |-> 3 + SizeOf(v[2][i])])

(* compare_wrapped_values *)
CompareWrapped(v, w) ==
  IF ValueEqual(v, w) THEN 0
  ELSE IF ValueCompare(v, w) # Unordered THEN ValueCompare(v, w)
  ELSE IF PayloadSize(v) # PayloadSize(w) THEN Sign(PayloadSize(v) - PayloadSize(w))
  ELSE Sign(TypeByte[v[1]] - TypeByte[w[1]])

Winner(values, sign) ==
  FoldLeft(LAMBDA best, v : IF CompareWrapped(v, best) = sign THEN v ELSE best, values[1], Tail(values))

IsPresent(v) == v # Missing

(* Mutant: $avg divides by the number of documents. *)
AccumulateOverAll(op, all) ==
  LET total == DoubleTotal(Selected(Selected(all, IsPresent), IsNumeric))
  IN  CASE op = "$sum" -> Double(total)
        [] op = "$avg" -> Double(Quotient(total, Len(all)))
        [] OTHER -> Array(Selected(all, IsPresent))

(* One accumulator over the values of its expression for the documents of a *)
(* group, which are never none.                                              *)
Accumulate(op, all) ==
  LET values == Selected(all, IsPresent)
      numbers == Selected(values, IsNumeric)
  IN  CASE op = "$sum" -> Double(DoubleTotal(numbers))
        [] op = "$avg" -> Average(numbers)
        [] op = "$first" -> OrNull(Head(all))
        [] op = "$last" -> OrNull(Last(all))
        [] op = "$push" -> Array(values)
        [] op = "$min" -> IF values = <<>> THEN Null ELSE Winner(values, -1)
        [] op = "$max" -> IF values = <<>> THEN Null ELSE Winner(values, 1)

(* An _id that is neither a path nor an operator is taken for a constant, *)
(* and evaluated on an empty document, whatever paths are in it.          *)
IsConstantKey(expr) == ~(IsText(expr) /\ expr[2][1] > 0) /\ ~IsOperatorDoc(expr)

GroupKey(doc, expr) == OrNull(Evaluate(IF IsConstantKey(expr) THEN <<>> ELSE doc, expr))

(* The values of a sequence, as they are first seen. *)
FirstSeen(values) ==
  Picked(values, {i \in DOMAIN values : \A j \in 1 .. i - 1 : values[j] # values[i]})

(* Mutant: only neighbours are grouped together. *)
FirstRunOfGroup(docs, expr, key) ==
  Selected(docs, LAMBDA doc : GroupKey(doc, expr) = key /\ GroupKey(docs[1], expr) = key)

GroupOf(docs, expr, key) == Selected(docs, LAMBDA doc : GroupKey(doc, expr) = key)

(* The _id, and an accumulator {op: expr} for each field. *)
GroupRow(key, group, fields) ==
  << <<"_id", key>> >> \o
  [i \in DOMAIN fields |->
     <<fields[i][1], Accumulate(fields[i][2][2][1][1], Evaluated(group, fields[i][2][2][1][2]))>>]

GroupRows(docs, expr, fields, keys) ==
  [k \in DOMAIN keys |-> GroupRow(keys[k], GroupOf(docs, expr, keys[k]), fields)]

GroupStage(docs, spec) ==
  LET expr == Find(spec, "_id")
      fields == Without(spec, {"_id"})
  IN  IF expr = Missing \/ \E i \in DOMAIN fields : ~IsDocument(fields[i][2]) THEN Throws
      ELSE IF \E i \in DOMAIN fields : Names(fields[i][2][2]) = {} THEN Throws
      ELSE IF \E i \in DOMAIN fields : fields[i][2][2][1][1] \notin Accumulators THEN Throws
      ELSE Yields(GroupRows(docs, expr, fields, FirstSeen([i \in DOMAIN docs |-> GroupKey(docs[i], expr)])))

CountRows(keys, seen) ==
  StableSort([k \in DOMAIN seen |->
                << <<"_id", seen[k]>>, <<"count", Int64(Cardinality({i \in DOMAIN keys : keys[i] = seen[k]}))>> >>],
             << <<"count", Int32(-1)>> >>)

CountKeys(keys) == CountRows(keys, FirstSeen(keys))

(* The keys of $sortByCount are evaluated on the document always. *)
SortByCountStage(docs, expr) == CountKeys([i \in DOMAIN docs |-> OrNull(Evaluate(docs[i], expr))])

-----------------------------------------------------------------------------
(* $lookup.  "owner" maps the names of collections to their documents.       *)

(* Mutant: a foreign document without the field joins with nothing. *)
JoinsPresentOnly(v, w) ==
  w # Missing /\ IF IsArray(v) THEN \E i \in DOMAIN v[2] : ValueEqual(v[2][i], w) ELSE ValueEqual(OrNull(v), w)

(* local_matches_foreign: a value missing here or there joins with null. *)
Joins(v, w) ==
  CASE v = Missing -> w \in {Missing, Null}
    [] IsArray(v) -> \E i \in DOMAIN v[2] : IF w = Missing THEN v[2][i] = Null ELSE ValueEqual(v[2][i], w)
    [] OTHER -> IF w = Missing THEN v = Null ELSE ValueEqual(v, w)

(* build_lookup_bindings *)
Bindings(doc, let) == [i \in DOMAIN let |-> <<let[i][1], OrNull(Evaluate(doc, let[i][2]))>>]

(* The foreign documents for one document. *)
ForeignDocs(doc, spec, owner) ==
  LET docs == IF Find(spec, "from")[2][2] \in DOMAIN owner THEN owner[Find(spec, "from")[2][2]] ELSE <<>>
      v == ResolvePath(doc, Find(spec, "localField")[2][2])
  IN  IF Find(spec, "localField") = Missing THEN docs
      ELSE Selected(docs, LAMBDA d : Joins(v, ResolvePath(d, Find(spec, "foreignField")[2][2])))

LookedUp(doc, spec, owner) ==
  LET let == ValueOr(Find(spec, "let"), Document(<<>>))
      pipeline == Find(spec, "pipeline")
      docs == ForeignDocs(doc, spec, owner)
  IN  IF pipeline = Missing THEN Yields(docs)
      ELSE LookupPipeline(docs, pipeline, Bindings(doc, let[2]), owner)

(* localField and foreignField come together, or there is a pipeline. *)
IsLookup(spec) ==
  LET given == {name \in {"from", "as", "localField", "foreignField"} : IsText(Find(spec, name))}
  IN  /\ {"from", "as"} \subseteq given
      /\ IsTopLevel(Find(spec, "as")[2][2])
      /\ Find(spec, "pipeline") # Missing => IsArray(Find(spec, "pipeline"))
      /\ Find(spec, "pipeline") = Missing => {"localField", "foreignField"} \cap given # {}
      /\ "localField" \in given <=> "foreignField" \in given

(* clone_doc_with_array_field: the field goes to the end. *)
WithArray(doc, name, docs) ==
  Append(Without(doc, {name}), <<name, Array([k \in DOMAIN docs |-> Document(docs[k])])>>)

WithFound(docs, name, found) ==
  IF \E i \in DOMAIN docs : found[i].thrown THEN Throws
  ELSE Yields([i \in DOMAIN docs |-> WithArray(docs[i], name, found[i].docs)])

LookupStage(docs, spec, owner) ==
  IF ~IsLookup(spec) THEN Throws
  ELSE WithFound(docs, Find(spec, "as")[2][2], [i \in DOMAIN docs |-> LookedUp(docs[i], spec, owner)])

-----------------------------------------------------------------------------

(* One turn of the loop of run_pipeline. *)
RunStage(docs, stage, owner) ==
  LET op == stage[2][1][1]
      arg == stage[2][1][2]
  IN  IF ~IsDocument(stage) THEN Throws
      ELSE IF Len(stage[2]) # 1 THEN Throws
      ELSE CASE op = "$match" -> Yields(MatchStage(docs, arg[2]))
             [] op = "$sort" -> Yields(StableSort(docs, arg[2]))
             [] op = "$skip" -> Yields(SkipStage(docs, AsInt(arg)))
             [] op = "$limit" -> Yields(LimitStage(docs, AsInt(arg)))
             [] op = "$project" -> ProjectStage(docs, arg[2])
             [] op \in {"$set", "$addFields"} -> AddFieldsStage(docs, arg[2])
             [] op = "$unset" -> UnsetStage(docs, arg)
             [] op = "$group" -> GroupStage(docs, arg[2])
             [] op = "$count" -> CountStage(docs, arg)
             [] op = "$sortByCount" -> Yields(SortByCountStage(docs, arg))
             [] op = "$lookup" -> LookupStage(docs, arg[2], owner)
             [] op = "$replaceRoot" ->
                  IF ~IsDocument(arg) THEN Throws
                  ELSE IF "newRoot" \notin Names(arg[2]) THEN Throws
                  ELSE ReplaceRootStage(docs, Find(arg[2], "newRoot"))
             [] op = "$replaceWith" -> ReplaceRootStage(docs, arg)
             [] op = "$unwind" -> UnwindStage(docs, arg)
             [] OTHER -> Throws

(* run_pipeline: what throws ends it. *)
RunPipeline(start, pipeline, owner) ==
  LET result[n \in 0 .. Len(pipeline)] ==
        IF n = 0 THEN Yields(start)
        ELSE IF result[n - 1].thrown THEN Throws
        ELSE RunStage(result[n - 1].docs, pipeline[n], owner)
  IN  result[Len(pipeline)]

-----------------------------------------------------------------------------
(* The pipeline of a $lookup.                                               *)

(* The names of the variables in a value. *)
VariablesIn(v) ==
  CASE IsText(v) /\ v[2][1] = 2 -> {v[2][2]}
    [] IsDocument(v) -> UNION {Variables(v[2][i][2]) : i \in DOMAIN v[2]}
    [] IsArray(v) -> UNION {Variables(v[2][i]) : i \in DOMAIN v[2]}
    [] OTHER -> {}

(* append_substituted_value: $$name becomes the value bound to it, wherever *)
(* it stands, in a pipeline within the pipeline too.                        *)
Substitute(v, bindings) ==
  CASE IsText(v) /\ v[2][1] = 2 -> Find(bindings, v[2][2])
    [] IsDocument(v) -> Document([i \in DOMAIN v[2] |-> <<v[2][i][1], Substituted(v[2][i][2], bindings)>>])
    [] IsArray(v) -> Array([i \in DOMAIN v[2] |-> Substituted(v[2][i], bindings)])
    [] OTHER -> v

(* Every variable has to be bound. *)
PipelineOfLookup(foreign, pipeline, bindings, owner) ==
  IF ~(VariablesIn(pipeline) \subseteq Names(bindings)) THEN Throws
  ELSE RunPipeline(foreign, Substitute(pipeline, bindings)[2], owner)
=============================================================================
