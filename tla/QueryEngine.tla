----------------------------- MODULE QueryEngine -----------------------------
(***************************************************************************)
(* One collection that is written through filters and updates and read by  *)
(* aggregations.  Writes are the calls of MemoryCollection with the filter *)
(* language and the update engine of the code in the place of parameters;  *)
(* an aggregation takes a snapshot of the documents (memory.cpp) and runs  *)
(* one stage after another over it (pipeline/dispatch.cpp).                *)
(*                                                                         *)
(* The laws relate parts of the query engine that are coded apart.  They   *)
(* are checked on every document that the writes can make and on every     *)
(* stream that the stages can make of those.                               *)
(***************************************************************************)
EXTENDS UpdateEngine, Stages
LOCAL INSTANCE SequencesExt

CONSTANTS
  Calls,      \* the write calls
  Pool,       \* the stages an aggregation may consist of
  Others,     \* the documents of another collection of the database
  Probes,     \* the values the laws compare fields with
  Fields,     \* the fields the laws read
  MaxWrites,  \* bound: write calls
  MaxStages   \* bound: stages of one aggregation

ASSUME BoundsAssumption == MaxWrites \in Nat /\ MaxStages \in Nat

(* The laws are about fields of a document, not of a document in it, and    *)
(* let stages put what they find into fields x, a and count.                 *)
ASSUME FieldsAssumption ==
  /\ \A name \in Fields : IsTopLevel(name) /\ name \notin Dollar /\ name # ""
  /\ IsTopLevel("x") /\ IsTopLevel("a") /\ IsTopLevel("count")
  /\ Missing \notin Probes

(* What the binding makes of a JavaScript object: fields with values, and   *)
(* numbers that fit their types.                                             *)
FitsWidth(v) ==
  /\ v[1] \in {"int32", "int64"} => v[2] \in -IntBound .. IntBound - 1
  /\ v[1] = "double" => v[2] \in Doubles
IsObject(fields) ==
  IsList(fields) /\ \A i \in DOMAIN fields : fields[i][2] # Missing /\ FitsWidth(fields[i][2])

(* What an aggregation runs over: documents whose fields have values, and    *)
(* whose arrays are lists of values, and whose numbers are whole (a double    *)
(* counts units).                                                            *)
IsField(field) == field = <<field[1], field[2]>> /\ field[2] # Missing
IsCell(v) ==
  /\ v # Missing
  /\ IsNumeric(v) => v[2] \in Int
  /\ v = <<v[1], v[2]>>
  /\ IsArray(v) => IsList(v[2]) /\ \A i \in DOMAIN v[2] : v[2][i] # Missing
  /\ IsDocument(v) => IsList(v[2]) /\ \A i \in DOMAIN v[2] : IsField(v[2][i])
IsStream(stream) ==
  /\ IsList(stream)
  /\ \A i \in DOMAIN stream : IsList(stream[i]) /\ \A j \in DOMAIN stream[i] : IsCell(stream[i][j][2])

ASSUME OthersAssumption == IsStream(Others)

NamesOnce(doc) == \A i, j \in DOMAIN doc : doc[i][1] = doc[j][1] => i = j

ASSUME CallsAssumption ==
  \A call \in Calls :
    \/ /\ call.op = "insert"
       /\ IsList(call.docs)
       /\ \A i \in DOMAIN call.docs : IsObject(call.docs[i])
    \/ call.op = "erase"
    \/ /\ call.op = "update"
       /\ \A object \in {call.filter, call.spec} : IsObject(object) /\ NamesOnce(object)
       /\ \A op \in Operators : \A i \in Operands(call.spec, op) : IsObject(call.spec[i][2][2])

VARIABLES
  mem,     \* the collection, a value of MemoryCollection
  writes,  \* how many calls have written
  phase,   \* "idle", or an aggregation is "running" or has "thrown"
  docs,    \* its stream
  ran      \* how many of its stages have run

vars == <<mem, writes, phase, docs, ran>>

NoKeys(doc, paths) == {}
Coll == INSTANCE MemoryCollection WITH
  Docs <- {}, Filters <- {}, Specs <- {}, Oids <- Nat, IndexNames <- {"_id_"}, KeyPaths <- {<<"_id">>},
  Matches <- Matches, ApplyUpdate <- ApplyUpdate, SeedUpsert <- SeedUpsert, DocKeys <- NoKeys

(* Generated ObjectIds are numbered like the records that get them. *)
Exec(m, call) == Coll!Exec(m, call, m.next)

(* snapshot_live_docs *)
LiveDocs(m) ==
  LET slots == Selected([i \in 1 .. m.end |-> i], LAMBDA i : i \in DOMAIN m.docs)
  IN  [k \in DOMAIN slots |-> m.docs[slots[k]].doc]

Owner == [main |-> LiveDocs(mem), other |-> Others]

(* What the collection is after every write. *)
IsStored(m) ==
  /\ m = [docs |-> m.docs, end |-> m.end, next |-> m.next, idx |-> m.idx]
  /\ m.end \in Nat
  /\ DOMAIN m.docs \subseteq 1 .. m.end
  /\ \A i \in DOMAIN m.docs : IsObject(m.docs[i].doc)

-----------------------------------------------------------------------------

Performs(call) == mem' = Exec(mem, call).mem

Write ==
  /\ phase = "idle"
  /\ writes < MaxWrites
  /\ \E call \in Calls : Performs(call)
  /\ writes' = writes + 1
  /\ UNCHANGED <<phase, docs, ran>>

Aggregate ==
  /\ phase = "idle"
  /\ phase' = "running"
  /\ docs' = LiveDocs(mem)
  /\ UNCHANGED <<mem, writes, ran>>

Stage ==
  /\ phase = "running"
  /\ ran < MaxStages
  /\ \E stage \in Pool : \E result \in {RunStage(docs, stage, Owner)} :
       /\ phase' = IF result.thrown THEN "thrown" ELSE "running"
       /\ docs' = result.docs
  /\ ran' = ran + 1
  /\ UNCHANGED <<mem, writes>>

Return ==
  /\ phase \in {"running", "thrown"}
  /\ phase' = "idle"
  /\ docs' = <<>>
  /\ ran' = 0
  /\ UNCHANGED <<mem, writes>>

Init ==
  /\ mem = Coll!Fresh
  /\ writes = 0
  /\ phase = "idle"
  /\ docs = <<>>
  /\ ran = 0

Next ==
  \/ Write
  \/ Aggregate
  \/ Stage
  \/ Return

Spec == Init /\ [][Next]_vars

-----------------------------------------------------------------------------
(* Laws of the update engine (update.cpp).                                  *)

NamedFields(spec) == UNION {NamedBy(spec, op) : op \in Operators}

(* The filter has values for top-level fields only, which the update leaves *)
(* alone, or it is the _id alone and the update a replacement without one.   *)
(* MinKey is not equal to itself.                                            *)
FindsWhatItMakes(filter, spec) ==
  /\ filter # <<>>
  /\ \A i \in DOMAIN filter : ~IsOperatorDoc(filter[i][2]) /\ filter[i][2] # MinKey
  /\ \A name \in Names(filter) : name \notin Dollar /\ IsTopLevel(name)
  /\ IF spec # <<>> /\ Names(spec) \subseteq Dollar THEN NamedFields(spec) \cap Names(filter) = {}
     ELSE Names(filter) = {"_id"} /\ "_id" \notin Names(spec)

(* An upsert of such a filter leaves a document that the filter finds, so  *)
(* that the same call made again, by a client that missed the answer, does  *)
(* not insert a second one (seed_upsert with match_doc).                    *)
RetriedUpsertInsertsOnce ==
  phase = "idle" =>
    \A call \in Calls :
      (call.op = "update" /\ call.upsert /\ FindsWhatItMakes(call.filter, call.spec)) =>
        LET once == Exec(mem, call)
            twice == Exec(once.mem, call)
        IN  once.err = 0 => DOMAIN twice.mem.docs = DOMAIN once.mem.docs

(* No update gives a document two fields of one name, unless it names the   *)
(* field under $set and under $inc (apply_operator_spec appends what its     *)
(* loop has not met).                                                        *)
NoFieldTwice ==
  [][Write => \A call \in Calls :
       (call.op = "update" /\ NamedBy(call.spec, "$set") \cap NamedBy(call.spec, "$inc") = {} /\ Performs(call)) =>
         \A i \in DOMAIN mem'.docs :
           (i \in DOMAIN mem.docs => NamesOnce(mem.docs[i].doc)) => NamesOnce(mem'.docs[i].doc)]_vars

(* Adding a whole number that a double can hold and taking it away again     *)
(* gives back the value and touches nothing else (append_inc_sum), in a        *)
(* document that names no field twice: an int64 over its ends too, a double     *)
(* where the sum is one.  A sum that has to be rounded may not come back:      *)
(* 0.1 + 1 - 1 is not 0.1.                                                     *)
IncsCancel ==
  \A i \in DOMAIN mem.docs, name \in Fields, delta \in 1 .. Significand :
    LET doc == mem.docs[i].doc
        Inc(d, n) == ApplyUpdate(d, << <<"$inc", Document(<< <<name, Int64(n)>> >>)>> >>)
        v == Find(doc, name)
        back == Inc(Inc(doc, delta).doc, -delta)
    IN  (NamesOnce(doc) /\ IsNumeric(v) /\ (v[1] = "double" => v[2] + Scale * delta \in Doubles)) =>
          /\ back.err = 0
          /\ ValueEqual(Find(back.doc, name), v)
          /\ Without(back.doc, {name}) = Without(doc, {name})

(* A document that has an _id keeps it through every update whose operators *)
(* do not name it: replacements and refused updates included               *)
(* (ids_compatible, apply_replacement).                                     *)
IdsStay ==
  [][Write => \A call \in Calls :
       (call.op = "update" /\ "_id" \notin NamedFields(call.spec) /\ Performs(call)) =>
         \A i \in DOMAIN mem.docs :
           "_id" \in Names(mem.docs[i].doc) =>
             Find(mem'.docs[i].doc, "_id") = Find(mem.docs[i].doc, "_id")]_vars

-----------------------------------------------------------------------------
(* Laws of filters and sorting (filter.cpp, value.cpp, key_order.cpp).      *)

S(op, arg) == Document(<< <<op, arg>> >>)
Doc(op, fields) == S(op, Document(fields))

(* Mixed comparison: a field with one value compared by the filter language *)
(* and by an expression in $expr gives one answer, as does $in, and $and,    *)
(* $or of two comparisons (eval_operator, evaluate_operator_expression).     *)
FilterAgreesWithExpr ==
  \A i \in DOMAIN docs, name \in Fields, w \in Probes :
    LET v == Find(docs[i], name)
        Clause(op) == << <<name, S(op, w)>> >>
        Expr(op) == S(op, Array(<<FieldRef(name), S("$literal", w)>>))
        Both(op) == Array(<<Document(Clause("$gte")), Document(Clause("$ne"))>>)
        Tests(op) == Array(<<Expr("$gte"), Expr("$ne")>>)
    IN  (v # Missing /\ ~IsArray(v)) =>
          /\ \A op \in {"$eq", "$ne", "$gt", "$gte", "$lt", "$lte"} :
               Matches(docs[i], Clause(op)) <=> Matches(docs[i], << <<"$expr", Expr(op)>> >>)
          /\ Matches(docs[i], << <<name, S("$in", Array(<<Null, w>>))>> >>) <=>
               Truthy(Evaluate(docs[i], S("$in", Array(<<FieldRef(name), S("$literal", Array(<<Null, w>>))>>))))
          /\ \A op \in {"$and", "$or"} :
               Matches(docs[i], << <<op, Both(op)>> >>) <=> Matches(docs[i], << <<"$expr", S(op, Tests(op))>> >>)

(* The order of sort_less is a strict weak order, which std::stable_sort     *)
(* requires: documents that are neither before the other are alike.  Values  *)
(* of all types and missing ones meet in it, but no whole numbers that are   *)
(* not doubles as well (Sortable).                                            *)
SortIsWeakOrder ==
  \A name \in Fields :
    LET Less(i, j) == SortLess(docs[i], docs[j], << <<name, Int32(1)>> >>)
        Alike(i, j) == ~Less(i, j) /\ ~Less(j, i)
    IN  \A i, j, k \in {l \in DOMAIN docs : Sortable(Find(docs[l], name))} :
          /\ Less(i, j) => ~Less(j, i)
          /\ (Less(i, j) /\ Less(j, k)) => Less(i, k)
          /\ (Alike(i, j) /\ Alike(j, k)) => Alike(i, k)

-----------------------------------------------------------------------------
(* Laws of the stages (pipeline/).                                          *)

Values(stream, name) == [i \in DOMAIN stream |-> Find(stream[i], name)]
Concat(arrays) == FlattenSeq([i \in DOMAIN arrays |-> arrays[i][2]])
(* The running sums of numbers in units, none of them rounded. *)
ExactTotals(numbers) ==
  LET sum[n \in 0 .. Len(numbers)] == IF n = 0 THEN 0 ELSE sum[n - 1] + Units(numbers[n])
  IN  sum
ExactTotal(numbers) == ExactTotals(numbers)[Len(numbers)]

IsPermutation(s, t) ==
  \A x \in ToSet(s) \cup ToSet(t) :
    Cardinality({i \in DOMAIN s : s[i] = x}) = Cardinality({i \in DOMAIN t : t[i] = x})

(* rows and counts: _id, n and a of each group by a field; _id and count. *)
ArePartition(name, rows, counts) ==
  LET Pair(row, n) == <<Find(row, "_id"), Units(Find(row, n))>>
  IN  /\ IsPermutation(Concat(Values(rows, "a")),
                       Selected(Values(docs, name), LAMBDA v : v # Missing))
      /\ \A i \in DOMAIN rows : \A v \in ToSet(Find(rows[i], "a")[2]) : v = Find(rows[i], "_id")
      /\ ExactTotal(Values(rows, "n")) = Scale * Len(docs)
      /\ IsPermutation([i \in DOMAIN rows |-> Pair(rows[i], "n")],
                       [i \in DOMAIN counts |-> Pair(counts[i], "count")])
      /\ \A i \in 1 .. Len(counts) - 1 : Find(counts[i], "count")[2] >= Find(counts[i + 1], "count")[2]

(* $group puts each document into exactly one group, its own, and           *)
(* $sortByCount counts those groups, largest first (apply_group_stage,       *)
(* apply_sort_by_count_stage), as many documents as a double can count.      *)
GroupsPartition ==
  \A name \in Fields : Len(docs) <= Significand =>
    ArePartition(name,
                 GroupStage(docs, << <<"_id", FieldRef(name)>>, <<"n", S("$sum", Int32(1))>>,
                                     <<"a", S("$push", FieldRef(name))>> >>).docs,
                 SortByCountStage(docs, FieldRef(name)))

(* Each of the numbers and of their running sums is a double, and the sum an *)
(* int64.                                                                    *)
FitBoth(numbers) ==
  /\ \A i \in DOMAIN numbers : {Units(numbers[i]), ExactTotals(numbers)[i]} \subseteq Doubles
  /\ ExactTotal(numbers) \in Scale * (-IntBound) .. Scale * (IntBound - 1)

(* row: what $push, $sum and $avg make of one group, in a, n and b. *)
IsSummary(row) ==
  LET numbers == Selected(Find(row, "a")[2], IsNumeric)
  IN  /\ (HasDouble(numbers) \/ FitBoth(numbers)) =>
           ValueEqual(Find(row, "n"), Evaluate(row, S("$sum", FieldRef("a"))))
      /\ Find(row, "b") = Evaluate(row, S("$avg", FieldRef("a")))

(* The accumulator $avg over a group is the operator $avg over the array      *)
(* that $push collects, to the last bit.  So is $sum, in a group with a        *)
(* double in it; without one the accumulator adds in double and the operator   *)
(* in int64, and they agree while neither loses anything.                      *)
AccumulatorsAgree ==
  docs # <<>> =>
    \A name \in Fields :
      LET Acc(op) == S(op, FieldRef(name))
      IN  IsSummary(GroupStage(docs, << <<"_id", Null>>, <<"a", Acc("$push")>>,
                                        <<"n", Acc("$sum")>>, <<"b", Acc("$avg")>> >>).docs[1])

(* pieces: doc unwound at the array v, each with its index in x. *)
ArePieces(doc, name, v, pieces) ==
  /\ Find(GroupStage(pieces, << <<"_id", Null>>, <<"a", S("$push", FieldRef(name))>> >>).docs[1], "a") = v
  /\ \A k \in DOMAIN pieces :
       Find(pieces[k], name) = Evaluate(doc, S("$arrayElemAt", Array(<<FieldRef(name), Find(pieces[k], "x")>>)))

(* Unwinding an array and pushing what comes out gives the array back, and   *)
(* the index tells where in the array each piece was (apply_unwind_stage).    *)
UnwindThenGroup ==
  \A i \in DOMAIN docs, name \in Fields :
    LET v == Find(docs[i], name)
        unwind == Document(<< <<"path", FieldRef(name)>>, <<"includeArrayIndex", Text("x")>> >>)
    IN  (IsArray(v) /\ v # Array(<<>>) /\ name # "x") =>
          ArePieces(docs[i], name, v, UnwindStage(<<docs[i]>>, unwind).docs)

(* Names and their computed forms project alike, and leaving a field out is  *)
(* unsetting it (project, clone_doc_with_projection, apply_unset_stage).      *)
ProjectionsAgree ==
  \A name \in Fields \ {"_id"} :
    /\ ProjectStage(docs, << <<name, Int32(1)>> >>) = ProjectStage(docs, << <<name, FieldRef(name)>> >>)
    /\ ProjectStage(docs, << <<name, Int32(0)>> >>) = UnsetStage(docs, Text(name))

Lookup(from, local, foreign) ==
  << <<"from", Text(from)>>, <<"localField", Text(local)>>, <<"foreignField", Text(foreign)>>,
     <<"as", Text("x")>> >>
LookupBy(from, local, foreign) ==
  << <<"from", Text(from)>>, <<"let", Document(<< <<"v", FieldRef(local)>> >>)>>,
     <<"pipeline", Array(<<Doc("$match",
         << <<"$expr", S("$eq", Array(<<FieldRef(foreign), Variable("v")>>))>> >>)>>)>>,
     <<"as", Text("x")>> >>
FoundBy(doc) == ToSet(Find(doc, "x")[2])

(* here: the stream with what it found in Others; there: other with what it *)
(* found in the stream.                                                      *)
FindEachOther(f, g, here, other, there) ==
  \A i \in DOMAIN docs :
    (~IsArray(Find(docs[i], f)) /\ ~IsArray(Find(other, g))) =>
      (Document(other) \in FoundBy(here[i]) <=> Document(docs[i]) \in FoundBy(there))

(* Where no field is an array, a document finds in another collection those *)
(* that would find it: a missing field joins with null and with a missing    *)
(* one from both sides (local_matches_foreign).                              *)
JoinIsSymmetric ==
  \A f, g \in Fields :
    \A here \in {LookupStage(docs, Lookup("other", f, g), Owner).docs} :
      \A k \in DOMAIN Others :
        FindEachOther(f, g, here, Others[k],
                      LookupStage(<<Others[k]>>, Lookup("main", g, f), [main |-> docs]).docs[1])

(* The results of the two forms of $lookup. *)
SameFound(f, byField, byPipeline) ==
  /\ ~byPipeline.thrown
  /\ \A i \in DOMAIN docs :
       LET v == Find(docs[i], f)
       IN  (v \notin {Missing, Null} /\ ~IsArray(v) /\ \A k \in DOMAIN Others : Evaluate(Others[k], v) = v) =>
             Find(byField.docs[i], "x") = Find(byPipeline.docs[i], "x")

(* The two forms of $lookup find the same for a value that is no array and  *)
(* no null: by localField and foreignField, and by a pipeline that compares  *)
(* with a variable (filter_foreign_docs_for_local, append_substituted_value). *)
(* The value of the variable is put into the pipeline and is evaluated there: *)
(* a text that begins with a $ is taken for a path, and left out here.        *)
LookupFormsAgree ==
  \A f, g \in Fields :
    SameFound(f, LookupStage(docs, Lookup("other", f, g), Owner), LookupStage(docs, LookupBy("other", f, g), Owner))

-----------------------------------------------------------------------------
(* Laws of expressions (expression.cpp).                                    *)

Call2(op, x, y) == S(op, Array(<<x, y>>))

(* The operators on arrays fit together: two slices make up the array, from *)
(* either end; the last element is the first of the reverse and the one at   *)
(* -1; an element at an index is in the array, unless it is the MinKey that  *)
(* equals nothing; the range of the size has its indexes.  An object is what *)
(* its list of entries makes.                                                *)
ContainersAgree ==
  \A i \in DOMAIN docs, name \in Fields :
    LET ref == FieldRef(name)
        v == Find(docs[i], name)
        Val(expr) == Evaluate(docs[i], expr)
        size == Val(S("$size", ref))
        parts(n) == Array(<<Call2("$slice", ref, Int32(n)),
                            S("$slice", Array(<<ref, Int32(n), size>>))>>)
        tails(n) == Array(<<S("$slice", Array(<<ref, Int32(0), Int32(Len(v[2]) - n)>>)), Call2("$slice", ref, Int32(-n))>>)
    IN  /\ (IsArray(v) /\ v # Array(<<>>)) =>
             /\ \A n \in 1 .. Len(v[2]) : Val(S("$concatArrays", parts(n))) = v
             /\ \A n \in 1 .. Len(v[2]) : Val(S("$concatArrays", tails(n))) = v
             /\ Val(S("$last", ref)) = Val(S("$first", S("$reverseArray", ref)))
             /\ Val(S("$last", ref)) = Val(Call2("$arrayElemAt", ref, Int32(-1)))
             /\ \A n \in ToSet(Val(Call2("$range", Int32(0), size))[2]) :
                  LET element == Call2("$arrayElemAt", ref, n)
                  IN  Val(element) # MinKey => Val(Call2("$in", element, ref)) = Bool(TRUE)
        /\ (IsDocument(v) /\ Cardinality(Names(v[2])) = Len(v[2])) =>
             /\ Val(S("$arrayToObject", Array(<<S("$objectToArray", ref)>>))) = v
             /\ Val(S("$mergeObjects", Array(<<ref, ref>>))) = v
             /\ \A key \in Names(v[2]) :
                  Val(Doc("$getField", << <<"field", Text(key)>>, <<"input", ref>> >>)) = Find(v[2], key)

(* $switch with one branch is $cond, a missing case apart; $ifNull is the     *)
(* $cond on null; $and, $or and $not keep De Morgan's laws, whatever types     *)
(* the operands have.                                                          *)
BranchesAgree ==
  \A i \in DOMAIN docs, f, g \in Fields :
    LET Val(expr) == Evaluate(docs[i], expr)
        Branch(test, x, y) ==
          Doc("$switch", << <<"branches", Array(<<Document(<< <<"case", test>>, <<"then", x>> >>)>>)>>, <<"default", y>> >>)
        Choice(test, x, y) == S("$cond", Array(<<test, x, y>>))
        No(x) == S("$not", Array(<<x>>))
        isNull == S("$not", Array(<<Call2("$ne", FieldRef(f), Null)>>))
    IN  /\ Val(FieldRef(f)) # Missing =>
             /\ Val(Branch(FieldRef(f), FieldRef(g), Int32(0))) = Val(Choice(FieldRef(f), FieldRef(g), Int32(0)))
             /\ OrNull(Val(Call2("$ifNull", FieldRef(f), FieldRef(g)))) = OrNull(Val(Choice(isNull, FieldRef(g), FieldRef(f))))
        /\ Val(Branch(FieldRef(f), Int32(1), Int32(0))) = Int32(IF Truthy(Find(docs[i], f)) THEN 1 ELSE 0)
        /\ Val(No(Call2("$and", FieldRef(f), FieldRef(g)))) = Val(Call2("$or", No(FieldRef(f)), No(FieldRef(g))))
        /\ Val(No(Call2("$or", FieldRef(f), FieldRef(g)))) = Val(Call2("$and", No(FieldRef(f)), No(FieldRef(g))))
=============================================================================
