---------------------------- MODULE UpdateEngine ----------------------------
(***************************************************************************)
(* What an update specification makes of a document, and of a filter that  *)
(* found nothing (core/src/query/update.cpp).                              *)
(*                                                                         *)
(* Several fields that one operator adds come in the order of a hash       *)
(* table; the operands of the model add at most one.                       *)
(***************************************************************************)
EXTENDS FilterLanguage

(* Error codes of the results. *)
FailedToParse == 9
TypeMismatch == 14
ImmutableField == 66

Changed(doc) == [err |-> 0, doc |-> doc]
Refused(err) == [err |-> err, doc |-> <<>>]

-----------------------------------------------------------------------------
(* Operators.                                                               *)

Operators == {"$set", "$unset", "$inc"}

(* The fields that an operator names; of two with one name the last counts. *)
Operands(spec, op) == {i \in DOMAIN spec : spec[i][1] = op /\ IsDocument(spec[i][2])}
NamedBy(spec, op) == UNION {Names(spec[i][2][2]) : i \in Operands(spec, op)}
Argument(spec, op, name) ==
  LET naming == {i \in Operands(spec, op) : name \in Names(spec[i][2][2])}
  IN  FindLast(spec[CHOOSE i \in naming : \A j \in naming : j <= i][2][2], name)

(* What bson_iter_as_int64 and bson_iter_as_double make of an argument. *)
Amount(v) ==
  IF IsNumeric(v) THEN v ELSE Int64(IF v[1] = "bool" THEN IF v[2] THEN 1 ELSE 0 ELSE 0)

(* Mutant: the sum stops at the ends of int64. *)
IncSumSaturating(v, delta) ==
  LET sum == AsInt(v) + AsInt(Amount(delta))
  IN  IF "double" \in {v[1], delta[1]} THEN Double(Rounded(AsDouble(v) + AsDouble(Amount(delta))))
      ELSE Int64(Most(-IntBound, Least(sum, IntBound - 1)))

(* append_inc_sum: whole numbers become an int64, which wraps around where   *)
(* C++ leaves an overflow undefined; doubles are rounded.                    *)
IncSum(v, delta) ==
  IF "double" \in {v[1], delta[1]} THEN Double(Rounded(AsDouble(v) + AsDouble(Amount(delta))))
  ELSE Int64(Wrap(AsInt(v) + AsInt(Amount(delta))))

(* append_inc_fresh *)
IncFresh(delta) == IF delta[1] = "double" THEN delta ELSE Int64(AsInt(Amount(delta)))

(* The loop over the fields: $unset before $set before $inc. *)
UpdatedField(spec, field) ==
  IF field[1] \in NamedBy(spec, "$set") THEN <<field[1], Argument(spec, "$set", field[1])>>
  ELSE IF field[1] \in NamedBy(spec, "$inc")
       THEN <<field[1], IncSum(field[2], Argument(spec, "$inc", field[1]))>>
       ELSE field

(* A field that $set has taken is not one that $inc has. *)
AppliesSet(spec, names) == NamedBy(spec, "$set") \cap (names \ NamedBy(spec, "$unset"))
AppliesInc(spec, names) ==
  (NamedBy(spec, "$inc") \ NamedBy(spec, "$set")) \cap (names \ NamedBy(spec, "$unset"))

(* Mutant: fields that the loop has set are appended again. *)
FreshFieldsAgain(doc, spec) ==
  LET Added(op) == Listed(NamedBy(spec, op) \ IF op = "$set" THEN {} ELSE AppliesInc(spec, Names(doc)))
  IN  [i \in DOMAIN Added("$set") |-> <<Added("$set")[i], Argument(spec, "$set", Added("$set")[i])>>]
        \o [i \in DOMAIN Added("$inc") |-> <<Added("$inc")[i], IncFresh(Argument(spec, "$inc", Added("$inc")[i]))>>]

(* What the loop did not meet is appended: first by $set, then by $inc. *)
FreshFields(doc, spec) ==
  LET Added(op, met) == Listed(NamedBy(spec, op) \ met)
      set == Added("$set", AppliesSet(spec, Names(doc)))
      inc == Added("$inc", AppliesInc(spec, Names(doc)))
  IN  [i \in DOMAIN set |-> <<set[i], Argument(spec, "$set", set[i])>>]
        \o [i \in DOMAIN inc |-> <<inc[i], IncFresh(Argument(spec, "$inc", inc[i]))>>]

ApplyOperators(doc, spec) ==
  LET kept == Without(doc, NamedBy(spec, "$unset"))
      summed == {i \in DOMAIN kept : kept[i][1] \in NamedBy(spec, "$inc") \ NamedBy(spec, "$set")}
  IN  IF \E i \in DOMAIN spec : spec[i][1] \notin Operators THEN Refused(FailedToParse)
      ELSE IF \E i \in summed : ~IsNumeric(kept[i][2]) THEN Refused(TypeMismatch)
      ELSE Changed([i \in DOMAIN kept |-> UpdatedField(spec, kept[i])] \o FreshFields(doc, spec))

-----------------------------------------------------------------------------
(* Replacement.                                                             *)

(* Mutant: only _ids of different types differ. *)
IdTypesDiffer(doc, spec) ==
  {"_id"} \subseteq Names(doc) \cap Names(spec) /\ Find(doc, "_id")[1] # Find(spec, "_id")[1]

(* not ids_compatible: two _ids are compared only as the same type, and *)
(* only in some types.                                                   *)
IdsDiffer(doc, spec) ==
  LET old == Find(doc, "_id")
      new == Find(spec, "_id")
  IN  /\ old # Missing
      /\ new # Missing
      /\ old # new \/ old[1] \notin {"oid", "int32", "int64", "text"}

ApplyReplacement(doc, spec) ==
  IF IdsDiffer(doc, spec) THEN Refused(ImmutableField)
  ELSE IF "_id" \in Names(doc) \ Names(spec) THEN Changed(<< <<"_id", Find(doc, "_id")>> >> \o spec)
  ELSE Changed(spec)

-----------------------------------------------------------------------------

(* apply_update *)
ApplyUpdate(doc, spec) ==
  CASE Names(spec) \cap Dollar = {} -> ApplyReplacement(doc, spec)
    [] spec # <<>> /\ Names(spec) \subseteq Dollar -> ApplyOperators(doc, spec)
    [] OTHER -> Refused(FailedToParse)

(* Mutant: only the _id of the filter is kept. *)
LiteralIdOnly(filter) == Selected(filter, LAMBDA field : field[1] = "_id" /\ ~IsOperatorDoc(field[2]))

(* The fields of a filter that are wanted as they stand. *)
LiteralFields(filter) ==
  Selected(filter, LAMBDA field : field[1] \notin Dollar /\ ~IsOperatorDoc(field[2]))

(* seed_upsert, which looks for an _id on the top level of the specification only. *)
SeedUpsert(filter, spec, oid) ==
  LET fields == LiteralFields(filter)
  IN  ApplyUpdate(IF "_id" \in Names(fields) \cup Names(spec) THEN fields
                  ELSE << <<"_id", Oid(oid)>> >> \o fields, spec)
=============================================================================
