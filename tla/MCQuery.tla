------------------------------ MODULE MCQuery ------------------------------
(***************************************************************************)
(* Small documents, calls and stages for QueryEngine.  Field a holds a     *)
(* number, an array, a text or null; b an object, a Boolean or a fraction; *)
(* n numbers near the end of int64, some of which are no doubles.          *)
(***************************************************************************)
EXTENDS QueryTypes

(* A double has three bits and counts halves: 8 is the last of the whole *)
(* numbers that all are doubles.                                          *)
MCSpacings == {2 ^ k : k \in 0 .. 4}

MCWords == <<"_id", "a", "b", "c", "k", "n", "v", "x">>
MCDotted == [key \in {"b.c"} |-> <<"b", "c">>]

One(name, v) == << <<name, v>> >>
Two(name, v, other, w) == << <<name, v>>, <<other, w>> >>

Start == <<Two("_id", Int32(1), "a", Int32(1)) \o Two("n", Int32(15), "b", Double(7)),
           Two("_id", Int32(2), "a", Array(<<Int32(1), Text("b")>>)) \o Two("b", Document(One("c", Int64(1))), "n", Int32(11)),
           Two("_id", Int32(3), "a", Text("b")) \o One("n", Double(24)),
           Two("_id", Int32(4), "a", Null) \o Two("b", Bool(TRUE), "n", Int32(13))>>
MCOthers == <<Two("_id", Int32(1), "a", Int64(1)), Two("_id", Int32(2), "b", Bool(TRUE)), Two("a", Null, "n", Double(3))>>

UpdateOf(filter, spec, multi, upsert) ==
  [op |-> "update", filter |-> filter, spec |-> spec, multi |-> multi, upsert |-> upsert]
Op(op, name, v) == One(op, Document(One(name, v)))

MCCalls ==
  {[op |-> "insert", docs |-> Start],
   [op |-> "erase", filter |-> One("b", Bool(TRUE)), single |-> TRUE],
   UpdateOf(<<>>, Op("$inc", "n", Int32(1)), TRUE, FALSE),
   UpdateOf(<<>>, Op("$inc", "a", Int32(1)), TRUE, FALSE),
   UpdateOf(One("a", Int64(1)), Op("$set", "b", Int32(0)) \o Op("$inc", "n", Int32(1)), FALSE, TRUE),
   UpdateOf(Two("a", Text("b"), "b", S("$exists", Bool(TRUE))), Op("$set", "b", Null), TRUE, TRUE),
   UpdateOf(One("a", Text("b")), Op("$unset", "n", Null) \o Op("$set", "n", Int32(0)), TRUE, TRUE),
   UpdateOf(One("_id", Int32(5)), One("a", Array(<<>>)), FALSE, TRUE),
   UpdateOf(One("_id", Int32(1)), Two("_id", Int32(4), "a", Int32(2)), FALSE, FALSE),
   UpdateOf(<<>>, Two("a", Int32(1), "$set", Document(<<>>)), FALSE, FALSE)}

Group(id) == Doc("$group", Two("_id", id, "a", S("$min", FieldRef("n"))) \o One("n", S("$sum", Int32(1))))

MCPool ==
  {Doc("$match", One("a", S("$gte", Int32(1)))),
   Doc("$match", One("$or", Array(<<Document(One("b.c", Int32(1))), Document(One("n", S("$nin", Array(<<Int32(15)>>))))>>))),
   Doc("$sort", Two("a", Int32(-1), "_id", Int32(1))),
   S("$skip", Int32(1)), S("$limit", Int32(1)),
   Doc("$project", Two("_id", Int32(0), "a", Int32(1))),
   Doc("$project", Two("b", S("$isArray", FieldRef("a")), "a", S("$add", Array(<<FieldRef("n"), Int32(1)>>)))),
   Doc("$addFields", Two("x", FieldRef("b.c"), "b", S("$objectToArray", FieldRef("b")))),
   S("$unset", Array(<<Text("a")>>)),
   Group(FieldRef("a")), Group(Document(One("c", FieldRef("a")))),
   S("$count", Text("n")), S("$sortByCount", FieldRef("a")),
   Doc("$lookup", Two("from", Text("main"), "as", Text("b")) \o Two("localField", Text("a"), "foreignField", Text("a"))),
   S("$replaceWith", FieldRef("b")),
   S("$unwind", FieldRef("a")),
   Doc("$unwind", Two("path", FieldRef("a"), "preserveNullAndEmptyArrays", Bool(TRUE)) \o One("includeArrayIndex", Text("n")))}

MCProbes == {Int32(1), Text("b"), Null, Bool(TRUE)}

(* Where the code calls itself on a part of a value.  The LETs keep TLC from *)
(* unfolding the recursion when it prepares its statistics.                  *)
MCValue(doc, expr) == LET v == Evaluate(doc, expr) IN v
MCHolds(doc, filter) == LET holds == Matches(doc, filter) IN holds
MCLookupPipeline(stream, pipeline, bindings, owner) ==
  LET found == PipelineOfLookup(stream, pipeline, bindings, owner) IN found
MCVariables(v) == LET names == VariablesIn(v) IN names
MCSizeOf(v) == LET size == PayloadSize(v) IN size
MCSubstituted(v, bindings) == LET w == Substitute(v, bindings) IN w
=============================================================================
