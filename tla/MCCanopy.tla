------------------------------ MODULE MCCanopy ------------------------------
(***************************************************************************)
(* Small documents and workloads for CanopyCollection.  A document has an  *)
(* _id and one field, a number modulo 3 or a text that $inc refuses.       *)
(***************************************************************************)
EXTENDS CanopyCollection

Text == 9
MCOids == {"x", "y"}
MCDocs == [id : {"a", "b", "n"} \cup MCOids, v : {0, 1, 2, Text}]
MCFilters == {"all", "isA", "isNew", "isZero", "isOne"}
MCSpecs == {"inc", "set1", "setText"}
MCIndexNames == {IdIndexName, "byV"}
MCKeyPaths == {IdPaths, <<"v">>}

MCMatches(d, f) ==
  CASE f = "all" -> TRUE
    [] f = "isA" -> d.id = "a"
    [] f = "isNew" -> d.id = "n"
    [] f = "isZero" -> d.v = 0
    [] f = "isOne" -> d.v = 1

MCApplyUpdate(d, s) ==
  CASE s = "set1" -> [err |-> 0, doc |-> [d EXCEPT !.v = 1]]
    [] s = "setText" -> [err |-> 0, doc |-> [d EXCEPT !.v = Text]]
    [] s = "inc" -> IF d.v = Text THEN [err |-> 14, doc |-> d]
                    ELSE [err |-> 0, doc |-> [d EXCEPT !.v = (d.v + 1) % 3]]

(* A filter on _id gives the seed its _id, one on v does not. *)
MCSeedUpsert(f, s, oid) ==
  MCApplyUpdate([id |-> CASE f = "isNew" -> "n" [] f = "isA" -> "a" [] OTHER -> oid,
                 v |-> IF f = "isOne" THEN 1 ELSE 0], s)

MCDocKeys(d, paths) == IF paths = <<"v">> THEN {d.v} ELSE {d.id}

Doc(id, v) == [id |-> id, v |-> v]
InsertOf(docs) == [op |-> "insert", docs |-> docs]
UpdateOf(filter, spec, multi, upsert) ==
  [op |-> "update", filter |-> filter, spec |-> spec, multi |-> multi, upsert |-> upsert]
EraseOf(filter, single) == [op |-> "erase", filter |-> filter, single |-> single]
IndexOf(unique) ==
  [op |-> "createIndex", name |-> "byV", paths |-> <<"v">>, unique |-> unique]
DropOf(name) == [op |-> "dropIndex", name |-> name]

(* Every kind of call, in the forms that replay the way they ran. *)
PlainWorkload ==
  {InsertOf(<<Doc("a", 0)>>), InsertOf(<<Doc("b", Text), Doc("a", 1)>>),
   UpdateOf("all", "inc", FALSE, FALSE), UpdateOf("all", "set1", TRUE, FALSE),
   UpdateOf("isNew", "inc", FALSE, TRUE),
   EraseOf("isOne", FALSE), EraseOf("all", TRUE),
   IndexOf(FALSE), DropOf("byV"), DropOf(IdIndexName)}

(* One write that is not idempotent and one that is refused on a text: long *)
(* runs through several checkpoints stay small.                             *)
LongWorkload == {InsertOf(<<Doc("a", 0)>>), UpdateOf("all", "inc", FALSE, FALSE)}

(* A multi-document update that fails at the second document, then writes   *)
(* that find the first one changed while running and unchanged in replay.   *)
FailingWorkload ==
  {InsertOf(<<Doc("a", 0), Doc("b", Text)>>), UpdateOf("all", "inc", TRUE, FALSE),
   UpdateOf("isZero", "setText", FALSE, FALSE), UpdateOf("isA", "inc", FALSE, FALSE)}
=============================================================================
