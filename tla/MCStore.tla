------------------------------ MODULE MCStore ------------------------------
(***************************************************************************)
(* Small documents, calls and queries for MemoryStore.  Field a holds a    *)
(* number, an array of numbers or nothing; field b a number or a text that *)
(* the update "inc" refuses; "_id" tells the documents apart.              *)
(***************************************************************************)
EXTENDS MemoryStore

Paths == {"_id", "a", "b"}
Fields == {Absent, One(1), One(2), Array({1, 2})}
Doc(id, a, b) == [p \in Paths |-> CASE p = "_id" -> One(id) [] p = "a" -> a [] p = "b" -> b]

MCDocs == {Doc(id, a, b) : id \in {1, 2, 4}, a \in Fields,
                           b \in {One(1), One(2), One(FirstText), Array({1, 2})}}
MCOids == {4}
MCIndexNames == {IdIndexName, "x", "y"}
MCKeyPaths == {IdPaths, <<"a">>, <<"b">>, <<"a", "b">>, <<"a", "b", "_id">>}

(* Without arrays in b and without the index of three paths. *)
StoreDocs == {d \in MCDocs : d["b"].kind = "one"}
StoreKeyPaths == {paths \in MCKeyPaths : Len(paths) <= 2}

Everything == [p \in {} |-> Eq(1)]
Where(p, clause) == [x \in {p} |-> clause]
And(f, g) == [p \in DOMAIN f \cup DOMAIN g |-> IF p \in DOMAIN f THEN f[p] ELSE g[p]]

MCFilters == {Everything, Where("_id", Eq(4))} \cup {Where("a", Eq(v)) : v \in {1, 2}}
               \cup {Where("b", Eq(v)) : v \in {1, 2, FirstText}}

MCSpecs == {"b1", "incB", "a2", "a12"}

MCApplyUpdate(d, spec) ==
  CASE spec = "b1" -> [err |-> 0, doc |-> [d EXCEPT !["b"] = One(1)]]
    [] spec = "a2" -> [err |-> 0, doc |-> [d EXCEPT !["a"] = One(2)]]
    [] spec = "a12" -> [err |-> 0, doc |-> [d EXCEPT !["a"] = Array({1, 2})]]
    [] spec = "incB" -> IF d["b"] \in {One(FirstText), Array({1, 2})} THEN [err |-> 14, doc |-> d]
                        ELSE [err |-> 0, doc |-> [d EXCEPT !["b"] = IF @ = One(1) THEN One(2) ELSE One(1)]]

MCSeedUpsert(f, spec, oid) == MCApplyUpdate(Doc(oid, Absent, One(1)), spec)

InsertOf(docs) == [op |-> "insert", docs |-> docs]
UpdateOf(filter, spec, multi, upsert) ==
  [op |-> "update", filter |-> filter, spec |-> spec, multi |-> multi, upsert |-> upsert]
EraseOf(filter, single) == [op |-> "erase", filter |-> filter, single |-> single]
IndexOf(name, paths, unique) ==
  [op |-> "createIndex", name |-> name, paths |-> paths, unique |-> unique]
DropOf(name) == [op |-> "dropIndex", name |-> name]

StoreCalls ==
  {InsertOf(<<Doc(1, One(1), One(2)), Doc(2, Array({1, 2}), One(FirstText))>>),
   UpdateOf(Everything, "incB", TRUE, FALSE),
   UpdateOf(Where("a", Eq(1)), "a2", FALSE, FALSE),
   UpdateOf(Where("_id", Eq(4)), "b1", FALSE, TRUE),
   EraseOf(Where("b", Eq(1)), FALSE),
   IndexOf("x", <<>>, FALSE), IndexOf("x", <<"b">>, TRUE),
   IndexOf("y", <<"a">>, FALSE), IndexOf("y", <<"a", "b">>, FALSE),
   DropOf("x"), DropOf(IdIndexName)}

QueryOf(filter, sort, skip, limit) ==
  [filter |-> filter, sort |-> sort, skip |-> skip, limit |-> limit]
By(path, ascending) == <<[path |-> path, ascending |-> ascending]>>

StoreQueries ==
  {QueryOf(Everything, <<>>, 0, 0),
   QueryOf(Where("a", Eq(2)), <<>>, 0, 0),
   QueryOf(And(Where("a", Eq(1)), Where("b", Eq(1))), <<>>, 0, 0),
   QueryOf(Where("b", Between(Bound(1, FALSE), NoBound)), <<>>, 0, 0),
   QueryOf(Where("b", Between(NoBound, Bound(2, TRUE))), By("b", FALSE), 0, 0),
   QueryOf(Where("a", Ne(2)), By("b", FALSE), 1, 1),
   QueryOf(Everything, By("a", TRUE) \o By("b", FALSE), 0, 2),
   QueryOf(Where("b", Ne(1)), By("a", TRUE), 0, 0)}

(* The workload of memory_store is one the proofs about find() speak of. *)
ASSUME StoreIsPlain == Calls = StoreCalls => PlainWorkload /\ RangesOverValues

-----------------------------------------------------------------------------
(* Workloads on which the code does not do what its comments say.           *)

(* An index of three paths and a query that fixes the first two. *)
PrefixCalls ==
  {InsertOf(<<Doc(1, One(1), One(2))>>), IndexOf("y", <<"a", "b", "_id">>, FALSE)}
PrefixQueries == {QueryOf(And(Where("a", Eq(1)), Where("b", Eq(2))), <<>>, 0, 0)}

(* A range query on an index that has a document under two keys, and the    *)
(* update that gives the document one value.                                *)
RangeCalls ==
  {InsertOf(<<Doc(1, One(1), One(1)), Doc(2, One(1), One(1)), Doc(4, Array({1, 2}), One(2))>>),
   IndexOf("y", <<"a">>, FALSE), UpdateOf(Where("b", Eq(2)), "a2", FALSE, FALSE)}
RangeQueries == {QueryOf(Where("a", Between(Bound(1, TRUE), NoBound)), <<>>, 0, 0)}

(* A regular expression as the value of an indexed field. *)
TextCalls == {InsertOf(<<Doc(1, One(1), One(FirstText))>>), IndexOf("x", <<"b">>, FALSE)}
RegexQueries == {QueryOf(Where("b", Regex({FirstText})), <<>>, 0, 0)}

(* A document with arrays under both paths of an index, which has no key.   *)
TwoArrayCalls ==
  {InsertOf(<<Doc(1, Array({1, 2}), Array({1, 2}))>>), IndexOf("y", <<"a", "b">>, FALSE)}
TwoArrayQueries == {QueryOf(And(Where("a", Eq(1)), Where("b", Eq(1))), <<>>, 0, 0)}
=============================================================================
