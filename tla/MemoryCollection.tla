-------------------------- MODULE MemoryCollection --------------------------
(***************************************************************************)
(* The value of one in-memory collection (core/src/storage/memory.cpp) and *)
(* the operations that turn it into another: the volatile half of every    *)
(* durable collection.                                                     *)
(*                                                                         *)
(* Slots are numbered in insertion order and a deleted slot keeps its      *)
(* number, so the collection is a partial function from slot numbers to    *)
(* documents.  The order of the numbers is all that the code observes: the *)
(* renumbering of a snapshot, which drops the tombstones, is not modelled. *)
(* An index is its definition; which keys it holds for which document is   *)
(* the parameter DocKeys.                                                  *)
(*                                                                         *)
(* A batch stops at its first failing document, and its loop is written    *)
(* here as the smallest failing position.                                  *)
(***************************************************************************)
EXTENDS Integers, Sequences

CONSTANTS
  Docs,                \* the documents
  Filters, Specs,      \* query filters and update specifications
  Oids,                \* the values bson_oid_init may return
  IndexNames,          \* the names an index may have
  KeyPaths,            \* the field lists an index may be over
  Matches(_, _),       \* Matches(doc, filter)
  ApplyUpdate(_, _),   \* ApplyUpdate(doc, spec): [err, doc]
  SeedUpsert(_, _, _), \* SeedUpsert(filter, spec, oid): [err, doc]
  DocKeys(_, _)        \* DocKeys(doc, paths): the index keys of a document

IdIndexName == "_id_"
IdPaths == <<"_id">>

ASSUME QueryAssumption ==
  /\ \A d \in Docs, f \in Filters : Matches(d, f) \in BOOLEAN
  /\ \A d \in Docs, s \in Specs : ApplyUpdate(d, s) \in [err : Nat, doc : Docs]
  /\ \A f \in Filters, s \in Specs, o \in Oids :
        SeedUpsert(f, s, o) \in [err : Nat, doc : Docs]

ASSUME IndexAssumption ==
  /\ IdIndexName \in IndexNames
  /\ IdPaths \in KeyPaths
  /\ <<>> \notin KeyPaths

(* kInvalidRecordId: no document has it, so a check that skips it skips nothing. *)
InvalidRecordId == 0

(* Error codes of the results. *)
DuplicateKey == 11000
InvalidIndexSpecification == 197
CannotDropIdIndex == 72

Entries == [rid : Nat, doc : Docs]
IndexDefs == [paths : KeyPaths, unique : BOOLEAN]

(* create_index refuses an empty field list, so it stands for "no such index". *)
NoIndex == [paths |-> <<>>, unique |-> FALSE]
IdIndex == [paths |-> IdPaths, unique |-> FALSE]

(* What a value of the collection looks like. *)
IsMemory(m) ==
  /\ m = [docs |-> m.docs, end |-> m.end, next |-> m.next, idx |-> m.idx]
  /\ m.end \in Nat
  /\ m.next \in Nat
  /\ DOMAIN m.docs \subseteq 1 .. m.end
  /\ m.docs \in [DOMAIN m.docs -> Entries]
  /\ m.idx \in [IndexNames -> IndexDefs \cup {NoIndex}]
  /\ m.idx[IdIndexName] # NoIndex

(* The constructor, and what clear_for_reload leaves. *)
Fresh == [docs |-> [i \in {} |-> i], end |-> 0, next |-> 1,
          idx |-> [n \in IndexNames |-> IF n = IdIndexName THEN IdIndex ELSE NoIndex]]

(***************************************************************************)
(* Unique indexes.                                                         *)
(***************************************************************************)

SharesKey(d, e, paths) == DocKeys(d, paths) \cap DocKeys(e, paths) # {}

(* would_violate_unique: doc, stored under record id self, clashes with another. *)
UniqueClash(m, self, doc) ==
  \E n \in IndexNames, i \in DOMAIN m.docs :
    /\ m.idx[n].unique
    /\ m.docs[i].rid # self
    /\ SharesKey(m.docs[i].doc, doc, m.idx[n].paths)

(***************************************************************************)
(* Insert and restore.                                                     *)
(***************************************************************************)

(* Append the documents of a batch under consecutive record ids. *)
Grow(m, first, batch) ==
  [docs |-> [i \in DOMAIN m.docs \cup (m.end + 1 .. m.end + Len(batch)) |->
               IF i <= m.end THEN m.docs[i]
               ELSE [rid |-> first + (i - m.end - 1), doc |-> batch[i - m.end]]],
   end  |-> m.end + Len(batch),
   next |-> IF first + Len(batch) > m.next /\ batch # <<>>
            THEN first + Len(batch) ELSE m.next,
   idx  |-> m.idx]

InsertClashes(m, batch, j) ==
  UniqueClash(Grow(m, m.next, SubSeq(batch, 1, j - 1)), InvalidRecordId, batch[j])

Insert(m, batch) ==
  LET clashing == {j \in DOMAIN batch : InsertClashes(m, batch, j)}
  IN  IF clashing = {}
      THEN [mem |-> Grow(m, m.next, batch), err |-> 0]
      ELSE LET j == CHOOSE j \in clashing : \A k \in clashing : j <= k
           IN  [mem |-> Grow(m, m.next, SubSeq(batch, 1, j - 1)), err |-> DuplicateKey]

(* Mutant: restore_record does not raise next_record_id. *)
RestoreKeepsNext(m, first, batch) == [Grow(m, first, batch) EXCEPT !.next = m.next]

(* restore_record for every record of a logged insert: no unique check. *)
RestoreRecords(m, first, batch) == Grow(m, first, batch)

(***************************************************************************)
(* Update and erase.                                                       *)
(***************************************************************************)

(* The slots a call visits: every match, or only the first. *)
Targets(m, filter, all) ==
  LET hits == {i \in DOMAIN m.docs : Matches(m.docs[i].doc, filter)}
  IN  IF all THEN hits ELSE {i \in hits : \A j \in hits : i <= j}

UpdateAt(m, spec, i) == ApplyUpdate(m.docs[i].doc, spec)

(* The collection when the loop of update() reaches slot p. *)
UpdatedBelow(m, targets, spec, p) ==
  [m EXCEPT !.docs =
    [i \in DOMAIN m.docs |->
       IF i \in targets /\ i < p
       THEN [rid |-> m.docs[i].rid, doc |-> UpdateAt(m, spec, i).doc]
       ELSE m.docs[i]]]

UpdateClashes(m, targets, spec, p) ==
  /\ UpdateAt(m, spec, p).doc # m.docs[p].doc
  /\ UniqueClash(UpdatedBelow(m, targets, spec, p), m.docs[p].rid, UpdateAt(m, spec, p).doc)

(* The slots whose turn ends the call: a failing update or a duplicate key. *)
UpdateStops(m, targets, spec) ==
  {p \in targets : UpdateAt(m, spec, p).err # 0 \/ UpdateClashes(m, targets, spec, p)}

InsertSeed(m, seed) ==
  IF seed.err # 0 THEN [mem |-> m, err |-> seed.err]
  ELSE IF UniqueClash(m, InvalidRecordId, seed.doc) THEN [mem |-> m, err |-> DuplicateKey]
  ELSE [mem |-> Grow(m, m.next, <<seed.doc>>), err |-> 0]

Update(m, filter, spec, multi, upsert, oid) ==
  LET targets == Targets(m, filter, multi)
      stops == UpdateStops(m, targets, spec)
  IN  IF targets = {} /\ upsert THEN InsertSeed(m, SeedUpsert(filter, spec, oid))
      ELSE IF stops = {} THEN [mem |-> UpdatedBelow(m, targets, spec, m.end + 1), err |-> 0]
      ELSE LET p == CHOOSE p \in stops : \A q \in stops : p <= q
           IN  [mem |-> UpdatedBelow(m, targets, spec, p),
                err |-> IF UpdateAt(m, spec, p).err # 0
                        THEN UpdateAt(m, spec, p).err ELSE DuplicateKey]

Erase(m, filter, single) ==
  LET gone == Targets(m, filter, ~single)
  IN  [mem |-> [m EXCEPT !.docs = [i \in DOMAIN m.docs \ gone |-> m.docs[i]]],
       err |-> 0]

(***************************************************************************)
(* Index definitions.                                                      *)
(***************************************************************************)

HasDuplicates(m, paths) ==
  \E i, j \in DOMAIN m.docs :
    /\ m.docs[i].rid # m.docs[j].rid
    /\ SharesKey(m.docs[i].doc, m.docs[j].doc, paths)

CreateIndex(m, name, paths, unique) ==
  IF paths = <<>> THEN [mem |-> m, err |-> InvalidIndexSpecification]
  ELSE IF m.idx[name] # NoIndex THEN [mem |-> m, err |-> 0]
  ELSE IF unique /\ HasDuplicates(m, paths) THEN [mem |-> m, err |-> DuplicateKey]
  ELSE [mem |-> [m EXCEPT !.idx[name] = [paths |-> paths, unique |-> unique]], err |-> 0]

(* Mutant: drop_index without the check for the _id index. *)
DropAnyIndex(m, name) == [mem |-> [m EXCEPT !.idx[name] = NoIndex], err |-> 0]

DropIndex(m, name) ==
  IF name = IdIndexName THEN [mem |-> m, err |-> CannotDropIdIndex]
  ELSE [mem |-> [m EXCEPT !.idx[name] = NoIndex], err |-> 0]

(***************************************************************************)
(* Loading a snapshot into a collection, which need not be empty: records  *)
(* are appended, next_record_id is overwritten, and each index is created  *)
(* through create_index without its options.                               *)
(***************************************************************************)
LoadSnapshot(m, snap) ==
  [docs |-> [i \in DOMAIN m.docs \cup {m.end + k : k \in DOMAIN snap.docs} |->
               IF i <= m.end THEN m.docs[i] ELSE snap.docs[i - m.end]],
   end  |-> m.end + snap.end,
   next |-> snap.next,
   idx  |-> [n \in IndexNames |->
               IF m.idx[n] = NoIndex /\ snap.idx[n] # NoIndex
               THEN [paths |-> snap.idx[n].paths, unique |-> FALSE]
               ELSE m.idx[n]]]

(***************************************************************************)
(* The write calls of the storage interface, and what they do.             *)
(***************************************************************************)
Requests ==
  [op : {"insert"}, docs : Seq(Docs)]
    \cup [op : {"update"}, filter : Filters, spec : Specs, multi : BOOLEAN, upsert : BOOLEAN]
    \cup [op : {"erase"}, filter : Filters, single : BOOLEAN]
    \cup [op : {"createIndex"}, name : IndexNames, paths : KeyPaths \cup {<<>>}, unique : BOOLEAN]
    \cup [op : {"dropIndex"}, name : IndexNames]

Exec(m, w, oid) ==
  CASE w.op = "insert" -> Insert(m, w.docs)
    [] w.op = "update" -> Update(m, w.filter, w.spec, w.multi, w.upsert, oid)
    [] w.op = "erase" -> Erase(m, w.filter, w.single)
    [] w.op = "createIndex" -> CreateIndex(m, w.name, w.paths, w.unique)
    [] w.op = "dropIndex" -> DropIndex(m, w.name)

=============================================================================
