---------------------------- MODULE MemoryStore ----------------------------
(***************************************************************************)
(* The inside of an in-memory collection: the vector of slots with its     *)
(* tombstones, the indexes that every write keeps up to date, and the      *)
(* cursors that read both while writes go on (core/src/storage/memory.cpp, *)
(* core/src/index/manager.cpp, core/include/savannah/storage/              *)
(* vector_iterator.h).                                                     *)
(*                                                                         *)
(* A write call runs alone, one pass of its loop per step; cursors are     *)
(* read between calls.  MemoryCollection says what a call does to the      *)
(* collection's value and knows no index keys; CallMatchesCollection says  *)
(* that the loops below do the same.                                       *)
(***************************************************************************)
EXTENDS MemoryCollection, IndexPlanner

CONSTANTS
  ClearsOrder(_, _), \* ClearsOrder(doc, paths): doc ends ordered reads of such an index
  Calls,             \* the write calls clients make
  Queries,           \* the finds clients make: [filter, sort, skip, limit]
  Cursors,           \* names for the open cursors
  MaxSlots           \* bound: no call starts that might append beyond this many slots

ASSUME StoreAssumption ==
  /\ Calls \subseteq Requests
  /\ Oids # {}
  /\ MaxSlots \in Nat
  /\ \A d \in Docs, p \in KeyPaths : ClearsOrder(d, p) \in BOOLEAN

VARIABLES
  slots,   \* slots_, and by its record ids slot_by_id_
  nextRid, \* next_record_id_
  indexes, \* indexes_, see IndexPlanner
  call,    \* the write call in progress
  cursors  \* the iterators

vars == <<slots, nextRid, indexes, call, cursors>>

Slots == [rid : Nat \ {InvalidRecordId}, doc : Docs, deleted : BOOLEAN]
Live == {p \in DOMAIN slots : ~slots[p].deleted}

(* The collection's value, as MemoryCollection has it. *)
Collection ==
  [docs |-> [p \in Live |-> [rid |-> slots[p].rid, doc |-> slots[p].doc]],
   end  |-> Len(slots),
   next |-> nextRid,
   idx  |-> [n \in IndexNames |-> [paths |-> indexes[n].paths, unique |-> indexes[n].unique]]]

-----------------------------------------------------------------------------
(* Index maintenance.                                                       *)

KeysIn(entry, rid, doc) == {<<k, rid>> : k \in DocKeys(doc, entry.paths)}

(* Every index takes the document's keys; one that has them already keeps them. *)
OnInsert(ix, rid, doc) ==
  [n \in IndexNames |->
     IF ix[n] = NoEntry THEN NoEntry
     ELSE [ix[n] EXCEPT !.keys = @ \cup KeysIn(ix[n], rid, doc),
                        !.ordered = @ /\ ~ClearsOrder(doc, ix[n].paths)]]

(* Mutant: an update adds the new keys and leaves the old ones. *)
OnEraseNothing(ix, rid, doc) == ix

OnErase(ix, rid, doc) ==
  [n \in IndexNames |->
     IF ix[n] = NoEntry THEN NoEntry
     ELSE [ix[n] EXCEPT !.keys = @ \ KeysIn(ix[n], rid, doc)]]

(* Mutant: the check skips no record, not even the document's own. *)
ViolatedBySelf(ix, rid, doc) ==
  {n \in IndexNames :
     ix[n].unique /\ \E x \in ix[n].keys : x[1] \in DocKeys(doc, ix[n].paths)}

(* Mutant: only the records before the document's own are looked at. *)
ViolatedByEarlier(ix, rid, doc) ==
  {n \in IndexNames :
     /\ ix[n].unique
     /\ \E x \in ix[n].keys : x[2] < rid /\ x[1] \in DocKeys(doc, ix[n].paths)}

(* would_violate_unique: the unique indexes where another record has a key of doc. *)
Violated(ix, rid, doc) ==
  {n \in IndexNames :
     /\ ix[n].unique
     /\ \E x \in ix[n].keys : x[2] # rid /\ x[1] \in DocKeys(doc, ix[n].paths)}

-----------------------------------------------------------------------------
(* Write calls.                                                             *)

NoCall == [op |-> "none"]

(* The state of a call: the next position of its loop, where the loop ends, *)
(* whether it matched a document (update) or registered its index           *)
(* (createIndex), its result, and the collection it started with (history). *)
Start(w) ==
  [op |-> w.op, req |-> w, at |-> 1,
   end |-> IF w.op = "insert" THEN Len(w.docs) ELSE Len(slots),
   hit |-> FALSE, err |-> 0, done |-> FALSE, before |-> Collection]

Begin(w) ==
  /\ call = NoCall
  /\ w.op = "insert" => Len(slots) + Len(w.docs) <= MaxSlots
  /\ w.op = "update" /\ w.upsert => Len(slots) < MaxSlots
  /\ call' = Start(w)
  /\ UNCHANGED <<slots, nextRid, indexes, cursors>>

Running(op) == call.op = op /\ ~call.done

Finish(err) == call' = [call EXCEPT !.err = err, !.done = TRUE]

Return ==
  /\ call # NoCall /\ call.done
  /\ call' = NoCall
  /\ UNCHANGED <<slots, nextRid, indexes, cursors>>

AppendDoc(doc) ==
  /\ slots' = Append(slots, [rid |-> nextRid, doc |-> doc, deleted |-> FALSE])
  /\ nextRid' = nextRid + 1
  /\ indexes' = OnInsert(indexes, nextRid, doc)

(* insert: one document of the batch. *)
InsertOne ==
  /\ Running("insert")
  /\ call.at <= call.end
  /\ Violated(indexes, InvalidRecordId, call.req.docs[call.at]) = {}
  /\ AppendDoc(call.req.docs[call.at])
  /\ call' = [call EXCEPT !.at = @ + 1]
  /\ UNCHANGED cursors

InsertRefused ==
  /\ Running("insert")
  /\ call.at <= call.end
  /\ Violated(indexes, InvalidRecordId, call.req.docs[call.at]) # {}
  /\ Finish(DuplicateKey)
  /\ UNCHANGED <<slots, nextRid, indexes, cursors>>

InsertEnds ==
  /\ Running("insert")
  /\ call.at > call.end
  /\ Finish(0)
  /\ UNCHANGED <<slots, nextRid, indexes, cursors>>

(* The slots the loop of update or erase has ahead, and the next of them. *)
Hits == {p \in Live : call.at <= p /\ p <= call.end /\ Matches(slots[p].doc, call.req.filter)}
IsNextHit(p) == p \in Hits /\ \A q \in Hits : p <= q

(* Past slot p, or at the end of the loop if it was to stop here. *)
Past(p, stop) == IF stop THEN call.end + 1 ELSE p + 1

(* A change of the document rid: what a cursor must return of it (history). *)
Disturb(rid, StillMatches(_)) ==
  cursors' = [c \in Cursors |->
    [cursors[c] EXCEPT !.steady =
       {r \in @ : r # rid \/ StillMatches(cursors[c].query.filter)}]]

(* update: the document in slot p. *)
UpdateOne(p) ==
  /\ Running("update")
  /\ IsNextHit(p)
  /\ LET slot == slots[p]
         outcome == ApplyUpdate(slot.doc, call.req.spec)
     IN  /\ outcome.err = 0
         /\ outcome.doc # slot.doc => Violated(indexes, slot.rid, outcome.doc) = {}
         /\ slots' = [slots EXCEPT ![p].doc = outcome.doc]
         /\ IF outcome.doc = slot.doc THEN UNCHANGED <<indexes, cursors>>
            ELSE /\ indexes' = OnInsert(OnErase(indexes, slot.rid, slot.doc), slot.rid, outcome.doc)
                 /\ Disturb(slot.rid, LAMBDA f : Matches(outcome.doc, f))
  /\ call' = [call EXCEPT !.at = Past(p, ~call.req.multi), !.hit = TRUE]
  /\ UNCHANGED nextRid

UpdateRefused(p) ==
  /\ Running("update")
  /\ IsNextHit(p)
  /\ LET slot == slots[p]
         outcome == ApplyUpdate(slot.doc, call.req.spec)
     IN  \/ outcome.err # 0 /\ Finish(outcome.err)
         \/ /\ outcome.err = 0 /\ outcome.doc # slot.doc
            /\ Violated(indexes, slot.rid, outcome.doc) # {}
            /\ Finish(DuplicateKey)
  /\ UNCHANGED <<slots, nextRid, indexes, cursors>>

UpdateEnds ==
  /\ Running("update")
  /\ Hits = {}
  /\ call.hit \/ ~call.req.upsert
  /\ Finish(0)
  /\ UNCHANGED <<slots, nextRid, indexes, cursors>>

Upsert(oid) ==
  /\ Running("update")
  /\ Hits = {}
  /\ ~call.hit /\ call.req.upsert
  /\ LET seed == SeedUpsert(call.req.filter, call.req.spec, oid)
         refused == seed.err # 0 \/ Violated(indexes, InvalidRecordId, seed.doc) # {}
     IN  IF refused
         THEN /\ Finish(IF seed.err # 0 THEN seed.err ELSE DuplicateKey)
              /\ UNCHANGED <<slots, nextRid, indexes>>
         ELSE AppendDoc(seed.doc) /\ Finish(0)
  /\ UNCHANGED cursors

(* Mutant: the slots behind move up, so that the deleted one is the last. *)
BuryAtEnd(p) ==
  [i \in DOMAIN slots |-> IF i < p THEN slots[i]
                         ELSE IF i < Len(slots) THEN slots[i + 1]
                         ELSE [slots[p] EXCEPT !.deleted = TRUE]]

(* A deleted document leaves its slot behind, so positions stay. *)
Bury(p) == [slots EXCEPT ![p].deleted = TRUE]

(* erase: the document in slot p. *)
EraseOne(p) ==
  /\ Running("erase")
  /\ IsNextHit(p)
  /\ indexes' = OnErase(indexes, slots[p].rid, slots[p].doc)
  /\ slots' = Bury(p)
  /\ Disturb(slots[p].rid, LAMBDA f : FALSE)
  /\ call' = [call EXCEPT !.at = Past(p, call.req.single)]
  /\ UNCHANGED nextRid

EraseEnds ==
  /\ Running("erase")
  /\ Hits = {}
  /\ Finish(0)
  /\ UNCHANGED <<slots, nextRid, indexes, cursors>>

(* createIndex: registered empty, then filled from the live slots in order. *)
RegisterIndex ==
  /\ Running("createIndex") /\ ~call.hit
  /\ LET w == call.req
     IN  IF w.paths = <<>> THEN Finish(InvalidIndexSpecification) /\ UNCHANGED indexes
         ELSE IF indexes[w.name] # NoEntry THEN Finish(0) /\ UNCHANGED indexes
         ELSE /\ call' = [call EXCEPT !.hit = TRUE]
              /\ indexes' = [indexes EXCEPT ![w.name] =
                               [NoEntry EXCEPT !.paths = w.paths, !.unique = w.unique]]
  /\ UNCHANGED <<slots, nextRid, cursors>>

Filling == Running("createIndex") /\ call.hit
Unfilled == {p \in Live : call.at <= p}
IsNextUnfilled(p) == p \in Unfilled /\ \A q \in Unfilled : p <= q

(* The keys go into every index, most of which have them.  The check of a    *)
(* unique index looks at the first index violated, which may be another one. *)
FillOne(p) ==
  /\ Filling
  /\ IsNextUnfilled(p)
  /\ call.req.unique => Violated(indexes, slots[p].rid, slots[p].doc) # {call.req.name}
  /\ indexes' = OnInsert(indexes, slots[p].rid, slots[p].doc)
  /\ call' = [call EXCEPT !.at = p + 1]
  /\ UNCHANGED <<slots, nextRid, cursors>>

FillRefused(p) ==
  /\ Filling
  /\ IsNextUnfilled(p)
  /\ call.req.unique
  /\ call.req.name \in Violated(indexes, slots[p].rid, slots[p].doc)
  /\ indexes' = [indexes EXCEPT ![call.req.name] = NoEntry]
  /\ Finish(DuplicateKey)
  /\ UNCHANGED <<slots, nextRid, cursors>>

FillEnds ==
  /\ Filling
  /\ Unfilled = {}
  /\ Finish(0)
  /\ UNCHANGED <<slots, nextRid, indexes, cursors>>

DropOne ==
  /\ Running("dropIndex")
  /\ IF call.req.name = IdIndexName
     THEN Finish(CannotDropIdIndex) /\ UNCHANGED indexes
     ELSE Finish(0) /\ indexes' = [indexes EXCEPT ![call.req.name] = NoEntry]
  /\ UNCHANGED <<slots, nextRid, cursors>>

-----------------------------------------------------------------------------
(* Finding.  A cursor walks the slots up to where they ended when it was    *)
(* opened, or a list of record ids; a list is read through the filter again *)
(* ("lookup") or as it is ("sorted", the documents sorted when it opened).  *)

Unlimited == -1

NoCursor == [kind |-> "none", steady |-> {}]

Cursor(kind, list, end, q, skip, limit) ==
  [kind |-> kind, query |-> q, list |-> list, at |-> 1, end |-> end, skip |-> skip,
   left |-> IF limit = 0 THEN Unlimited ELSE limit,
   seen |-> <<>>,       \* history: the record ids it returned
   steady |-> {slots[p].rid : p \in {p \in Live : Matches(slots[p].doc, q.filter)}}]
                        \* history: those that matched since it was opened

(* Mutant: the candidates of an index are not checked again. *)
YieldsUnchecked(cur, p) ==
  CASE cur.kind = "scan" -> ~slots[p].deleted /\ Matches(slots[p].doc, cur.query.filter)
    [] cur.kind = "lookup" -> \E i \in Live : slots[i].rid = cur.list[p]
    [] cur.kind = "sorted" -> TRUE

(* Whether the iterator would return what is at position p of its walk. *)
Yields(cur, p) ==
  CASE cur.kind = "scan" -> ~slots[p].deleted /\ Matches(slots[p].doc, cur.query.filter)
    [] cur.kind = "lookup" -> \E i \in Live : /\ slots[i].rid = cur.list[p]
                                              /\ Matches(slots[i].doc, cur.query.filter)
    [] cur.kind = "sorted" -> TRUE

RidAt(cur, p) == IF cur.kind = "scan" THEN slots[p].rid ELSE cur.list[p]

Ahead(cur) == {p \in cur.at .. cur.end : Yields(cur, p)}

(* The position of the next document, behind those to skip. *)
IsNext(cur, p) ==
  /\ cur.left # 0
  /\ p \in Ahead(cur)
  /\ Cardinality({q \in Ahead(cur) : q < p}) = cur.skip

(* The record ids a cursor returns if nothing is written meanwhile. *)
Drained(cur) ==
  LET all == Arranged(Ahead(cur), {o \in Ahead(cur) \X Ahead(cur) : o[1] < o[2]})
      last == IF cur.left = Unlimited THEN Len(all) ELSE cur.skip + cur.left
      kept == SubSeq(all, cur.skip + 1, IF last < Len(all) THEN last ELSE Len(all))
  IN  [i \in DOMAIN kept |-> RidAt(cur, kept[i])]

SlotOf(rid) == CHOOSE p \in DOMAIN slots : slots[p].rid = rid

(* stable_sort of a list of record ids by their documents. *)
SortOrder(rids, sort) ==
  {o \in (DOMAIN rids) \X (DOMAIN rids) :
     LET d == slots[SlotOf(rids[o[1]])].doc
         e == slots[SlotOf(rids[o[2]])].doc
     IN  SortLess(d, e, sort) \/ (~SortLess(e, d, sort) /\ o[1] < o[2])}

StableSort(rids, sort) ==
  LET order == Arranged(DOMAIN rids, SortOrder(rids, sort))
  IN  [i \in DOMAIN order |-> rids[order[i]]]

Scan(q, skip, limit) == Cursor("scan", <<>>, Len(slots), q, skip, limit)
Lookup(list, q, skip, limit) == Cursor("lookup", list, Len(list), q, skip, limit)

(* make_filter_iterator *)
Unsorted(q, skip, limit) ==
  UNION {IF plan = NoPlan THEN {Scan(q, skip, limit)}
         ELSE {Lookup(list, q, skip, limit) : list \in PlanResults(indexes, plan)} :
         plan \in LookupPlans(indexes, q.filter)}

(* find() by an index in sort order. *)
BySortIndex(n, q) ==
  {Lookup(SortedResults(indexes[n], plan, q.sort), q, q.skip, q.limit) :
     plan \in LookupPlans(indexes, q.filter)}

(* find() by sorting what the filter finds: skip and limit are applied at once. *)
BySorting(q) ==
  {LET all == StableSort(Drained(base), q.sort)
       list == Drained(Cursor("sorted", all, Len(all), q, q.skip, q.limit))
   IN  Cursor("sorted", list, Len(list), q, 0, 0) : base \in Unsorted(q, 0, 0)}

Find(q) ==
  LET sortable == {n \in SortIndexes(indexes, q.sort) : indexes[n].ordered}
      mixed == SortIndexes(indexes, q.sort) \ sortable
  IN  IF q.sort = <<>> THEN Unsorted(q, q.skip, q.limit)
      ELSE (UNION {BySortIndex(n, q) : n \in sortable})
             \cup (IF mixed # {} \/ sortable = {} THEN BySorting(q) ELSE {})

(* has_next(): the iterator moves to its next document, and never looks back. *)
Settle(cur) ==
  IF \E p \in Ahead(cur) : IsNext(cur, p)
  THEN [cur EXCEPT !.at = CHOOSE p \in Ahead(cur) : IsNext(cur, p), !.skip = 0]
  ELSE [cur EXCEPT !.kind = "ended"]

(* next() *)
Advance(cur) ==
  [cur EXCEPT !.seen = Append(@, RidAt(cur, cur.at)),
              !.at = @ + 1,
              !.left = IF @ = Unlimited THEN @ ELSE @ - 1]

(* find, and the has_next() of a first batch; its documents are fetched next. *)
OpenCursor(c, q) ==
  /\ call = NoCall
  /\ cursors[c] = NoCursor
  /\ \E cur \in Find(q) : cursors' = [cursors EXCEPT ![c] = Settle(cur)]
  /\ UNCHANGED <<slots, nextRid, indexes, call>>

(* One document of a batch: has_next() and next(), then has_next() again, for *)
(* drain_batch also tells whether there is more.                              *)
Fetch(c) ==
  /\ call = NoCall
  /\ cursors[c].kind \in {"scan", "lookup", "sorted"}
  /\ LET cur == Settle(cursors[c])
     IN  cursors' = [cursors EXCEPT ![c] = IF cur.kind = "ended" THEN cur ELSE Settle(Advance(cur))]
  /\ UNCHANGED <<slots, nextRid, indexes, call>>

(* A cursor at its end is dropped, and one that is not may be killed. *)
CloseCursor(c) ==
  /\ call = NoCall
  /\ cursors[c] # NoCursor
  /\ cursors' = [cursors EXCEPT ![c] = NoCursor]
  /\ UNCHANGED <<slots, nextRid, indexes, call>>

-----------------------------------------------------------------------------

(* Mutant: the first record gets the id that means "no record". *)
FirstRidInvalid == InvalidRecordId

FirstRid == 1

Init ==
  /\ slots = <<>>
  /\ nextRid = FirstRid
  /\ indexes = [n \in IndexNames |-> IF n = IdIndexName THEN [NoEntry EXCEPT !.paths = IdPaths]
                                     ELSE NoEntry]
  /\ call = NoCall
  /\ cursors = [c \in Cursors |-> NoCursor]

Next ==
  \/ \E w \in Calls : Begin(w)
  \/ InsertOne \/ InsertRefused \/ InsertEnds
  \/ \E p \in DOMAIN slots : UpdateOne(p) \/ UpdateRefused(p) \/ EraseOne(p)
  \/ UpdateEnds \/ EraseEnds
  \/ \E oid \in Oids : Upsert(oid)
  \/ RegisterIndex \/ FillEnds \/ DropOne
  \/ \E p \in DOMAIN slots : FillOne(p) \/ FillRefused(p)
  \/ Return
  \/ \E c \in Cursors, q \in Queries : OpenCursor(c, q)
  \/ \E c \in Cursors : Fetch(c) \/ CloseCursor(c)

Spec == Init /\ [][Next]_vars

-----------------------------------------------------------------------------
(* Properties.                                                              *)

Keys == UNION {DocKeys(d, paths) : d \in Docs, paths \in KeyPaths}

IndexEntries ==
  {NoEntry} \cup [paths : KeyPaths, unique : BOOLEAN, ordered : BOOLEAN,
                  keys : SUBSET (Keys \X Nat)]

Indexes == [IndexNames -> IndexEntries]

CallOK ==
  /\ call = [op |-> call.op, req |-> call.req, at |-> call.at, end |-> call.end,
             hit |-> call.hit, err |-> call.err, done |-> call.done, before |-> call.before]
  /\ call.req \in Calls /\ call.op = call.req.op
  /\ call.at \in Nat \ {0} /\ call.end \in Nat /\ call.err \in Nat
  /\ call.op = "insert" => call.end = Len(call.req.docs)
  /\ call.hit \in BOOLEAN /\ call.done \in BOOLEAN

(* Every variable has the shape the code gives it. *)
TypeOK ==
  /\ slots \in Seq(Slots)
  /\ nextRid \in Nat \ {InvalidRecordId}
  /\ indexes \in Indexes
  /\ call = NoCall \/ CallOK

(* The slots whose keys index n has: all the live ones, and while createIndex *)
(* fills it only those its loop has passed.                                   *)
Covered(n) == IF Filling /\ call.req.name = n THEN Live \ Unfilled ELSE Live

(* An index holds exactly the keys of the live documents, whatever writes,   *)
(* refused ones among them, came before: on_insert and on_erase undo each    *)
(* other, and record ids tell documents apart.                               *)
IndexHoldsLiveKeys ==
  \A n \in Existing(indexes) :
    indexes[n].keys = UNION {KeysIn(indexes[n], slots[p].rid, slots[p].doc) : p \in Covered(n)}

(* No two live documents share a key of a unique index that is complete.     *)
UniqueIsUnique ==
  \A n \in IndexNames :
    indexes[n].unique =>
      \A p, q \in Covered(n) :
        p # q => ~SharesKey(slots[p].doc, slots[q].doc, indexes[n].paths)

(* What makes the last two inductive: later slots have higher record ids, so *)
(* no two documents share one, and an index that is being filled is the one   *)
(* the call asked for.                                                        *)
RidsInOrder ==
  \A p \in DOMAIN slots :
    /\ slots[p].rid < nextRid
    /\ \A q \in DOMAIN slots : p < q => slots[p].rid < slots[q].rid

FillingInOrder ==
  Running("createIndex") =>
    IF call.hit
    THEN /\ indexes[call.req.name] # NoEntry
         /\ indexes[call.req.name].unique = call.req.unique
    ELSE call.at = 1

StoreInv ==
  TypeOK /\ RidsInOrder /\ FillingInOrder /\ IndexHoldsLiveKeys /\ UniqueIsUnique

(* A call that is done has done to the collection what MemoryCollection says *)
(* of it, and with the same result: the loops with their indexes against the *)
(* documents alone, the failing document in the middle included.             *)
CallMatchesCollection ==
  call # NoCall /\ call.done =>
    \E oid \in Oids : [mem |-> Collection, err |-> call.err] = Exec(call.before, call.req, oid)

(* What a call in progress has done, in terms of the collection it found:    *)
(* insert has stored the documents before its position, none of which clash; *)
InsertSoFar ==
  LET docs == call.req.docs
  IN  /\ call.at <= call.end + 1
      /\ Collection = Grow(call.before, call.before.next, SubSeq(docs, 1, call.at - 1))
      /\ \A j \in 1 .. call.at - 1 : ~InsertClashes(call.before, docs, j)

(* update has changed the targets before its position, none of which stops   *)
(* it, and an update of one document is through once it has hit it;          *)
UpdateSoFar ==
  LET targets == Targets(call.before, call.req.filter, call.req.multi)
  IN  /\ call.end = call.before.end /\ call.at <= call.end + 1
      /\ Collection = UpdatedBelow(call.before, targets, call.req.spec, call.at)
      /\ \A p \in UpdateStops(call.before, targets, call.req.spec) : call.at <= p
      /\ IF call.hit
         THEN (\E p \in targets : p < call.at) /\ (call.req.multi \/ call.at = call.end + 1)
         ELSE call.at = 1

(* erase has deleted the targets before its position;                        *)
ErasedBelow(m, gone, p) ==
  [m EXCEPT !.docs = [i \in DOMAIN m.docs \ {q \in gone : q < p} |-> m.docs[i]]]

EraseSoFar ==
  /\ call.end = call.before.end
  /\ Collection = ErasedBelow(call.before,
                              Targets(call.before, call.req.filter, ~call.req.single), call.at)
  /\ call.req.single => call.at \in {1, call.end + 1}

(* createIndex has at most registered its index; dropIndex has done nothing. *)
IndexSoFar ==
  IF call.op = "createIndex" /\ call.hit
  THEN /\ call.req.paths # <<>> /\ call.before.idx[call.req.name] = NoIndex
       /\ Collection = [call.before EXCEPT !.idx[call.req.name] =
                          [paths |-> call.req.paths, unique |-> call.req.unique]]
  ELSE Collection = call.before

CallSoFar ==
  /\ call.op = "insert" => InsertSoFar
  /\ call.op = "update" => UpdateSoFar
  /\ call.op = "erase" => EraseSoFar
  /\ call.op \in {"createIndex", "dropIndex"} => IndexSoFar

(* The loops are right at every position: what makes CallMatchesCollection   *)
(* inductive, with indexes that tell the same clashes as the documents do.   *)
CallInv ==
  /\ StoreInv
  /\ indexes[IdIndexName] # NoEntry
  /\ call # NoCall =>
       /\ IsMemory(call.before)
       /\ IF call.done THEN CallMatchesCollection ELSE CallSoFar

(* To its callers a call takes effect in one step, its last: up to then the  *)
(* collection has the value the call found, and no step between calls, of a  *)
(* cursor or other, changes it.                                              *)
Outcomes(m, w) == {Exec(m, w, oid) : oid \in Oids}

Atomic == INSTANCE AtomicCollection WITH
  Initial <- Fresh,
  value <- IF call # NoCall /\ ~call.done THEN call.before ELSE Collection,
  answer <- IF call # NoCall /\ call.done THEN [req |-> call.req, err |-> call.err]
            ELSE [err |-> "none"]
CallsAreAtomic == Atomic!Spec

(* What find() must return: the documents a scan finds, sorted.              *)
Reference(q) ==
  LET all == StableSort(Drained(Scan(q, 0, 0)), q.sort)
  IN  Drained(Cursor("sorted", all, Len(all), q, q.skip, q.limit))

SortKey(rid, sort) == SortValues(slots[SlotOf(rid)].doc, sort)

(* However find() is planned, it returns as many documents as a scan that is  *)
(* sorted and then cut, no document twice, only documents that match, and in  *)
(* each place one that sorts like the scan's.                                 *)
FindAgreesWithScan ==
  call = NoCall /\ (\A c \in Cursors : cursors[c] = NoCursor) =>
    \A q \in Queries : \A cur \in Find(q) :
      LET found == Drained(cur)
          wanted == Reference(q)
      IN  /\ Len(found) = Len(wanted)
          /\ \A i, j \in DOMAIN found : found[i] = found[j] => i = j
          /\ \A i \in DOMAIN found :
               /\ \E p \in Live : slots[p].rid = found[i] /\ Matches(slots[p].doc, q.filter)
               /\ SortKey(found[i], q.sort) = SortKey(wanted[i], q.sort)

(* A cursor returns no document twice, however it changes while the cursor   *)
(* is open.                                                                  *)
CursorReturnsOnce ==
  \A c \in Cursors :
    cursors[c] # NoCursor =>
      \A i, j \in DOMAIN cursors[c].seen : cursors[c].seen[i] = cursors[c].seen[j] => i = j

(* A cursor without skip or limit that came to its end has returned every    *)
(* document that matched from its opening on, whatever was inserted, updated *)
(* and deleted between its batches.                                          *)
CursorMissesNothing ==
  \A c \in Cursors :
    cursors[c].kind = "ended" /\ cursors[c].query.skip = 0 /\ cursors[c].query.limit = 0 =>
      \A r \in cursors[c].steady : \E i \in DOMAIN cursors[c].seen : cursors[c].seen[i] = r

-----------------------------------------------------------------------------
(* What the proofs about find() and its cursors ask of the constants.  The   *)
(* limits on arrays, paths and clauses are the code's: beyond each of them    *)
(* one of the properties fails.                                              *)

UsedPaths ==
  UNION ({{paths[i] : i \in DOMAIN paths} : paths \in KeyPaths}
           \cup {DOMAIN q.filter : q \in Queries}
           \cup {{q.sort[i].path : i \in DOMAIN q.sort} : q \in Queries})

(* The parameters are those of Documents. *)
QueryLayer ==
  /\ \A d \in Docs, q \in Queries : Matches(d, q.filter) = MatchesFilter(d, q.filter)
  /\ \A d \in Docs, paths \in KeyPaths :
       DocKeys(d, paths) = KeysOf(d, paths) /\ ClearsOrder(d, paths) = HasArray(d, paths)

IsField(f) ==
  /\ IsFiniteSet(f.of) /\ f.of \subseteq Nat
  /\ \/ f.kind = "absent" /\ f.of = {}
     \/ f.kind = "one" /\ \E v \in f.of : f.of = {v}
     \/ f.kind = "array"

(* No document has arrays under two paths of one index.                      *)
PlainDocuments ==
  /\ \A d \in Docs, p \in UsedPaths : IsField(d[p])
  /\ \A d \in Docs, paths \in KeyPaths : \A i, j \in DOMAIN paths :
       d[paths[i]].kind = "array" /\ d[paths[j]].kind = "array" => i = j

(* No index has a proper prefix of two paths.                                *)
PlainIndexes == \A paths \in KeyPaths : paths \in Seq(UsedPaths) /\ Len(paths) <= 2

(* No filter has a regular expression.                                       *)
PlainQueries ==
  \A q \in Queries :
    /\ q.skip \in Nat /\ q.limit \in Nat
    /\ q.sort \in Seq([path : UsedPaths, ascending : BOOLEAN])
    /\ \A p \in DOMAIN q.filter :
         \/ q.filter[p].op \in {"eq", "ne"}
         \/ /\ q.filter[p].op = "range"
            /\ q.filter[p].low.key \in Int /\ q.filter[p].high.key \in Int

PlainWorkload == QueryLayer /\ PlainDocuments /\ PlainIndexes /\ PlainQueries

(* No range is asked of a path that may hold an array.                       *)
RangesOverValues ==
  \A q \in Queries : \A p \in DOMAIN q.filter :
    q.filter[p].op = "range" => \A d \in Docs : d[p].kind # "array"
=============================================================================
