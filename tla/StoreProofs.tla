---------------------------- MODULE StoreProofs ----------------------------
(***************************************************************************)
(* For every set of documents, filters, calls and index keys: the indexes  *)
(* of MemoryStore hold exactly the keys of the live documents, and unique  *)
(* indexes are unique.  Cursors change neither, so they do not appear.     *)
(***************************************************************************)
EXTENDS MemoryStore, MemoryProofs

-----------------------------------------------------------------------------
(* Entries and pairs.                                                       *)

(* The keys of a document are pairs an index may hold. *)
LEMMA KeysInType ==
  ASSUME NEW entry, entry.paths \in KeyPaths, NEW rid \in Nat, NEW doc \in Docs
  PROVE  KeysIn(entry, rid, doc) \in SUBSET (Keys \X Nat)
BY DEF KeysIn, Keys

(* An entry whose index has a path is not NoEntry. *)
LEMMA EntryExists ==
  ASSUME NEW entry, entry.paths \in KeyPaths
  PROVE  entry # NoEntry
BY IndexAssumption DEF NoEntry

(* What a pair among the keys of a document says. *)
LEMMA PairInKeys ==
  ASSUME NEW entry, NEW rid, NEW doc, NEW x \in KeysIn(entry, rid, doc)
  PROVE  x[1] \in DocKeys(doc, entry.paths) /\ x[2] = rid /\ x = <<x[1], rid>>
BY DEF KeysIn

(* An index of a well-typed collection. *)
LEMMA ExistingEntry ==
  ASSUME NEW ix \in Indexes, NEW n \in IndexNames, ix[n] # NoEntry
  PROVE  /\ ix[n] \in [paths : KeyPaths, unique : BOOLEAN, ordered : BOOLEAN,
                       keys : SUBSET (Keys \X Nat)]
         /\ ix[n].paths \in KeyPaths
         /\ n \in Existing(ix)
BY DEF Indexes, IndexEntries, Existing

(* on_insert adds a document's keys to every index and creates none. *)
LEMMA OnInsertAdds ==
  ASSUME NEW ix \in Indexes, NEW rid \in Nat, NEW doc \in Docs
  PROVE  /\ OnInsert(ix, rid, doc) \in Indexes
         /\ \A n \in IndexNames :
              /\ ix[n] = NoEntry <=> OnInsert(ix, rid, doc)[n] = NoEntry
              /\ ix[n] # NoEntry =>
                   /\ OnInsert(ix, rid, doc)[n].paths = ix[n].paths
                   /\ OnInsert(ix, rid, doc)[n].unique = ix[n].unique
                   /\ OnInsert(ix, rid, doc)[n].keys = ix[n].keys \cup KeysIn(ix[n], rid, doc)
<1> DEFINE new == OnInsert(ix, rid, doc)
<1>1. ASSUME NEW n \in IndexNames, ix[n] = NoEntry
      PROVE  new[n] = NoEntry
  BY <1>1 DEF OnInsert
<1>2. ASSUME NEW n \in IndexNames, ix[n] # NoEntry
      PROVE  /\ new[n] \in [paths : KeyPaths, unique : BOOLEAN, ordered : BOOLEAN,
                            keys : SUBSET (Keys \X Nat)]
             /\ new[n].paths = ix[n].paths
             /\ new[n].unique = ix[n].unique
             /\ new[n].keys = ix[n].keys \cup KeysIn(ix[n], rid, doc)
  <2>1. ix[n] \in [paths : KeyPaths, unique : BOOLEAN, ordered : BOOLEAN,
                   keys : SUBSET (Keys \X Nat)]
    BY <1>2, ExistingEntry
  <2>2. KeysIn(ix[n], rid, doc) \in SUBSET (Keys \X Nat)
    BY <2>1, KeysInType
  <2>3. (ix[n].ordered /\ ~ClearsOrder(doc, ix[n].paths)) \in BOOLEAN
    OBVIOUS
  <2>4. new[n] = [ix[n] EXCEPT !.keys = @ \cup KeysIn(ix[n], rid, doc),
                               !.ordered = @ /\ ~ClearsOrder(doc, ix[n].paths)]
    BY <1>2 DEF OnInsert
  <2> QED BY <2>1, <2>2, <2>3, <2>4
<1>3. \A n \in IndexNames : ix[n] # NoEntry => new[n] # NoEntry
  BY <1>2, EntryExists
<1>4. new \in Indexes
  <2>1. new = [n \in IndexNames |-> new[n]]
    BY DEF OnInsert
  <2> QED BY <1>1, <1>2, <2>1 DEF Indexes, IndexEntries
<1> QED BY <1>1, <1>2, <1>3, <1>4

(* on_erase removes a document's keys from every index and drops none. *)
LEMMA OnEraseRemoves ==
  ASSUME NEW ix \in Indexes, NEW rid \in Nat, NEW doc \in Docs
  PROVE  /\ OnErase(ix, rid, doc) \in Indexes
         /\ \A n \in IndexNames :
              /\ ix[n] = NoEntry <=> OnErase(ix, rid, doc)[n] = NoEntry
              /\ ix[n] # NoEntry =>
                   /\ OnErase(ix, rid, doc)[n].paths = ix[n].paths
                   /\ OnErase(ix, rid, doc)[n].unique = ix[n].unique
                   /\ OnErase(ix, rid, doc)[n].keys = ix[n].keys \ KeysIn(ix[n], rid, doc)
<1> DEFINE new == OnErase(ix, rid, doc)
<1>1. ASSUME NEW n \in IndexNames, ix[n] = NoEntry
      PROVE  new[n] = NoEntry
  BY <1>1 DEF OnErase
<1>2. ASSUME NEW n \in IndexNames, ix[n] # NoEntry
      PROVE  /\ new[n] \in [paths : KeyPaths, unique : BOOLEAN, ordered : BOOLEAN,
                            keys : SUBSET (Keys \X Nat)]
             /\ new[n].paths = ix[n].paths
             /\ new[n].unique = ix[n].unique
             /\ new[n].keys = ix[n].keys \ KeysIn(ix[n], rid, doc)
  <2>1. ix[n] \in [paths : KeyPaths, unique : BOOLEAN, ordered : BOOLEAN,
                   keys : SUBSET (Keys \X Nat)]
    BY <1>2, ExistingEntry
  <2>2. new[n] = [ix[n] EXCEPT !.keys = @ \ KeysIn(ix[n], rid, doc)]
    BY <1>2 DEF OnErase
  <2> QED BY <2>1, <2>2
<1>3. \A n \in IndexNames : ix[n] # NoEntry => new[n] # NoEntry
  BY <1>2, EntryExists
<1>4. new \in Indexes
  <2>1. new = [n \in IndexNames |-> new[n]]
    BY DEF OnErase
  <2> QED BY <1>1, <1>2, <2>1 DEF Indexes, IndexEntries
<1> QED BY <1>1, <1>2, <1>3, <1>4

-----------------------------------------------------------------------------
(* Calls.                                                                   *)

(* A call of one of the operations is in progress, and well-typed. *)
LEMMA RunningCall ==
  ASSUME TypeOK, NEW op \in {"insert", "update", "erase", "createIndex", "dropIndex"}, Running(op)
  PROVE  CallOK /\ call.op = op /\ call.done = FALSE
<1>1. call # NoCall
  BY DEF Running, NoCall
<1> QED BY <1>1 DEF TypeOK, Running, CallOK

(* A call that ends stays well-typed and runs no more. *)
LEMMA FinishedCall ==
  ASSUME CallOK, NEW err \in Nat, Finish(err)
  PROVE  CallOK' /\ call'.done = TRUE
BY DEF CallOK, Finish

(* So does one whose loop moves on. *)
LEMMA MovedCall ==
  ASSUME CallOK, NEW at \in Nat \ {0}, NEW hit \in BOOLEAN,
         call' = [call EXCEPT !.at = at, !.hit = hit]
  PROVE  CallOK' /\ call'.op = call.op /\ call'.req = call.req
                /\ call'.at = at /\ call'.hit = hit /\ call'.done = call.done
BY DEF CallOK

(* The parts of a request, as the storage interface has them. *)
LEMMA RequestParts ==
  ASSUME CallOK
  PROVE  /\ call.op = "insert" => call.req.docs \in Seq(Docs)
         /\ call.op = "update" => call.req.filter \in Filters /\ call.req.spec \in Specs
         /\ call.op = "createIndex" =>
              /\ call.req.name \in IndexNames
              /\ call.req.paths \in KeyPaths \cup {<<>>}
              /\ call.req.unique \in BOOLEAN
         /\ call.op = "dropIndex" => call.req.name \in IndexNames
<1>1. call.req \in Requests /\ call.op = call.req.op
  BY StoreAssumption DEF CallOK
<1> QED BY <1>1 DEF Requests

-----------------------------------------------------------------------------
(* What the invariant says of keys, one pair at a time.                     *)

LEMMA LiveSlot ==
  ASSUME TypeOK, NEW p \in DOMAIN slots
  PROVE  /\ p \in Nat \ {0} /\ p <= Len(slots)
         /\ slots[p] \in Slots
         /\ slots[p].rid \in Nat /\ slots[p].rid # InvalidRecordId
         /\ slots[p].doc \in Docs
<1>1. slots \in Seq(Slots)
  BY DEF TypeOK
<1>2. p \in 1 .. Len(slots) /\ slots[p] \in Slots
  BY <1>1
<1> QED BY <1>1, <1>2 DEF Slots

(* Record ids tell slots apart. *)
LEMMA RidsDiffer ==
  ASSUME TypeOK, RidsInOrder, NEW p \in DOMAIN slots, NEW q \in DOMAIN slots, p # q
  PROVE  slots[p].rid # slots[q].rid
<1>1. p \in Nat /\ q \in Nat /\ slots[p].rid \in Nat /\ slots[q].rid \in Nat
  BY LiveSlot
<1>2. p < q \/ q < p
  BY <1>1
<1> QED BY <1>1, <1>2 DEF RidsInOrder

(* Every key of a covered document is in the index. *)
LEMMA PairOfSlot ==
  ASSUME IndexHoldsLiveKeys, NEW n \in Existing(indexes), NEW p \in Covered(n),
         NEW k \in DocKeys(slots[p].doc, indexes[n].paths)
  PROVE  <<k, slots[p].rid>> \in indexes[n].keys
BY DEF IndexHoldsLiveKeys, KeysIn

(* Every pair of the index is a key of a covered document. *)
LEMMA SlotOfPair ==
  ASSUME IndexHoldsLiveKeys, NEW n \in Existing(indexes), NEW x \in indexes[n].keys
  PROVE  \E p \in Covered(n) :
           x[2] = slots[p].rid /\ x[1] \in DocKeys(slots[p].doc, indexes[n].paths)
<1>1. PICK p \in Covered(n) : x \in KeysIn(indexes[n], slots[p].rid, slots[p].doc)
  BY DEF IndexHoldsLiveKeys
<1> QED BY <1>1, PairInKeys

LEMMA CoveredIsLive ==
  ASSUME NEW n, NEW p \in Covered(n)
  PROVE  p \in Live /\ p \in DOMAIN slots
BY DEF Covered, Live

(* A unique index exists. *)
LEMMA UniqueExists ==
  ASSUME NEW ix \in Indexes, NEW n \in IndexNames, ix[n].unique
  PROVE  n \in Existing(ix) /\ ix[n] # NoEntry
BY DEF Indexes, IndexEntries, Existing, NoEntry

(* The check of a unique index finds every covered document that shares a   *)
(* key with doc, except the one with doc's own record id.                    *)
LEMMA CheckFindsClash ==
  ASSUME TypeOK, IndexHoldsLiveKeys, NEW n \in IndexNames, indexes[n].unique,
         NEW rid, NEW doc, NEW p \in Covered(n), slots[p].rid # rid,
         SharesKey(doc, slots[p].doc, indexes[n].paths)
  PROVE  n \in Violated(indexes, rid, doc)
<1>1. n \in Existing(indexes)
  BY UniqueExists DEF TypeOK
<1>2. PICK k \in DocKeys(doc, indexes[n].paths) : k \in DocKeys(slots[p].doc, indexes[n].paths)
  BY DEF SharesKey
<1>3. <<k, slots[p].rid>> \in indexes[n].keys
  BY <1>1, <1>2, PairOfSlot
<1> QED BY <1>2, <1>3 DEF Violated

-----------------------------------------------------------------------------
(* Steps that leave the slots and the indexes alone.                        *)

(* What is left to show of a step is that no index is being filled before   *)
(* or after it.                                                              *)
LEMMA SameStore ==
  ASSUME StoreInv, UNCHANGED <<slots, nextRid, indexes>>,
         call' = NoCall \/ CallOK', FillingInOrder',
         \A n \in IndexNames : Covered(n)' = Covered(n)
  PROVE  StoreInv'
<1>1. TypeOK'
  BY DEF StoreInv, TypeOK
<1>2. RidsInOrder'
  BY DEF StoreInv, RidsInOrder
<1>3. Existing(indexes)' = Existing(indexes) /\ Existing(indexes) \subseteq IndexNames
  BY DEF Existing, StoreInv, TypeOK, Indexes, IndexEntries
<1>4. IndexHoldsLiveKeys'
  <2> SUFFICES ASSUME NEW n \in Existing(indexes)
               PROVE  indexes[n].keys =
                        UNION {KeysIn(indexes[n], slots[p].rid, slots[p].doc) : p \in Covered(n)}
    BY <1>3 DEF IndexHoldsLiveKeys
  <2> QED BY DEF StoreInv, IndexHoldsLiveKeys
<1>5. UniqueIsUnique'
  BY DEF StoreInv, UniqueIsUnique
<1> QED BY <1>1, <1>2, <1>4, <1>5 DEF StoreInv

LEMMA CoveredIdle ==
  ASSUME ~Filling, NEW n
  PROVE  Covered(n) = Live
BY DEF Covered

(* A call that ends without a change, if it was not filling an index. *)
LEMMA FinishKeeps ==
  ASSUME StoreInv, CallOK, ~Filling, NEW err \in Nat, Finish(err),
         UNCHANGED <<slots, nextRid, indexes>>
  PROVE  StoreInv'
<1>1. CallOK' /\ call'.done = TRUE
  BY FinishedCall
<1>2. ~Filling' /\ FillingInOrder'
  BY <1>1 DEF Filling, Running, FillingInOrder
<1>3. \A n \in IndexNames : Covered(n)' = Covered(n)
  BY <1>2 DEF Covered, Live
<1> QED BY <1>1, <1>2, <1>3, SameStore

-----------------------------------------------------------------------------
(* Appending a document.                                                    *)

(* A document that passed the check of every unique index is appended. *)
LEMMA AppendKeeps ==
  ASSUME StoreInv, ~Filling, NEW doc \in Docs,
         Violated(indexes, InvalidRecordId, doc) = {}, AppendDoc(doc),
         CallOK', ~Filling', FillingInOrder'
  PROVE  StoreInv'
<1> DEFINE new == [rid |-> nextRid, doc |-> doc, deleted |-> FALSE]
           last == Len(slots) + 1
<1> USE DEF StoreInv
<1>1. /\ slots \in Seq(Slots) /\ nextRid \in Nat /\ nextRid # InvalidRecordId
      /\ indexes \in Indexes
  BY DEF TypeOK
<1>2. new \in Slots
  BY <1>1 DEF Slots
<1>3. /\ slots' = Append(slots, new) /\ nextRid' = nextRid + 1
      /\ indexes' = OnInsert(indexes, nextRid, doc)
  BY DEF AppendDoc
<1>4. /\ slots' \in Seq(Slots) /\ DOMAIN slots' = DOMAIN slots \cup {last}
      /\ last \notin DOMAIN slots /\ slots'[last] = new
      /\ \A p \in DOMAIN slots : slots'[p] = slots[p] /\ p < last
  BY <1>1, <1>2, <1>3
<1>5. indexes' \in Indexes
  BY <1>1, <1>3, OnInsertAdds
<1>6. Existing(indexes') = Existing(indexes) /\ Existing(indexes) \subseteq IndexNames
  BY <1>1, <1>3, <1>5, OnInsertAdds DEF Existing, Indexes, IndexEntries
<1>7. Live' = Live \cup {last}
  BY <1>4 DEF Live
<1>8. \A n \in IndexNames : Covered(n) = Live /\ Covered(n)' = Live'
  BY DEF Covered
<1>9. TypeOK'
  BY <1>1, <1>3, <1>4, <1>5 DEF TypeOK, InvalidRecordId
<1>10. RidsInOrder'
  <2> SUFFICES ASSUME NEW p \in DOMAIN slots'
               PROVE  /\ slots'[p].rid < nextRid + 1
                      /\ \A q \in DOMAIN slots' : p < q => slots'[p].rid < slots'[q].rid
    BY <1>3 DEF RidsInOrder
  <2>1. CASE p = last
    BY <2>1, <1>1, <1>4
  <2>2. CASE p \in DOMAIN slots
    <3>1. slots'[p].rid = slots[p].rid /\ slots[p].rid \in Nat /\ slots[p].rid < nextRid
      BY <2>2, <1>4, LiveSlot DEF RidsInOrder
    <3>2. ASSUME NEW q \in DOMAIN slots', p < q PROVE slots'[p].rid < slots'[q].rid
      BY <2>2, <3>1, <3>2, <1>4 DEF RidsInOrder
    <3> QED BY <3>1, <3>2, <1>1
  <2> QED BY <2>1, <2>2, <1>4
<1>11. IndexHoldsLiveKeys'
  <2> SUFFICES ASSUME NEW n \in Existing(indexes)
               PROVE  indexes'[n].keys =
                        UNION {KeysIn(indexes'[n], slots'[p].rid, slots'[p].doc) : p \in Live'}
    BY <1>6, <1>8 DEF IndexHoldsLiveKeys
  <2>1. n \in IndexNames /\ indexes[n] # NoEntry
    BY <1>6 DEF Existing
  <2>2. /\ indexes'[n].paths = indexes[n].paths
        /\ indexes'[n].keys = indexes[n].keys \cup KeysIn(indexes[n], nextRid, doc)
    BY <2>1, <1>1, <1>3, OnInsertAdds
  <2>3. \A rid, d : KeysIn(indexes'[n], rid, d) = KeysIn(indexes[n], rid, d)
    BY <2>2 DEF KeysIn
  <2>4. indexes[n].keys = UNION {KeysIn(indexes[n], slots[p].rid, slots[p].doc) : p \in Live}
    BY <2>1, <1>8 DEF IndexHoldsLiveKeys
  <2>5. \A p \in Live : slots'[p] = slots[p]
    BY <1>4 DEF Live
  <2> QED BY <2>2, <2>3, <2>4, <2>5, <1>4, <1>7
<1>12. UniqueIsUnique'
  <2> SUFFICES ASSUME NEW n \in IndexNames, indexes'[n].unique,
                      NEW p \in Live', NEW q \in Live', p # q,
                      SharesKey(slots'[p].doc, slots'[q].doc, indexes'[n].paths)
               PROVE  FALSE
    BY <1>8 DEF UniqueIsUnique
  <2>1. n \in Existing(indexes)
    BY <1>5, <1>6, UniqueExists
  <2>2. indexes[n].unique /\ indexes'[n].paths = indexes[n].paths
    BY <2>1, <1>1, <1>3, OnInsertAdds DEF Existing
  <2>3. ASSUME NEW r \in Live, SharesKey(doc, slots[r].doc, indexes[n].paths)
        PROVE  FALSE
    <3>1. slots[r].rid # InvalidRecordId
      BY LiveSlot DEF Live
    <3> QED BY <2>2, <2>3, <3>1, <1>8, CheckFindsClash
  <2>4. \A r \in Live : slots'[r] = slots[r] /\ r # last
    BY <1>4 DEF Live
  <2>5. ~(p \in Live /\ q \in Live)
    BY <2>2, <2>4, <1>8 DEF UniqueIsUnique
  <2>6. CASE p = last /\ q \in Live
    BY <2>2, <2>3, <2>4, <2>6, <1>4
  <2>7. CASE q = last /\ p \in Live
    <3>1. SharesKey(slots'[q].doc, slots'[p].doc, indexes[n].paths)
      BY <2>2 DEF SharesKey
    <3> QED BY <3>1, <2>3, <2>4, <2>7, <1>4
  <2> QED BY <2>5, <2>6, <2>7, <1>7
<1> QED BY <1>9, <1>10, <1>11, <1>12

LEMMA InsertOneKeeps == StoreInv /\ InsertOne => StoreInv'
<1> SUFFICES ASSUME StoreInv, InsertOne PROVE StoreInv'
  OBVIOUS
<1>1. CallOK /\ call.op = "insert" /\ call.done = FALSE
  BY RunningCall DEF InsertOne, StoreInv
<1>2. call.req.docs[call.at] \in Docs
  <2>1. call.req.docs \in Seq(Docs) /\ call.at \in 1 .. Len(call.req.docs)
    BY <1>1, RequestParts DEF InsertOne, CallOK
  <2> QED BY <2>1
<1>3. call' = [call EXCEPT !.at = call.at + 1, !.hit = call.hit]
  BY <1>1 DEF InsertOne, CallOK
<1>4. CallOK' /\ call'.op = "insert"
  <2>1. call.at + 1 \in Nat \ {0} /\ call.hit \in BOOLEAN
    BY <1>1 DEF CallOK
  <2> QED BY <2>1, <1>1, <1>3, MovedCall
<1>5. ~Filling /\ ~Filling' /\ FillingInOrder'
  BY <1>1, <1>4 DEF Filling, Running, FillingInOrder
<1> QED BY <1>2, <1>4, <1>5, AppendKeeps DEF InsertOne

LEMMA UpsertKeeps == \A oid \in Oids : StoreInv /\ Upsert(oid) => StoreInv'
<1> SUFFICES ASSUME NEW oid \in Oids, StoreInv, Upsert(oid) PROVE StoreInv'
  OBVIOUS
<1> DEFINE seed == SeedUpsert(call.req.filter, call.req.spec, oid)
           refused == seed.err # 0 \/ Violated(indexes, InvalidRecordId, seed.doc) # {}
<1>1. CallOK /\ call.op = "update" /\ call.done = FALSE
  BY RunningCall DEF Upsert, StoreInv
<1>2. seed.err \in Nat /\ seed.doc \in Docs
  <2>1. seed \in [err : Nat, doc : Docs]
    BY <1>1, RequestParts, QueryAssumption
  <2> HIDE DEF seed
  <2> QED BY <2>1
<1>3. ~Filling
  BY <1>1 DEF Filling, Running
<1>4. CASE refused
  <2>1. PICK err \in Nat : Finish(err)
    BY <1>2, <1>4 DEF Upsert, DuplicateKey
  <2> QED BY <2>1, <1>1, <1>3, <1>4, FinishKeeps DEF Upsert
<1>5. CASE ~refused
  <2>1. AppendDoc(seed.doc) /\ Finish(0)
    BY <1>5 DEF Upsert
  <2>2. CallOK' /\ call'.done = TRUE
    BY <2>1, <1>1, FinishedCall
  <2>3. ~Filling' /\ FillingInOrder'
    BY <2>2 DEF Filling, Running, FillingInOrder
  <2> QED BY <2>1, <2>2, <2>3, <1>2, <1>3, <1>5, AppendKeeps
<1> QED BY <1>4, <1>5

-----------------------------------------------------------------------------
(* Changing a document.                                                     *)

(* The document in a live slot becomes doc, which passed the check. *)
LEMMA ReplaceKeeps ==
  ASSUME StoreInv, ~Filling, NEW p \in Live, NEW doc \in Docs,
         Violated(indexes, slots[p].rid, doc) = {},
         slots' = [slots EXCEPT ![p].doc = doc], UNCHANGED nextRid,
         indexes' = OnInsert(OnErase(indexes, slots[p].rid, slots[p].doc), slots[p].rid, doc),
         CallOK', ~Filling', FillingInOrder'
  PROVE  StoreInv'
<1> DEFINE rid == slots[p].rid
           old == slots[p].doc
           erased == OnErase(indexes, rid, old)
<1> USE DEF StoreInv
<1>1. /\ p \in DOMAIN slots /\ slots[p] \in Slots
      /\ rid \in Nat /\ rid # InvalidRecordId /\ old \in Docs
  BY LiveSlot DEF Live
<1>2. slots \in Seq(Slots) /\ indexes \in Indexes
  BY DEF TypeOK
<1>3. /\ slots' \in Seq(Slots) /\ DOMAIN slots' = DOMAIN slots
      /\ slots'[p].rid = rid /\ slots'[p].doc = doc
      /\ \A q \in DOMAIN slots : /\ slots'[q].rid = slots[q].rid
                                 /\ slots'[q].deleted = slots[q].deleted
                                 /\ q # p => slots'[q].doc = slots[q].doc
  BY <1>1, <1>2 DEF Slots
<1>4. erased \in Indexes
  BY <1>1, <1>2, OnEraseRemoves
<1>5. indexes' \in Indexes
  BY <1>1, <1>4, OnInsertAdds
<1>6. ASSUME NEW n \in IndexNames
      PROVE  /\ indexes[n] = NoEntry <=> indexes'[n] = NoEntry
             /\ indexes[n] # NoEntry =>
                  /\ indexes'[n].paths = indexes[n].paths
                  /\ indexes'[n].unique = indexes[n].unique
                  /\ indexes'[n].keys = (indexes[n].keys \ KeysIn(indexes[n], rid, old))
                                          \cup KeysIn(indexes[n], rid, doc)
  <2>1. /\ indexes[n] = NoEntry <=> erased[n] = NoEntry
        /\ indexes[n] # NoEntry =>
             /\ erased[n].paths = indexes[n].paths
             /\ erased[n].unique = indexes[n].unique
             /\ erased[n].keys = indexes[n].keys \ KeysIn(indexes[n], rid, old)
    BY <1>1, <1>2, OnEraseRemoves
  <2>2. /\ erased[n] = NoEntry <=> indexes'[n] = NoEntry
        /\ erased[n] # NoEntry =>
             /\ indexes'[n].paths = erased[n].paths
             /\ indexes'[n].unique = erased[n].unique
             /\ indexes'[n].keys = erased[n].keys \cup KeysIn(erased[n], rid, doc)
    BY <1>1, <1>4, OnInsertAdds
  <2>3. indexes[n] # NoEntry => KeysIn(erased[n], rid, doc) = KeysIn(indexes[n], rid, doc)
    BY <2>1 DEF KeysIn
  <2> HIDE DEF erased
  <2> QED BY <2>1, <2>2, <2>3
<1>7. Existing(indexes') = Existing(indexes) /\ Existing(indexes) \subseteq IndexNames
  BY <1>2, <1>5, <1>6 DEF Existing, Indexes, IndexEntries
<1>8. Live' = Live
  BY <1>3 DEF Live
<1>9. \A n \in IndexNames : Covered(n) = Live /\ Covered(n)' = Live
  BY <1>8 DEF Covered
<1>10. TypeOK'
  BY <1>3, <1>5 DEF TypeOK
<1>11. RidsInOrder'
  BY <1>3 DEF RidsInOrder
<1>12. IndexHoldsLiveKeys'
  <2> SUFFICES ASSUME NEW n \in Existing(indexes)
               PROVE  indexes'[n].keys =
                        UNION {KeysIn(indexes'[n], slots'[q].rid, slots'[q].doc) : q \in Live}
    BY <1>7, <1>9 DEF IndexHoldsLiveKeys
  <2>1. n \in IndexNames /\ indexes[n] # NoEntry
    BY <1>7 DEF Existing
  <2>2. \A r, d : KeysIn(indexes'[n], r, d) = KeysIn(indexes[n], r, d)
    BY <2>1, <1>6 DEF KeysIn
  <2>3. indexes[n].keys = UNION {KeysIn(indexes[n], slots[q].rid, slots[q].doc) : q \in Live}
    BY <2>1, <1>9 DEF IndexHoldsLiveKeys
  <2>4. \A q \in Live : q # p => slots'[q].rid = slots[q].rid /\ slots'[q].doc = slots[q].doc
    BY <1>3 DEF Live
  <2>5. slots'[p].rid = rid /\ slots'[p].doc = doc
    BY <1>3
  <2>6. ASSUME NEW q \in Live, q # p
        PROVE  KeysIn(indexes[n], slots[q].rid, slots[q].doc) \cap KeysIn(indexes[n], rid, old) = {}
    <3>1. slots[q].rid # rid
      BY <2>6, RidsDiffer DEF Live
    <3> QED BY <3>1, PairInKeys
  <2>7. indexes'[n].keys = (indexes[n].keys \ KeysIn(indexes[n], rid, old))
                             \cup KeysIn(indexes[n], rid, doc)
    BY <2>1, <1>6
  <2> HIDE DEF rid, old
  <2>8. ASSUME NEW x \in indexes'[n].keys
        PROVE  \E q \in Live : x \in KeysIn(indexes[n], slots'[q].rid, slots'[q].doc)
    <3>1. CASE x \in KeysIn(indexes[n], rid, doc)
      BY <3>1, <2>5
    <3>2. CASE x \in indexes[n].keys /\ x \notin KeysIn(indexes[n], rid, old)
      <4>1. PICK q \in Live : x \in KeysIn(indexes[n], slots[q].rid, slots[q].doc)
        BY <3>2, <2>3
      <4>2. q # p
        BY <4>1, <3>2 DEF rid, old
      <4> QED BY <4>1, <4>2, <2>4
    <3> QED BY <2>7, <2>8, <3>1, <3>2
  <2>9. ASSUME NEW q \in Live, NEW x \in KeysIn(indexes[n], slots'[q].rid, slots'[q].doc)
        PROVE  x \in indexes'[n].keys
    <3>1. CASE q = p
      BY <3>1, <2>5, <2>7, <2>9
    <3>2. CASE q # p
      <4>1. x \in KeysIn(indexes[n], slots[q].rid, slots[q].doc)
        BY <3>2, <2>4, <2>9
      <4> QED BY <4>1, <3>2, <2>3, <2>6, <2>7
    <3> QED BY <3>1, <3>2
  <2> QED BY <2>2, <2>8, <2>9
<1>13. UniqueIsUnique'
  <2> SUFFICES ASSUME NEW n \in IndexNames, indexes'[n].unique,
                      NEW q \in Live, NEW r \in Live, q # r,
                      SharesKey(slots'[q].doc, slots'[r].doc, indexes'[n].paths)
               PROVE  FALSE
    BY <1>9 DEF UniqueIsUnique
  <2>1. n \in Existing(indexes) /\ indexes[n] # NoEntry
    BY <1>5, <1>6, <1>7, UniqueExists
  <2>2. indexes[n].unique /\ indexes'[n].paths = indexes[n].paths
    BY <2>1, <1>6
  <2>3. ASSUME NEW s \in Live, s # p, SharesKey(doc, slots[s].doc, indexes[n].paths)
        PROVE  FALSE
    <3>1. slots[s].rid # slots[p].rid
      BY <2>3, RidsDiffer DEF Live
    <3> QED BY <2>2, <2>3, <3>1, <1>9, CheckFindsClash
  <2>4. \A s \in Live : s # p => slots'[s].doc = slots[s].doc
    BY <1>3 DEF Live
  <2>5. CASE q # p /\ r # p
    BY <2>2, <2>4, <2>5, <1>9 DEF UniqueIsUnique
  <2>6. CASE q = p
    BY <2>2, <2>3, <2>4, <2>6, <1>3
  <2>7. CASE r = p
    <3>1. SharesKey(slots'[r].doc, slots'[q].doc, indexes[n].paths)
      BY <2>2 DEF SharesKey
    <3> QED BY <3>1, <2>3, <2>4, <2>7, <1>3
  <2> QED BY <2>5, <2>6, <2>7
<1> QED BY <1>10, <1>11, <1>12, <1>13

(* An update writes the document it is given, or finds it unchanged. *)
LEMMA UpdateOneKeeps == \A p \in DOMAIN slots : StoreInv /\ UpdateOne(p) => StoreInv'
<1> SUFFICES ASSUME NEW p \in DOMAIN slots, StoreInv, UpdateOne(p) PROVE StoreInv'
  OBVIOUS
<1> DEFINE slot == slots[p]
           outcome == ApplyUpdate(slot.doc, call.req.spec)
<1>1. CallOK /\ call.op = "update" /\ call.done = FALSE
  BY RunningCall DEF UpdateOne, StoreInv
<1>2. p \in Live /\ slot \in Slots /\ slot.doc \in Docs /\ p \in Nat
  BY LiveSlot DEF UpdateOne, IsNextHit, Hits, StoreInv
<1>3. outcome.doc \in Docs
  <2>1. outcome \in [err : Nat, doc : Docs]
    BY <1>1, <1>2, RequestParts, QueryAssumption
  <2> HIDE DEF outcome
  <2> QED BY <2>1
<1>4. CallOK' /\ call'.op = "update" /\ call'.done = FALSE
  <2>1. Past(p, ~call.req.multi) \in Nat \ {0}
    BY <1>1, <1>2 DEF Past, CallOK
  <2>2. call' = [call EXCEPT !.at = Past(p, ~call.req.multi), !.hit = TRUE]
    BY DEF UpdateOne
  <2> QED BY <2>1, <2>2, <1>1, MovedCall
<1>5. ~Filling /\ ~Filling' /\ FillingInOrder'
  BY <1>1, <1>4 DEF Filling, Running, FillingInOrder
<1>6. CASE outcome.doc = slot.doc
  <2>1. slots' = [slots EXCEPT ![p].doc = slot.doc] /\ UNCHANGED <<indexes, nextRid>>
    BY <1>6 DEF UpdateOne
  <2>2. slots' = slots
    BY <2>1, <1>2 DEF StoreInv, TypeOK, Slots
  <2>3. \A n \in IndexNames : Covered(n)' = Covered(n)
    BY <2>2, <1>5 DEF Covered, Live
  <2> QED BY <2>1, <2>2, <2>3, <1>4, <1>5, SameStore
<1>7. CASE outcome.doc # slot.doc
  <2>1. /\ Violated(indexes, slot.rid, outcome.doc) = {}
        /\ slots' = [slots EXCEPT ![p].doc = outcome.doc]
        /\ indexes' = OnInsert(OnErase(indexes, slot.rid, slot.doc), slot.rid, outcome.doc)
        /\ UNCHANGED nextRid
    BY <1>7 DEF UpdateOne
  <2> HIDE DEF outcome
  <2> QED BY <2>1, <1>2, <1>3, <1>4, <1>5, ReplaceKeeps
<1> QED BY <1>6, <1>7

(* An erased document leaves the indexes, and its slot stays. *)
LEMMA EraseOneKeeps == \A p \in DOMAIN slots : StoreInv /\ EraseOne(p) => StoreInv'
<1> SUFFICES ASSUME NEW p \in DOMAIN slots, StoreInv, EraseOne(p) PROVE StoreInv'
  OBVIOUS
<1> USE DEF StoreInv
<1>1. CallOK /\ call.op = "erase" /\ call.done = FALSE
  BY RunningCall DEF EraseOne
<1>2. /\ p \in Live /\ slots[p] \in Slots /\ p \in Nat
      /\ slots[p].rid \in Nat /\ slots[p].doc \in Docs
  BY LiveSlot DEF EraseOne, IsNextHit, Hits
<1>3. CallOK' /\ call'.op = "erase"
  <2>1. Past(p, call.req.single) \in Nat \ {0} /\ call.hit \in BOOLEAN
    BY <1>1, <1>2 DEF Past, CallOK
  <2>2. call' = [call EXCEPT !.at = Past(p, call.req.single), !.hit = call.hit]
    BY <1>1 DEF EraseOne, CallOK
  <2> QED BY <2>1, <2>2, <1>1, MovedCall
<1>4. ~Filling /\ ~Filling' /\ FillingInOrder'
  BY <1>1, <1>3 DEF Filling, Running, FillingInOrder
<1>5. slots \in Seq(Slots) /\ indexes \in Indexes
  BY DEF TypeOK
<1>6. /\ slots' = [slots EXCEPT ![p].deleted = TRUE] /\ UNCHANGED nextRid
      /\ indexes' = OnErase(indexes, slots[p].rid, slots[p].doc)
  BY DEF EraseOne, Bury
<1>7. /\ slots' \in Seq(Slots) /\ DOMAIN slots' = DOMAIN slots
      /\ slots'[p].deleted
      /\ \A q \in DOMAIN slots : /\ slots'[q].rid = slots[q].rid
                                 /\ slots'[q].doc = slots[q].doc
                                 /\ q # p => slots'[q] = slots[q]
  <2>1. /\ DOMAIN slots' = DOMAIN slots
        /\ slots'[p] = [slots[p] EXCEPT !.deleted = TRUE]
        /\ \A q \in DOMAIN slots : q # p => slots'[q] = slots[q]
    BY <1>5, <1>6
  <2>2. /\ slots'[p].rid = slots[p].rid /\ slots'[p].doc = slots[p].doc
        /\ slots'[p].deleted /\ slots'[p] \in Slots
    BY <2>1, <1>2 DEF Slots
  <2>3. slots' \in Seq(Slots)
    <3>1. [slots[p] EXCEPT !.deleted = TRUE] \in Slots
      BY <2>1, <2>2
    <3> QED BY <3>1, <1>5, <1>6
  <2> QED BY <2>1, <2>2, <2>3
<1>8. Live' = Live \ {p} /\ Live \subseteq DOMAIN slots
  <2>1. ASSUME NEW q \in DOMAIN slots
        PROVE  q \in Live' <=> q \in Live /\ q # p
    <3>1. CASE q = p
      BY <3>1, <1>7 DEF Live
    <3>2. CASE q # p
      <4>1. slots'[q] = slots[q]
        BY <3>2, <1>7
      <4> QED BY <3>2, <4>1, <1>7 DEF Live
    <3> QED BY <3>1, <3>2
  <2>2. Live \subseteq DOMAIN slots /\ Live' \subseteq DOMAIN slots'
    BY DEF Live
  <2> QED BY <2>1, <2>2, <1>7
<1>9. \A n \in IndexNames : Covered(n) = Live /\ Covered(n)' = Live \ {p}
  BY <1>4, <1>8 DEF Covered
<1>10. indexes' \in Indexes
  BY <1>2, <1>5, <1>6, OnEraseRemoves
<1>11. ASSUME NEW n \in IndexNames
       PROVE  /\ indexes[n] = NoEntry <=> indexes'[n] = NoEntry
              /\ indexes[n] # NoEntry =>
                   /\ indexes'[n].paths = indexes[n].paths
                   /\ indexes'[n].unique = indexes[n].unique
                   /\ indexes'[n].keys =
                        indexes[n].keys \ KeysIn(indexes[n], slots[p].rid, slots[p].doc)
  BY <1>2, <1>5, <1>6, OnEraseRemoves
<1>12. Existing(indexes') = Existing(indexes) /\ Existing(indexes) \subseteq IndexNames
  BY <1>5, <1>10, <1>11 DEF Existing, Indexes, IndexEntries
<1>13. TypeOK'
  BY <1>3, <1>6, <1>7, <1>10 DEF TypeOK
<1>14. RidsInOrder'
  BY <1>6, <1>7 DEF RidsInOrder
<1>15. IndexHoldsLiveKeys'
  <2> SUFFICES ASSUME NEW n \in Existing(indexes)
               PROVE  indexes'[n].keys =
                        UNION {KeysIn(indexes'[n], slots'[q].rid, slots'[q].doc) : q \in Live \ {p}}
    BY <1>9, <1>12 DEF IndexHoldsLiveKeys
  <2>1. n \in IndexNames /\ indexes[n] # NoEntry
    BY <1>12 DEF Existing
  <2>2. \A r, d : KeysIn(indexes'[n], r, d) = KeysIn(indexes[n], r, d)
    BY <2>1, <1>11 DEF KeysIn
  <2>3. indexes[n].keys = UNION {KeysIn(indexes[n], slots[q].rid, slots[q].doc) : q \in Live}
    BY <2>1, <1>9 DEF IndexHoldsLiveKeys
  <2>4. \A q \in Live : slots'[q].rid = slots[q].rid /\ slots'[q].doc = slots[q].doc
    BY <1>7, <1>8
  <2>5. ASSUME NEW q \in Live, q # p
        PROVE  KeysIn(indexes[n], slots[q].rid, slots[q].doc)
                 \cap KeysIn(indexes[n], slots[p].rid, slots[p].doc) = {}
    <3>1. slots[q].rid # slots[p].rid
      BY <2>5, RidsDiffer DEF Live
    <3> QED BY <3>1, PairInKeys
  <2>6. indexes'[n].keys = indexes[n].keys \ KeysIn(indexes[n], slots[p].rid, slots[p].doc)
    BY <2>1, <1>11
  <2>7. ASSUME NEW x \in indexes'[n].keys
        PROVE  \E q \in Live \ {p} : x \in KeysIn(indexes[n], slots'[q].rid, slots'[q].doc)
    <3>1. PICK q \in Live : x \in KeysIn(indexes[n], slots[q].rid, slots[q].doc)
      BY <2>3, <2>6, <2>7
    <3>2. q # p
      BY <3>1, <2>6, <2>7
    <3> QED BY <3>1, <3>2, <2>4
  <2>8. ASSUME NEW q \in Live \ {p}, NEW x \in KeysIn(indexes[n], slots'[q].rid, slots'[q].doc)
        PROVE  x \in indexes'[n].keys
    <3>1. x \in KeysIn(indexes[n], slots[q].rid, slots[q].doc)
      BY <2>4, <2>8
    <3> QED BY <3>1, <2>3, <2>5, <2>6
  <2> QED BY <2>2, <2>7, <2>8
<1>16. UniqueIsUnique'
  <2> SUFFICES ASSUME NEW n \in IndexNames, indexes'[n].unique
               PROVE  \A q, r \in Live \ {p} :
                        q # r => ~SharesKey(slots'[q].doc, slots'[r].doc, indexes'[n].paths)
    BY <1>9 DEF UniqueIsUnique
  <2>1. indexes[n] # NoEntry
    BY <1>10, <1>11, UniqueExists
  <2>2. indexes[n].unique /\ indexes'[n].paths = indexes[n].paths
    BY <2>1, <1>11
  <2>3. \A q \in Live : slots'[q].doc = slots[q].doc
    BY <1>7, <1>8
  <2> QED BY <2>2, <2>3, <1>9 DEF UniqueIsUnique
<1> QED BY <1>4, <1>13, <1>14, <1>15, <1>16

-----------------------------------------------------------------------------
(* Creating and dropping an index.                                          *)

(* An entry for the index of the call in progress. *)
LEMMA SetEntry ==
  ASSUME StoreInv, NEW name \in IndexNames,
         NEW entry \in IndexEntries,
         indexes' = [indexes EXCEPT ![name] = entry]
  PROVE  /\ indexes' \in Indexes
         /\ indexes'[name] = entry
         /\ \A n \in IndexNames : n # name => indexes'[n] = indexes[n]
         /\ \A n \in Existing(indexes') : n \in IndexNames
         /\ \A n \in Existing(indexes') : n # name => n \in Existing(indexes)
<1>1. indexes \in Indexes
  BY DEF StoreInv, TypeOK
<1> QED BY <1>1 DEF Indexes, IndexEntries, Existing

(* Of a step that writes one entry of the indexes and leaves the slots       *)
(* alone, only that entry is left to look at.                                *)
LEMMA EntryKeeps ==
  ASSUME StoreInv, NEW name \in IndexNames,
         NEW entry \in IndexEntries,
         indexes' = [indexes EXCEPT ![name] = entry], UNCHANGED <<slots, nextRid>>,
         CallOK', FillingInOrder',
         \A n \in IndexNames : n # name => Covered(n) = Live /\ Covered(n)' = Live,
         entry = NoEntry \/ (entry.keys = {} /\ Covered(name)' = {})
  PROVE  StoreInv'
<1>1. /\ indexes' \in Indexes
      /\ indexes'[name] = entry
      /\ \A n \in IndexNames : n # name => indexes'[n] = indexes[n]
      /\ \A n \in Existing(indexes') : n \in IndexNames
      /\ \A n \in Existing(indexes') : n # name => n \in Existing(indexes)
  BY SetEntry
<1>2. TypeOK'
  BY <1>1 DEF StoreInv, TypeOK
<1>3. RidsInOrder'
  BY DEF StoreInv, RidsInOrder
<1>4. IndexHoldsLiveKeys'
  <2> SUFFICES ASSUME NEW n \in Existing(indexes')
               PROVE  indexes'[n].keys =
                        UNION {KeysIn(indexes'[n], slots[p].rid, slots[p].doc) : p \in Covered(n)'}
    BY DEF IndexHoldsLiveKeys
  <2>1. CASE n = name
    <3>1. entry # NoEntry
      BY <2>1, <1>1 DEF Existing
    <3> QED BY <2>1, <3>1, <1>1
  <2>2. CASE n # name
    <3>1. n \in Existing(indexes) /\ indexes'[n] = indexes[n] /\ Covered(n)' = Covered(n)
      BY <2>2, <1>1
    <3> QED BY <3>1 DEF StoreInv, IndexHoldsLiveKeys
  <2> QED BY <2>1, <2>2
<1>5. UniqueIsUnique'
  <2> SUFFICES ASSUME NEW n \in IndexNames, indexes'[n].unique
               PROVE  \A p, q \in Covered(n)' :
                        p # q => ~SharesKey(slots[p].doc, slots[q].doc, indexes'[n].paths)
    BY DEF UniqueIsUnique
  <2>1. CASE n = name
    <3>1. entry # NoEntry
      BY <2>1, <1>1 DEF NoEntry
    <3> QED BY <2>1, <3>1
  <2>2. CASE n # name
    BY <2>2, <1>1 DEF StoreInv, UniqueIsUnique
  <2> QED BY <2>1, <2>2
<1> QED BY <1>2, <1>3, <1>4, <1>5 DEF StoreInv

(* What createIndex registers is empty, and covers nothing yet. *)
LEMMA RegisterIndexKeeps == StoreInv /\ RegisterIndex => StoreInv'
<1> SUFFICES ASSUME StoreInv, RegisterIndex PROVE StoreInv'
  OBVIOUS
<1> DEFINE w == call.req
           entry == [NoEntry EXCEPT !.paths = w.paths, !.unique = w.unique]
<1>1. CallOK /\ call.op = "createIndex" /\ call.done = FALSE /\ call.hit = FALSE
  BY RunningCall DEF RegisterIndex, StoreInv, CallOK
<1>2. w.name \in IndexNames /\ w.paths \in KeyPaths \cup {<<>>} /\ w.unique \in BOOLEAN
  BY <1>1, RequestParts
<1>3. ~Filling /\ UNCHANGED <<slots, nextRid>>
  BY <1>1 DEF Filling, RegisterIndex
<1> PICK name \in IndexNames : name = w.name
  BY <1>2
<1>4. CASE w.paths = <<>> \/ indexes[w.name] # NoEntry
  <2>1. PICK err \in Nat : Finish(err) /\ UNCHANGED indexes
    BY <1>4 DEF RegisterIndex, InvalidIndexSpecification
  <2> QED BY <2>1, <1>1, <1>3, FinishKeeps
<1>5. CASE w.paths # <<>> /\ indexes[w.name] = NoEntry
  <2>1. /\ call' = [call EXCEPT !.hit = TRUE]
        /\ indexes' = [indexes EXCEPT ![w.name] = entry]
    BY <1>5 DEF RegisterIndex
  <2>2. /\ entry \in [paths : KeyPaths, unique : BOOLEAN, ordered : BOOLEAN,
                      keys : SUBSET (Keys \X Nat)]
        /\ entry.paths \in KeyPaths /\ entry.keys = {} /\ entry.unique = w.unique
    BY <1>2, <1>5 DEF NoEntry
  <2>3. entry # NoEntry
    BY <2>2, EntryExists
  <2>4. CallOK' /\ call'.op = call.op /\ call'.req = w /\ call'.at = call.at
             /\ call'.hit = TRUE /\ call'.done = FALSE
    <3>1. call' = [call EXCEPT !.at = call.at, !.hit = TRUE] /\ call.at \in Nat \ {0}
      BY <2>1, <1>1 DEF CallOK
    <3> QED BY <3>1, <1>1, MovedCall
  <2>5. indexes'[w.name] = entry
    BY <2>1, <1>2 DEF StoreInv, TypeOK, Indexes, IndexEntries
  <2>6. FillingInOrder'
    BY <2>2, <2>3, <2>4, <2>5 DEF FillingInOrder
  <2>7. call'.at = 1 /\ Live' = Live
    BY <2>4, <1>1, <1>3 DEF StoreInv, FillingInOrder, Running, Live
  <2>8. Covered(name)' = {}
    <3>1. Filling'
      BY <2>4, <1>1 DEF Filling, Running
    <3>2. \A p \in Live' : 1 <= p
      BY LiveSlot, <1>3 DEF StoreInv, Live
    <3> QED BY <3>1, <3>2, <2>4, <2>7 DEF Covered, Unfilled
  <2>9. \A n \in IndexNames : n # name => Covered(n) = Live /\ Covered(n)' = Live
    BY <2>4, <2>7, <1>3 DEF Covered
  <2> PICK e \in IndexEntries : e = entry
    BY <2>2 DEF IndexEntries
  <2>10. indexes' = [indexes EXCEPT ![name] = e] /\ e.keys = {}
    BY <2>1, <2>2
  <2> HIDE DEF entry, w
  <2> QED BY <2>4, <2>6, <2>8, <2>9, <2>10, <1>3, EntryKeeps
<1> QED BY <1>4, <1>5

(* While an index is filled, every other unique index is unique already, so *)
(* the check names no index but the one being filled.                        *)
LEMMA OthersAreUnique ==
  ASSUME StoreInv, Filling, NEW p \in Live
  PROVE  Violated(indexes, slots[p].rid, slots[p].doc) \subseteq {call.req.name}
<1> SUFFICES ASSUME NEW n \in Violated(indexes, slots[p].rid, slots[p].doc), n # call.req.name
             PROVE  FALSE
  OBVIOUS
<1>1. n \in IndexNames /\ indexes[n].unique
  BY DEF Violated
<1>2. PICK x \in indexes[n].keys :
        x[2] # slots[p].rid /\ x[1] \in DocKeys(slots[p].doc, indexes[n].paths)
  BY DEF Violated
<1>3. n \in Existing(indexes) /\ Covered(n) = Live
  BY <1>1, UniqueExists DEF StoreInv, TypeOK, Covered
<1>4. PICK q \in Live :
        x[2] = slots[q].rid /\ x[1] \in DocKeys(slots[q].doc, indexes[n].paths)
  BY <1>3, SlotOfPair DEF StoreInv
<1>5. SharesKey(slots[p].doc, slots[q].doc, indexes[n].paths)
  BY <1>2, <1>4 DEF SharesKey
<1>6. p # q
  BY <1>2, <1>4
<1> QED BY <1>1, <1>3, <1>5, <1>6 DEF StoreInv, UniqueIsUnique

(* One more document's keys are in the index that is being filled; the other *)
(* indexes had them.                                                         *)
LEMMA FillOneKeeps == \A p \in DOMAIN slots : StoreInv /\ FillOne(p) => StoreInv'
<1> SUFFICES ASSUME NEW p \in DOMAIN slots, StoreInv, FillOne(p) PROVE StoreInv'
  OBVIOUS
<1> USE DEF StoreInv
<1>1. /\ CallOK /\ call.op = "createIndex" /\ call.done = FALSE /\ call.hit = TRUE /\ Filling
      /\ call.req.name \in IndexNames
  BY RunningCall, RequestParts DEF FillOne, Filling, CallOK
<1> PICK name \in IndexNames : name = call.req.name
  BY <1>1
<1>2. /\ p \in Live /\ p \in Nat /\ call.at <= p /\ slots[p].rid \in Nat /\ slots[p].doc \in Docs
      /\ \A q \in Live : call.at <= q => p <= q
  BY LiveSlot DEF FillOne, IsNextUnfilled, Unfilled
<1>3. CallOK' /\ call'.op = "createIndex" /\ call'.done = FALSE /\ call'.hit = TRUE
             /\ call'.at = p + 1 /\ call'.req = call.req
  <2>1. call' = [call EXCEPT !.at = p + 1, !.hit = call.hit]
    BY <1>1 DEF FillOne, CallOK
  <2>2. p + 1 \in Nat \ {0} /\ call.hit \in BOOLEAN
    <3>1. call.hit \in BOOLEAN
      BY <1>1 DEF CallOK
    <3>2. p + 1 \in Nat \ {0}
      BY <1>2
    <3> QED BY <3>1, <3>2
  <2> QED BY <2>1, <2>2, <1>1, MovedCall
<1>4. Filling' /\ name = call'.req.name
  BY <1>3 DEF Filling, Running
<1>5. indexes \in Indexes /\ UNCHANGED <<slots, nextRid>>
  BY DEF TypeOK, FillOne
<1>6. indexes' = OnInsert(indexes, slots[p].rid, slots[p].doc)
  BY DEF FillOne
<1>7. indexes' \in Indexes
  BY <1>2, <1>5, <1>6, OnInsertAdds
<1>8. ASSUME NEW n \in IndexNames
      PROVE  /\ indexes[n] = NoEntry <=> indexes'[n] = NoEntry
             /\ indexes[n] # NoEntry =>
                  /\ indexes'[n].paths = indexes[n].paths
                  /\ indexes'[n].unique = indexes[n].unique
                  /\ indexes'[n].keys =
                       indexes[n].keys \cup KeysIn(indexes[n], slots[p].rid, slots[p].doc)
  BY <1>2, <1>5, <1>6, OnInsertAdds
<1>9. Existing(indexes') = Existing(indexes) /\ Existing(indexes) \subseteq IndexNames
  BY <1>5, <1>7, <1>8 DEF Existing, Indexes, IndexEntries
<1>10. Live' = Live
  BY <1>5 DEF Live
<1>11. ASSUME NEW n \in IndexNames, n # name
       PROVE  Covered(n) = Live /\ Covered(n)' = Live
  BY <1>4, <1>10, <1>11 DEF Covered
<1>12. Covered(name)' = Covered(name) \cup {p} /\ p \notin Covered(name)
  <2>1. Covered(name) = {q \in Live : ~(call.at <= q)}
    BY <1>1 DEF Covered, Unfilled
  <2>2. Covered(name)' = {q \in Live : ~(p + 1 <= q)}
    BY <1>3, <1>4, <1>10 DEF Covered, Unfilled
  <2>3. \A q \in Live : q \in Nat
    BY LiveSlot DEF Live
  <2>4. call.at \in Nat
    BY <1>1 DEF CallOK
  <2> QED BY <2>1, <2>2, <2>3, <2>4, <1>2
<1>13. TypeOK'
  BY <1>3, <1>5, <1>7 DEF TypeOK
<1>14. RidsInOrder'
  BY <1>5 DEF RidsInOrder
<1>15. FillingInOrder'
  BY <1>1, <1>3, <1>4, <1>8 DEF FillingInOrder, Filling, Running
<1>16. ASSUME NEW n \in Existing(indexes)
       PROVE  Covered(n)' = Covered(n) \cup {p}
  BY <1>2, <1>9, <1>11, <1>12
<1>17. IndexHoldsLiveKeys'
  <2> SUFFICES ASSUME NEW n \in Existing(indexes)
               PROVE  indexes'[n].keys =
                        UNION {KeysIn(indexes'[n], slots[q].rid, slots[q].doc) : q \in Covered(n)'}
    BY <1>5, <1>9 DEF IndexHoldsLiveKeys
  <2>1. n \in IndexNames /\ indexes[n] # NoEntry
    BY <1>9 DEF Existing
  <2>2. \A r, d : KeysIn(indexes'[n], r, d) = KeysIn(indexes[n], r, d)
    BY <2>1, <1>8 DEF KeysIn
  <2>3. indexes[n].keys = UNION {KeysIn(indexes[n], slots[q].rid, slots[q].doc) : q \in Covered(n)}
    BY DEF IndexHoldsLiveKeys
  <2>4. indexes'[n].keys = indexes[n].keys \cup KeysIn(indexes[n], slots[p].rid, slots[p].doc)
    BY <2>1, <1>8
  <2> QED BY <2>2, <2>3, <2>4, <1>16
<1>18. UniqueIsUnique'
  <2> SUFFICES ASSUME NEW n \in IndexNames, indexes'[n].unique
               PROVE  \A q, r \in Covered(n)' :
                        q # r => ~SharesKey(slots[q].doc, slots[r].doc, indexes'[n].paths)
    BY <1>5 DEF UniqueIsUnique
  <2>1. n \in Existing(indexes) /\ indexes[n] # NoEntry
    BY <1>7, <1>8, <1>9, UniqueExists
  <2>2. indexes[n].unique /\ indexes'[n].paths = indexes[n].paths
    BY <2>1, <1>8
  <2>3. CASE n # name
    BY <2>2, <2>3, <1>11 DEF UniqueIsUnique
  <2>4. CASE n = name
    <3>1. name \notin Violated(indexes, slots[p].rid, slots[p].doc)
      <4>1. Violated(indexes, slots[p].rid, slots[p].doc) \subseteq {name}
        BY <1>1, <1>2, OthersAreUnique
      <4>2. call.req.unique
        BY <2>2, <2>4, <1>1 DEF FillingInOrder, Filling
      <4>3. Violated(indexes, slots[p].rid, slots[p].doc) # {name}
        BY <4>2 DEF FillOne
      <4> QED BY <4>1, <4>3
    <3>2. ASSUME NEW q \in Covered(name), SharesKey(slots[p].doc, slots[q].doc, indexes[n].paths)
          PROVE  FALSE
      <4>1. slots[q].rid # slots[p].rid
        BY <1>12, CoveredIsLive, RidsDiffer
      <4> QED BY <2>2, <2>4, <3>1, <3>2, <4>1, CheckFindsClash
    <3>3. \A q, r : SharesKey(slots[q].doc, slots[r].doc, indexes[n].paths)
                     => SharesKey(slots[r].doc, slots[q].doc, indexes[n].paths)
      BY DEF SharesKey
    <3>4. \A q, r \in Covered(name) :
            q # r => ~SharesKey(slots[q].doc, slots[r].doc, indexes[n].paths)
      BY <2>2, <2>4 DEF UniqueIsUnique
    <3> QED BY <2>2, <2>4, <3>2, <3>3, <3>4, <1>12
  <2> QED BY <2>3, <2>4
<1> QED BY <1>13, <1>14, <1>15, <1>17, <1>18

(* An index that cannot be filled is taken out again. *)
LEMMA FillRefusedKeeps == \A p \in DOMAIN slots : StoreInv /\ FillRefused(p) => StoreInv'
<1> SUFFICES ASSUME NEW p \in DOMAIN slots, StoreInv, FillRefused(p) PROVE StoreInv'
  OBVIOUS
<1>1. CallOK /\ call.op = "createIndex" /\ call.req.name \in IndexNames
  BY RunningCall, RequestParts DEF FillRefused, Filling, StoreInv
<1> PICK name \in IndexNames : name = call.req.name
  BY <1>1
<1>2. CallOK' /\ call'.done = TRUE
  <2>1. Finish(DuplicateKey) /\ DuplicateKey \in Nat
    BY DEF FillRefused, DuplicateKey
  <2> QED BY <2>1, <1>1, FinishedCall
<1>3. ~Filling' /\ FillingInOrder'
  BY <1>2 DEF Filling, Running, FillingInOrder
<1>4. indexes' = [indexes EXCEPT ![name] = NoEntry] /\ UNCHANGED <<slots, nextRid>>
  BY DEF FillRefused
<1>5. \A n \in IndexNames : n # name => Covered(n) = Live /\ Covered(n)' = Live
  BY <1>3, <1>4 DEF Covered, Live
<1>6. NoEntry \in IndexEntries
  BY DEF IndexEntries
<1> QED BY <1>2, <1>3, <1>4, <1>5, <1>6, EntryKeeps

(* With no slot left to fill, the index covers them all. *)
LEMMA FillEndsKeeps == StoreInv /\ FillEnds => StoreInv'
<1> SUFFICES ASSUME StoreInv, FillEnds PROVE StoreInv'
  OBVIOUS
<1>1. CallOK /\ UNCHANGED <<slots, nextRid, indexes>>
  BY RunningCall DEF FillEnds, Filling, StoreInv
<1>2. CallOK' /\ call'.done = TRUE
  BY <1>1, FinishedCall DEF FillEnds
<1>3. ~Filling' /\ FillingInOrder'
  BY <1>2 DEF Filling, Running, FillingInOrder
<1>4. \A n \in IndexNames : Covered(n)' = Covered(n)
  BY <1>1, <1>3 DEF Covered, Live, FillEnds
<1> QED BY <1>1, <1>2, <1>3, <1>4, SameStore

(* dropIndex takes one entry out, or refuses. *)
LEMMA DropOneKeeps == StoreInv /\ DropOne => StoreInv'
<1> SUFFICES ASSUME StoreInv, DropOne PROVE StoreInv'
  OBVIOUS
<1>1. CallOK /\ call.op = "dropIndex" /\ call.req.name \in IndexNames
  BY RunningCall, RequestParts DEF DropOne, StoreInv
<1> PICK name \in IndexNames : name = call.req.name
  BY <1>1
<1>2. ~Filling /\ UNCHANGED <<slots, nextRid>>
  BY <1>1 DEF Filling, Running, DropOne
<1>3. CASE name = IdIndexName
  <2>1. Finish(CannotDropIdIndex) /\ UNCHANGED indexes
    BY <1>3 DEF DropOne
  <2> QED BY <2>1, <1>1, <1>2, FinishKeeps DEF CannotDropIdIndex
<1>4. CASE name # IdIndexName
  <2>1. Finish(0) /\ indexes' = [indexes EXCEPT ![name] = NoEntry]
    BY <1>4 DEF DropOne
  <2>2. CallOK' /\ call'.done = TRUE
    BY <2>1, <1>1, FinishedCall
  <2>3. ~Filling' /\ FillingInOrder'
    BY <2>2 DEF Filling, Running, FillingInOrder
  <2>4. \A n \in IndexNames : n # name => Covered(n) = Live /\ Covered(n)' = Live
    BY <2>3, <1>2 DEF Covered, Live
  <2>5. NoEntry \in IndexEntries
    BY DEF IndexEntries
  <2> QED BY <2>1, <2>2, <2>3, <2>4, <2>5, <1>2, EntryKeeps
<1> QED BY <1>3, <1>4

-----------------------------------------------------------------------------
(* The specification.                                                       *)

(* A call that begins has a well-typed state, and fills nothing yet. *)
LEMMA BeginKeeps == \A w \in Calls : StoreInv /\ Begin(w) => StoreInv'
<1> SUFFICES ASSUME NEW w \in Calls, StoreInv, Begin(w) PROVE StoreInv'
  OBVIOUS
<1>1. w \in Requests /\ call = NoCall /\ call' = Start(w) /\ UNCHANGED <<slots, nextRid, indexes>>
  BY StoreAssumption DEF Begin
<1>2. Len(slots) \in Nat
  BY DEF StoreInv, TypeOK
<1>3. w.op = "insert" => Len(w.docs) \in Nat
  BY <1>1 DEF Requests
<1>4. CallOK'
  BY <1>1, <1>2, <1>3 DEF Start, CallOK
<1>5. ~Filling /\ ~Filling' /\ FillingInOrder'
  BY <1>1 DEF Filling, Running, FillingInOrder, Start, NoCall
<1>6. \A n \in IndexNames : Covered(n)' = Covered(n)
  BY <1>1, <1>5 DEF Covered, Live
<1> QED BY <1>1, <1>4, <1>5, <1>6, SameStore

LEMMA ReturnKeeps == StoreInv /\ Return => StoreInv'
<1> SUFFICES ASSUME StoreInv, Return PROVE StoreInv'
  OBVIOUS
<1>1. call.done /\ call' = NoCall /\ UNCHANGED <<slots, nextRid, indexes>>
  BY DEF Return
<1>2. ~Filling /\ ~Filling' /\ FillingInOrder'
  BY <1>1 DEF Filling, Running, FillingInOrder, NoCall
<1>3. \A n \in IndexNames : Covered(n)' = Covered(n)
  BY <1>1, <1>2 DEF Covered, Live
<1> QED BY <1>1, <1>2, <1>3, SameStore

(* Calls that end or are refused between two documents change no document.  *)
LEMMA EndsKeep ==
  /\ StoreInv /\ (InsertRefused \/ InsertEnds \/ UpdateEnds \/ EraseEnds) => StoreInv'
  /\ \A p \in DOMAIN slots : StoreInv /\ UpdateRefused(p) => StoreInv'
<1>1. ASSUME StoreInv, InsertRefused \/ InsertEnds PROVE StoreInv'
  <2>1. CallOK /\ call.op = "insert"
    BY <1>1, RunningCall DEF InsertRefused, InsertEnds, StoreInv
  <2>2. ~Filling
    BY <2>1 DEF Filling, Running
  <2>3. PICK err \in Nat : Finish(err) /\ UNCHANGED <<slots, nextRid, indexes>>
    BY <1>1 DEF InsertRefused, InsertEnds, DuplicateKey
  <2> QED BY <1>1, <2>1, <2>2, <2>3, FinishKeeps
<1>2. ASSUME StoreInv, UpdateEnds \/ EraseEnds PROVE StoreInv'
  <2>1. CallOK /\ call.op \in {"update", "erase"}
    BY <1>2, RunningCall DEF UpdateEnds, EraseEnds, StoreInv
  <2>2. ~Filling
    BY <2>1 DEF Filling, Running
  <2>3. Finish(0) /\ UNCHANGED <<slots, nextRid, indexes>>
    BY <1>2 DEF UpdateEnds, EraseEnds
  <2> QED BY <1>2, <2>1, <2>2, <2>3, FinishKeeps
<1>3. ASSUME NEW p \in DOMAIN slots, StoreInv, UpdateRefused(p) PROVE StoreInv'
  <2> DEFINE outcome == ApplyUpdate(slots[p].doc, call.req.spec)
  <2>1. CallOK /\ call.op = "update"
    BY <1>3, RunningCall DEF UpdateRefused, StoreInv
  <2>2. ~Filling
    BY <2>1 DEF Filling, Running
  <2>3. outcome \in [err : Nat, doc : Docs]
    BY <1>3, <2>1, LiveSlot, RequestParts, QueryAssumption DEF StoreInv
  <2>4. PICK err \in Nat : Finish(err)
    <3>1. outcome.err \in Nat /\ DuplicateKey \in Nat
      BY <2>3 DEF DuplicateKey
    <3> QED BY <1>3, <3>1 DEF UpdateRefused
  <2>5. UNCHANGED <<slots, nextRid, indexes>>
    BY <1>3 DEF UpdateRefused
  <2> QED BY <1>3, <2>1, <2>2, <2>4, <2>5, FinishKeeps
<1> QED BY <1>1, <1>2, <1>3

(* Cursors read and change nothing. *)
LEMMA CursorsKeep ==
  ASSUME StoreInv, UNCHANGED <<slots, nextRid, indexes, call>>
  PROVE  StoreInv'
<1>1. FillingInOrder' /\ (call' = NoCall \/ CallOK')
  BY DEF StoreInv, TypeOK, FillingInOrder, Running, CallOK
<1>2. \A n \in IndexNames : Covered(n)' = Covered(n)
  BY DEF Covered, Live, Filling, Running, Unfilled
<1> QED BY <1>1, <1>2, SameStore

LEMMA InitInv == Init => StoreInv
<1> SUFFICES ASSUME Init PROVE StoreInv
  OBVIOUS
<1>1. slots = <<>> /\ nextRid = 1 /\ call = NoCall
  BY DEF Init, FirstRid
<1>2. [NoEntry EXCEPT !.paths = IdPaths] \in IndexEntries
  BY IndexAssumption DEF NoEntry, IndexEntries
<1>3. NoEntry \in IndexEntries
  BY DEF IndexEntries
<1>4. indexes \in Indexes
  BY <1>2, <1>3 DEF Init, Indexes
<1>5. \A n \in IndexNames : indexes[n].keys = {}
  BY DEF Init, NoEntry
<1>6. Live = {} /\ \A n \in IndexNames : Covered(n) = {}
  BY <1>1 DEF Live, Covered
<1>7. TypeOK /\ RidsInOrder
  BY <1>1, <1>4 DEF TypeOK, RidsInOrder, InvalidRecordId
<1>8. FillingInOrder
  BY <1>1 DEF FillingInOrder, Running, NoCall
<1>9. IndexHoldsLiveKeys
  <2> SUFFICES ASSUME NEW n \in Existing(indexes)
               PROVE  indexes[n].keys =
                        UNION {KeysIn(indexes[n], slots[p].rid, slots[p].doc) : p \in Covered(n)}
    BY DEF IndexHoldsLiveKeys
  <2>1. n \in IndexNames
    BY <1>4 DEF Existing, Indexes
  <2> QED BY <2>1, <1>5, <1>6
<1>10. UniqueIsUnique
  BY <1>6 DEF UniqueIsUnique
<1> QED BY <1>7, <1>8, <1>9, <1>10 DEF StoreInv

LEMMA NextKeepsInv == StoreInv /\ [Next]_vars => StoreInv'
<1> SUFFICES ASSUME StoreInv, [Next]_vars PROVE StoreInv'
  OBVIOUS
<1>1. ASSUME NEW w \in Calls, Begin(w) PROVE StoreInv'
  BY <1>1, BeginKeeps
<1>2. CASE InsertOne
  BY <1>2, InsertOneKeeps
<1>3. CASE InsertRefused \/ InsertEnds \/ UpdateEnds \/ EraseEnds
  BY <1>3, EndsKeep
<1>4. ASSUME NEW p \in DOMAIN slots, UpdateOne(p) \/ UpdateRefused(p) \/ EraseOne(p) PROVE StoreInv'
  BY <1>4, UpdateOneKeeps, EndsKeep, EraseOneKeeps
<1>5. ASSUME NEW oid \in Oids, Upsert(oid) PROVE StoreInv'
  BY <1>5, UpsertKeeps
<1>6. CASE RegisterIndex \/ FillEnds \/ DropOne
  BY <1>6, RegisterIndexKeeps, FillEndsKeeps, DropOneKeeps
<1>7. ASSUME NEW p \in DOMAIN slots, FillOne(p) \/ FillRefused(p) PROVE StoreInv'
  BY <1>7, FillOneKeeps, FillRefusedKeeps
<1>8. CASE Return
  BY <1>8, ReturnKeeps
<1>9. ASSUME NEW c \in Cursors, (\E q \in Queries : OpenCursor(c, q)) \/ Fetch(c) \/ CloseCursor(c)
      PROVE  StoreInv'
  <2>1. UNCHANGED <<slots, nextRid, indexes, call>>
    BY <1>9 DEF OpenCursor, Fetch, CloseCursor
  <2> QED BY <2>1, CursorsKeep
<1>10. CASE UNCHANGED vars
  BY <1>10, CursorsKeep DEF vars
<1> QED BY <1>1, <1>2, <1>3, <1>4, <1>5, <1>6, <1>7, <1>8, <1>9, <1>10 DEF Next

(* The inductive invariant holds in every behaviour of the collection. *)
THEOREM StoreInvariantHolds == Spec => []StoreInv
BY InitInv, NextKeepsInv, PTL DEF Spec

(* Every variable keeps the shape the code gives it, calls in progress too. *)
THEOREM StoreTypeCorrect == Spec => []TypeOK
<1>1. StoreInv => TypeOK
  BY DEF StoreInv
<1> QED BY <1>1, StoreInvariantHolds, PTL

(* Between any two steps of any calls, each index holds exactly the keys of *)
(* the documents it covers (IndexManager::on_insert and on_erase).           *)
THEOREM IndexesAreExact == Spec => []IndexHoldsLiveKeys
<1>1. StoreInv => IndexHoldsLiveKeys
  BY DEF StoreInv
<1> QED BY <1>1, StoreInvariantHolds, PTL

(* The check of would_violate_unique before each write, and of createIndex   *)
(* during its fill, keeps unique indexes unique.                             *)
THEOREM UniqueIndexesAreUnique == Spec => []UniqueIsUnique
<1>1. StoreInv => UniqueIsUnique
  BY DEF StoreInv
<1> QED BY <1>1, StoreInvariantHolds, PTL

(***************************************************************************)
(* For every set of documents, filters, calls and index keys: a write call *)
(* that is done has done to the collection what MemoryCollection says of   *)
(* it.  MemoryCollection knows no index keys and no loops, so this is what *)
(* connects the two levels.                                                *)
(***************************************************************************)

-----------------------------------------------------------------------------
(* The collection's value.                                                  *)

(* Its parts. *)
LEMMA CollectionParts ==
  /\ DOMAIN Collection.docs = Live
  /\ \A p \in Live : /\ Collection.docs[p].rid = slots[p].rid
                     /\ Collection.docs[p].doc = slots[p].doc
                     /\ Collection.docs[p] = [rid |-> slots[p].rid, doc |-> slots[p].doc]
  /\ Collection.end = Len(slots) /\ Collection.next = nextRid
  /\ Collection.idx = [n \in IndexNames |-> [paths |-> indexes[n].paths, unique |-> indexes[n].unique]]
  /\ \A n \in IndexNames : /\ Collection.idx[n].paths = indexes[n].paths
                           /\ Collection.idx[n].unique = indexes[n].unique
BY DEF Collection

(* Its index definitions: an index that exists has a path. *)
LEMMA DefinitionOfIndex ==
  ASSUME TypeOK, NEW n \in IndexNames
  PROVE  /\ Collection.idx[n] \in IndexDefs \cup {NoIndex}
         /\ Collection.idx[n] = NoIndex <=> indexes[n] = NoEntry
<1>1. Collection.idx[n] = [paths |-> indexes[n].paths, unique |-> indexes[n].unique]
  BY CollectionParts
<1>2. CASE indexes[n] = NoEntry
  BY <1>1, <1>2 DEF NoEntry, NoIndex
<1>3. CASE indexes[n] # NoEntry
  <2>1. indexes[n].paths \in KeyPaths /\ indexes[n].unique \in BOOLEAN
    BY <1>3, ExistingEntry DEF TypeOK
  <2>2. indexes[n].paths # <<>>
    BY <2>1, IndexAssumption
  <2> QED BY <1>1, <1>3, <2>1, <2>2 DEF IndexDefs, NoIndex
<1> QED BY <1>2, <1>3

(* It is a collection as MemoryCollection has them, as long as the _id index *)
(* is there.                                                                 *)
LEMMA CollectionIsMemory ==
  ASSUME TypeOK, indexes[IdIndexName] # NoEntry
  PROVE  IsMemory(Collection)
<1> DEFINE docs == [p \in Live |-> [rid |-> slots[p].rid, doc |-> slots[p].doc]]
           idx == [n \in IndexNames |-> [paths |-> indexes[n].paths, unique |-> indexes[n].unique]]
<1>1. Len(slots) \in Nat /\ nextRid \in Nat
  BY DEF TypeOK
<1>2. DOMAIN docs \subseteq 1 .. Len(slots)
  BY LiveSlot DEF Live, TypeOK
<1>3. docs \in [DOMAIN docs -> Entries]
  BY LiveSlot DEF Live, Entries
<1>4. idx \in [IndexNames -> IndexDefs \cup {NoIndex}] /\ idx[IdIndexName] # NoIndex
  <2>1. Collection.idx = idx
    BY CollectionParts
  <2>2. \A n \in IndexNames : idx[n] \in IndexDefs \cup {NoIndex}
    BY <2>1, DefinitionOfIndex
  <2>3. idx[IdIndexName] # NoIndex
    BY <2>1, IndexAssumption, DefinitionOfIndex
  <2> QED BY <2>2, <2>3
<1>5. Collection = [docs |-> docs, end |-> Len(slots), next |-> nextRid, idx |-> idx]
  BY DEF Collection
<1> HIDE DEF docs, idx
<1> QED BY <1>1, <1>2, <1>3, <1>4, <1>5, MakeMemory

(* Two collections with the same parts are the same. *)
LEMMA SameMemory ==
  ASSUME NEW m, IsMemory(m), NEW r, IsMemory(r),
         DOMAIN m.docs = DOMAIN r.docs, \A i \in DOMAIN m.docs : m.docs[i] = r.docs[i],
         m.end = r.end, m.next = r.next, m.idx = r.idx
  PROVE  m = r
<1>1. m.docs = [i \in DOMAIN m.docs |-> m.docs[i]] /\ r.docs = [i \in DOMAIN r.docs |-> r.docs[i]]
  BY DEF IsMemory
<1>2. m.docs = r.docs
  BY <1>1
<1> QED BY <1>2 DEF IsMemory

-----------------------------------------------------------------------------
(* The check of the unique indexes.                                         *)

(* Looking up a document's keys in complete indexes tells the same clashes as *)
(* comparing it with every document (would_violate_unique).                   *)
LEMMA CheckIsClash ==
  ASSUME StoreInv, ~Filling, NEW rid, NEW doc
  PROVE  Violated(indexes, rid, doc) # {} <=> UniqueClash(Collection, rid, doc)
<1> USE CollectionParts
<1>1. \A n : Covered(n) = Live
  BY CoveredIdle
<1>2. ASSUME NEW n \in Violated(indexes, rid, doc)
      PROVE  UniqueClash(Collection, rid, doc)
  <2>1. n \in IndexNames /\ indexes[n].unique
    BY DEF Violated
  <2>2. PICK x \in indexes[n].keys : x[2] # rid /\ x[1] \in DocKeys(doc, indexes[n].paths)
    BY DEF Violated
  <2>3. n \in Existing(indexes)
    BY <2>1, UniqueExists DEF StoreInv, TypeOK
  <2>4. PICK p \in Live : x[2] = slots[p].rid /\ x[1] \in DocKeys(slots[p].doc, indexes[n].paths)
    BY <1>1, <2>3, SlotOfPair DEF StoreInv
  <2>5. SharesKey(Collection.docs[p].doc, doc, Collection.idx[n].paths)
    BY <2>1, <2>2, <2>4 DEF SharesKey
  <2> QED BY <2>1, <2>2, <2>4, <2>5 DEF UniqueClash
<1>3. ASSUME UniqueClash(Collection, rid, doc)
      PROVE  Violated(indexes, rid, doc) # {}
  <2>1. PICK n \in IndexNames, p \in Live :
               /\ indexes[n].unique /\ slots[p].rid # rid
               /\ SharesKey(slots[p].doc, doc, indexes[n].paths)
    BY <1>3 DEF UniqueClash
  <2>2. SharesKey(doc, slots[p].doc, indexes[n].paths)
    BY <2>1 DEF SharesKey
  <2> QED BY <1>1, <2>1, <2>2, CheckFindsClash DEF StoreInv
<1> QED BY <1>2, <1>3

-----------------------------------------------------------------------------
(* What a step does to the collection's value.                              *)

(* A step that leaves the slots and every index's definition alone. *)
LEMMA SameCollection ==
  ASSUME UNCHANGED <<slots, nextRid>>,
         \A n \in IndexNames : /\ indexes'[n].paths = indexes[n].paths
                               /\ indexes'[n].unique = indexes[n].unique
  PROVE  Collection' = Collection
BY DEF Collection, Live

(* on_insert changes no definition. *)
LEMMA InsertKeepsDefinitions ==
  ASSUME NEW ix \in Indexes, NEW rid \in Nat, NEW doc \in Docs
  PROVE  \A n \in IndexNames :
           /\ OnInsert(ix, rid, doc)[n].paths = ix[n].paths
           /\ OnInsert(ix, rid, doc)[n].unique = ix[n].unique
           /\ OnInsert(ix, rid, doc)[n] = NoEntry <=> ix[n] = NoEntry
<1> SUFFICES ASSUME NEW n \in IndexNames
             PROVE  /\ OnInsert(ix, rid, doc)[n].paths = ix[n].paths
                    /\ OnInsert(ix, rid, doc)[n].unique = ix[n].unique
                    /\ OnInsert(ix, rid, doc)[n] = NoEntry <=> ix[n] = NoEntry
  OBVIOUS
<1> QED BY OnInsertAdds

(* Neither does on_erase. *)
LEMMA EraseKeepsDefinitions ==
  ASSUME NEW ix \in Indexes, NEW rid \in Nat, NEW doc \in Docs
  PROVE  \A n \in IndexNames :
           /\ OnErase(ix, rid, doc)[n].paths = ix[n].paths
           /\ OnErase(ix, rid, doc)[n].unique = ix[n].unique
           /\ OnErase(ix, rid, doc)[n] = NoEntry <=> ix[n] = NoEntry
<1> SUFFICES ASSUME NEW n \in IndexNames
             PROVE  /\ OnErase(ix, rid, doc)[n].paths = ix[n].paths
                    /\ OnErase(ix, rid, doc)[n].unique = ix[n].unique
                    /\ OnErase(ix, rid, doc)[n] = NoEntry <=> ix[n] = NoEntry
  OBVIOUS
<1> QED BY OnEraseRemoves

(* An appended document is the collection grown by one. *)
LEMMA AppendGrows ==
  ASSUME TypeOK, NEW doc \in Docs, AppendDoc(doc)
  PROVE  /\ Collection' = Grow(Collection, Collection.next, <<doc>>)
         /\ indexes[IdIndexName] # NoEntry => indexes'[IdIndexName] # NoEntry
<1> DEFINE last == Len(slots) + 1
           new == [rid |-> nextRid, doc |-> doc, deleted |-> FALSE]
<1>1. slots \in Seq(Slots) /\ nextRid \in Nat /\ nextRid # InvalidRecordId /\ indexes \in Indexes
  BY DEF TypeOK
<1>2. /\ slots' = Append(slots, new) /\ nextRid' = nextRid + 1
      /\ indexes' = OnInsert(indexes, nextRid, doc)
  BY DEF AppendDoc
<1>3. /\ DOMAIN slots' = DOMAIN slots \cup {last} /\ Len(slots') = last /\ Len(slots) \in Nat
      /\ last \notin DOMAIN slots /\ slots'[last] = new
      /\ \A p \in DOMAIN slots : slots'[p] = slots[p] /\ p \in Nat /\ p <= Len(slots)
  BY <1>1, <1>2
<1>4. Live' = Live \cup {last} /\ \A p \in Live : p \in DOMAIN slots
  BY <1>3 DEF Live
<1>5. \A n \in IndexNames : /\ indexes'[n].paths = indexes[n].paths
                            /\ indexes'[n].unique = indexes[n].unique
                            /\ indexes'[n] = NoEntry <=> indexes[n] = NoEntry
  BY <1>1, <1>2, InsertKeepsDefinitions
<1> DEFINE grown == Grow(Collection, Collection.next, <<doc>>)
<1>6. /\ DOMAIN Collection.docs = Live /\ Collection.end = Len(slots) /\ Collection.next = nextRid
      /\ \A p \in Live : Collection.docs[p] = [rid |-> slots[p].rid, doc |-> slots[p].doc]
      /\ Collection.idx = [n \in IndexNames |->
                             [paths |-> indexes[n].paths, unique |-> indexes[n].unique]]
  BY CollectionParts
<1>7. grown = [docs |-> [i \in Live \cup (Len(slots) + 1 .. Len(slots) + 1) |->
                           IF i <= Len(slots) THEN Collection.docs[i]
                           ELSE [rid |-> nextRid + (i - Len(slots) - 1), doc |-> <<doc>>[i - Len(slots)]]],
               end |-> Len(slots) + 1, next |-> nextRid + 1, idx |-> Collection.idx]
  <2>1. Len(<<doc>>) = 1 /\ <<doc>> # <<>>
    OBVIOUS
  <2>2. nextRid + 1 > nextRid
    BY <1>1
  <2> HIDE DEF new
  <2> QED BY <1>6, <2>1, <2>2 DEF Grow
<1>8. Live \cup (Len(slots) + 1 .. Len(slots) + 1) = Live'
  BY <1>3, <1>4
<1>9. ASSUME NEW i \in Live'
      PROVE  [rid |-> slots'[i].rid, doc |-> slots'[i].doc]
               = IF i <= Len(slots) THEN Collection.docs[i]
                 ELSE [rid |-> nextRid + (i - Len(slots) - 1), doc |-> <<doc>>[i - Len(slots)]]
  <2>1. CASE i \in Live
    BY <2>1, <1>3, <1>4, <1>6
  <2>2. CASE i = last
    <3>1. ~(last <= Len(slots)) /\ last - Len(slots) = 1 /\ nextRid + (last - Len(slots) - 1) = nextRid
      BY <1>1, <1>3
    <3>2. slots'[i].rid = nextRid /\ slots'[i].doc = doc
      BY <2>2, <1>3
    <3> QED BY <2>2, <3>1, <3>2
  <2> QED BY <2>1, <2>2, <1>4
<1>10. Collection' = grown
  <2>1. Collection'
          = [docs |-> [p \in Live' |-> [rid |-> slots'[p].rid, doc |-> slots'[p].doc]],
             end |-> Len(slots'), next |-> nextRid',
             idx |-> [n \in IndexNames |-> [paths |-> indexes'[n].paths, unique |-> indexes'[n].unique]]]
    BY DEF Collection
  <2>2. [n \in IndexNames |-> [paths |-> indexes'[n].paths, unique |-> indexes'[n].unique]]
          = Collection.idx
    BY <1>5, <1>6
  <2> HIDE DEF grown, new
  <2> QED BY <1>2, <1>3, <1>7, <1>8, <1>9, <2>1, <2>2
<1> QED BY <1>5, <1>10, IndexAssumption

-----------------------------------------------------------------------------
(* Growing.                                                                 *)

(* The parts of a grown collection. *)
LEMMA GrowParts ==
  ASSUME NEW m, IsMemory(m), NEW batch \in Seq(Docs)
  PROVE  /\ IsMemory(Grow(m, m.next, batch))
         /\ DOMAIN Grow(m, m.next, batch).docs = DOMAIN m.docs \cup (m.end + 1 .. m.end + Len(batch))
         /\ \A i \in DOMAIN m.docs : Grow(m, m.next, batch).docs[i] = m.docs[i]
         /\ \A i \in m.end + 1 .. m.end + Len(batch) :
              Grow(m, m.next, batch).docs[i]
                = [rid |-> m.next + (i - m.end - 1), doc |-> batch[i - m.end]]
         /\ Grow(m, m.next, batch).end = m.end + Len(batch)
         /\ Grow(m, m.next, batch).next = m.next + Len(batch)
         /\ Grow(m, m.next, batch).idx = m.idx
<1>1. m.end \in Nat /\ m.next \in Nat /\ Len(batch) \in Nat /\ DOMAIN m.docs \subseteq 1 .. m.end
  BY DEF IsMemory
<1>2. IsMemory(Grow(m, m.next, batch))
  BY <1>1, GrowIsMemory
<1>3. batch # <<>> <=> Len(batch) > 0
  OBVIOUS
<1>4. Grow(m, m.next, batch).next = m.next + Len(batch)
  BY <1>1, <1>3 DEF Grow
<1>5. \A i \in DOMAIN m.docs : i <= m.end
  BY <1>1
<1>6. \A i \in m.end + 1 .. m.end + Len(batch) : ~(i <= m.end)
  BY <1>1
<1> QED BY <1>2, <1>4, <1>5, <1>6 DEF Grow

(* An empty batch grows nothing. *)
LEMMA GrowNothing ==
  ASSUME NEW m, IsMemory(m)
  PROVE  Grow(m, m.next, <<>>) = m
<1> DEFINE grown == Grow(m, m.next, <<>>)
<1>1. <<>> \in Seq(Docs) /\ Len(<<>>) = 0 /\ m.end \in Nat /\ m.next \in Nat
  BY DEF IsMemory
<1>2. /\ IsMemory(grown)
      /\ DOMAIN grown.docs = DOMAIN m.docs \cup (m.end + 1 .. m.end + 0)
      /\ \A i \in DOMAIN m.docs : grown.docs[i] = m.docs[i]
      /\ grown.end = m.end + 0 /\ grown.next = m.next + 0 /\ grown.idx = m.idx
  BY <1>1, GrowParts
<1>3. m.end + 1 .. m.end + 0 = {} /\ m.end + 0 = m.end /\ m.next + 0 = m.next
  BY <1>1
<1> HIDE DEF grown
<1>4. DOMAIN grown.docs = DOMAIN m.docs /\ grown.end = m.end /\ grown.next = m.next
  BY <1>2, <1>3
<1>5. grown = m
  BY <1>2, <1>4, SameMemory
<1> QED BY <1>5 DEF grown

(* A batch and one more document. *)
LEMMA GrowMore ==
  ASSUME NEW m, IsMemory(m), NEW batch \in Seq(Docs), NEW doc \in Docs
  PROVE  Grow(Grow(m, m.next, batch), Grow(m, m.next, batch).next, <<doc>>)
           = Grow(m, m.next, Append(batch, doc))
<1> DEFINE first == Grow(m, m.next, batch)
           left == Grow(first, first.next, <<doc>>)
           right == Grow(m, m.next, Append(batch, doc))
           n == Len(batch)
<1>1. /\ m.end \in Nat /\ m.next \in Nat /\ n \in Nat /\ DOMAIN m.docs \subseteq 1 .. m.end
      /\ <<doc>> \in Seq(Docs) /\ Len(<<doc>>) = 1 /\ <<doc>>[1] = doc
      /\ Append(batch, doc) \in Seq(Docs) /\ Len(Append(batch, doc)) = n + 1
      /\ Append(batch, doc)[n + 1] = doc
      /\ \A j \in 1 .. n : Append(batch, doc)[j] = batch[j]
  BY DEF IsMemory
<1>2. /\ IsMemory(first)
      /\ DOMAIN first.docs = DOMAIN m.docs \cup (m.end + 1 .. m.end + n)
      /\ \A i \in DOMAIN m.docs : first.docs[i] = m.docs[i]
      /\ \A i \in m.end + 1 .. m.end + n :
           first.docs[i] = [rid |-> m.next + (i - m.end - 1), doc |-> batch[i - m.end]]
      /\ first.end = m.end + n /\ first.next = m.next + n /\ first.idx = m.idx
  BY GrowParts
<1> HIDE DEF first
<1>3. /\ IsMemory(left)
      /\ DOMAIN left.docs = DOMAIN first.docs \cup {m.end + (n + 1)}
      /\ \A i \in DOMAIN first.docs : left.docs[i] = first.docs[i]
      /\ left.docs[m.end + (n + 1)] = [rid |-> m.next + n, doc |-> doc]
      /\ left.end = m.end + (n + 1) /\ left.next = m.next + (n + 1) /\ left.idx = m.idx
  <2>1. /\ IsMemory(left)
        /\ DOMAIN left.docs = DOMAIN first.docs \cup (first.end + 1 .. first.end + Len(<<doc>>))
        /\ \A i \in DOMAIN first.docs : left.docs[i] = first.docs[i]
        /\ \A i \in first.end + 1 .. first.end + Len(<<doc>>) :
             left.docs[i] = [rid |-> first.next + (i - first.end - 1), doc |-> <<doc>>[i - first.end]]
        /\ left.end = first.end + Len(<<doc>>) /\ left.next = first.next + Len(<<doc>>)
        /\ left.idx = first.idx
    BY <1>1, <1>2, GrowParts
  <2>2. first.end \in Nat /\ first.next \in Nat /\ first.end + 1 = m.end + (n + 1)
        /\ first.next + 1 = m.next + (n + 1)
    BY <1>1, <1>2
  <2>3. first.end + 1 .. first.end + Len(<<doc>>) = {m.end + (n + 1)}
    BY <1>1, <2>2
  <2>4. m.end + (n + 1) - first.end = 1 /\ first.next + (m.end + (n + 1) - first.end - 1) = m.next + n
    BY <1>1, <1>2
  <2>5. <<doc>>[1] = doc
    BY <1>1
  <2> HIDE DEF left, n
  <2>6. left.docs[m.end + (n + 1)] = [rid |-> m.next + n, doc |-> doc]
    <3> DEFINE i == m.end + (n + 1)
    <3>1. i \in first.end + 1 .. first.end + Len(<<doc>>)
      BY <2>3
    <3>2. i - first.end = 1 /\ first.next + (i - first.end - 1) = m.next + n
      BY <1>1, <1>2
    <3> HIDE DEF i
    <3>3. left.docs[i] = [rid |-> first.next + (i - first.end - 1), doc |-> <<doc>>[i - first.end]]
      BY <2>1, <3>1
    <3>4. left.docs[i] = [rid |-> m.next + n, doc |-> doc]
      BY <2>5, <3>2, <3>3
    <3> QED BY <3>4 DEF i
  <2> QED BY <2>1, <2>2, <2>3, <2>6, <1>1, <1>2
<1>4. /\ IsMemory(right)
      /\ DOMAIN right.docs = DOMAIN m.docs \cup (m.end + 1 .. m.end + (n + 1))
      /\ \A i \in DOMAIN m.docs : right.docs[i] = m.docs[i]
      /\ \A i \in m.end + 1 .. m.end + (n + 1) :
           right.docs[i] = [rid |-> m.next + (i - m.end - 1), doc |-> Append(batch, doc)[i - m.end]]
      /\ right.end = m.end + (n + 1) /\ right.next = m.next + (n + 1) /\ right.idx = m.idx
  <2> DEFINE whole == Append(batch, doc)
  <2>1. whole \in Seq(Docs) /\ Len(whole) = n + 1
    BY <1>1
  <2> HIDE DEF whole
  <2>2. /\ IsMemory(Grow(m, m.next, whole))
        /\ DOMAIN Grow(m, m.next, whole).docs = DOMAIN m.docs \cup (m.end + 1 .. m.end + Len(whole))
        /\ \A i \in DOMAIN m.docs : Grow(m, m.next, whole).docs[i] = m.docs[i]
        /\ \A i \in m.end + 1 .. m.end + Len(whole) :
             Grow(m, m.next, whole).docs[i]
               = [rid |-> m.next + (i - m.end - 1), doc |-> whole[i - m.end]]
        /\ Grow(m, m.next, whole).end = m.end + Len(whole)
        /\ Grow(m, m.next, whole).next = m.next + Len(whole)
        /\ Grow(m, m.next, whole).idx = m.idx
    BY <2>1, GrowParts
  <2> HIDE DEF n
  <2> QED BY <2>1, <2>2 DEF whole
<1> HIDE DEF left, right
<1>5. m.end + 1 .. m.end + (n + 1) = (m.end + 1 .. m.end + n) \cup {m.end + (n + 1)}
  <2>1. n \in Nat /\ m.end \in Nat
    BY <1>1
  <2> HIDE DEF n
  <2> QED BY <2>1
<1>6. DOMAIN left.docs = DOMAIN right.docs
  BY <1>2, <1>3, <1>4, <1>5
<1>7. ASSUME NEW i \in DOMAIN left.docs PROVE left.docs[i] = right.docs[i]
  <2>1. CASE i \in DOMAIN m.docs
    BY <2>1, <1>2, <1>3, <1>4
  <2>2. CASE i \in m.end + 1 .. m.end + n
    <3>1. i - m.end \in 1 .. n /\ i \in m.end + 1 .. m.end + (n + 1)
      BY <2>2, <1>1
    <3>2. left.docs[i] = [rid |-> m.next + (i - m.end - 1), doc |-> batch[i - m.end]]
      BY <2>2, <1>2, <1>3
    <3>3. right.docs[i] = [rid |-> m.next + (i - m.end - 1), doc |-> Append(batch, doc)[i - m.end]]
      BY <3>1, <1>4
    <3>4. Append(batch, doc)[i - m.end] = batch[i - m.end]
      BY <3>1, <1>1
    <3> QED BY <3>2, <3>3, <3>4
  <2>3. CASE i = m.end + (n + 1)
    <3>1. /\ i - m.end = n + 1 /\ i \in m.end + 1 .. m.end + (n + 1)
          /\ m.next + (i - m.end - 1) = m.next + n
      <4>1. n \in Nat /\ m.end \in Nat /\ m.next \in Nat
        BY <1>1
      <4> HIDE DEF n
      <4> QED BY <2>3, <4>1
    <3>2. right.docs[i] = [rid |-> m.next + (i - m.end - 1), doc |-> Append(batch, doc)[i - m.end]]
      BY <3>1, <1>4
    <3>3. Append(batch, doc)[i - m.end] = doc
      BY <3>1, <1>1
    <3> QED BY <2>3, <3>1, <3>2, <3>3, <1>3
  <2> QED BY <2>1, <2>2, <2>3, <1>2, <1>3
<1>8. left = right
  <2>1. left.end = right.end /\ left.next = right.next /\ left.idx = right.idx
    BY <1>3, <1>4
  <2> QED BY <2>1, <1>3, <1>4, <1>6, <1>7, SameMemory
<1> QED BY <1>8 DEF left, right, first

(* The documents of a batch up to one of them. *)
LEMMA PrefixGrows ==
  ASSUME NEW batch \in Seq(Docs), NEW j \in 1 .. Len(batch)
  PROVE  /\ SubSeq(batch, 1, j - 1) \in Seq(Docs) /\ batch[j] \in Docs
         /\ SubSeq(batch, 1, j) = Append(SubSeq(batch, 1, j - 1), batch[j])
<1> DEFINE before == SubSeq(batch, 1, j - 1)
           upTo == SubSeq(batch, 1, j)
<1>1. \A i \in 1 .. Len(batch) : batch[i] \in Docs
  OBVIOUS
<1>2. before \in Seq(Docs) /\ Len(before) = j - 1 /\ \A i \in 1 .. j - 1 : before[i] = batch[i]
  BY <1>1, SubSeqProperties
<1>3. upTo \in Seq(Docs) /\ Len(upTo) = j /\ \A i \in 1 .. j : upTo[i] = batch[i]
  BY <1>1, SubSeqProperties
<1> HIDE DEF before, upTo
<1>4. Append(before, batch[j]) \in Seq(Docs) /\ Len(Append(before, batch[j])) = j
  BY <1>1, <1>2
<1>5. \A i \in 1 .. j : upTo[i] = Append(before, batch[j])[i]
  BY <1>2, <1>3
<1>6. upTo = Append(before, batch[j])
  BY <1>3, <1>4, <1>5, SeqEqual
<1> QED BY <1>1, <1>2, <1>6 DEF before, upTo

-----------------------------------------------------------------------------
(* Calls in progress, and calls that end.                                   *)

(* What is known of a call whose loop still runs. *)
LEMMA InProgress ==
  ASSUME CallInv, NEW op \in {"insert", "update", "erase", "createIndex", "dropIndex"}, Running(op)
  PROVE  /\ StoreInv /\ TypeOK /\ CallOK /\ call.op = op /\ call.done = FALSE
         /\ IsMemory(call.before) /\ CallSoFar
         /\ IsMemory(Collection) /\ indexes[IdIndexName] # NoEntry
         /\ op # "createIndex" => ~Filling
<1>1. StoreInv /\ TypeOK
  BY DEF CallInv, StoreInv
<1>2. CallOK /\ call.op = op /\ call.done = FALSE
  BY <1>1, RunningCall
<1>3. call # NoCall
  BY <1>2 DEF NoCall
<1>4. IsMemory(Collection)
  BY <1>1, CollectionIsMemory DEF CallInv
<1> QED BY <1>1, <1>2, <1>3, <1>4 DEF CallInv, Filling, Running

(* A call is not the absence of one. *)
LEMMA SomeCall ==
  ASSUME CallOK
  PROVE  call # NoCall
<1>1. call.op = call.req.op /\ call.req \in Requests
  BY StoreAssumption DEF CallOK
<1> QED BY <1>1 DEF Requests, NoCall

(* A call that ends is right if its result is. *)
LEMMA FinishIsRight ==
  ASSUME CallInv, CallOK, StoreInv', indexes'[IdIndexName] # NoEntry, NEW err \in Nat, Finish(err),
         IsMemory(call.before), NEW oid \in Oids,
         [mem |-> Collection', err |-> err] = Exec(call.before, call.req, oid)
  PROVE  CallInv'
<1>1. /\ call'.before = call.before /\ call'.req = call.req
      /\ call'.err = err /\ call'.done = TRUE
  BY DEF Finish, CallOK
<1>2. [mem |-> Collection', err |-> call'.err] = Exec(call'.before, call'.req, oid)
  BY <1>1
<1>3. CallMatchesCollection'
  BY <1>2 DEF CallMatchesCollection
<1> QED BY <1>1, <1>3 DEF CallInv

(* A call that goes on is right if it is at its new position. *)
LEMMA GoOnIsRight ==
  ASSUME CallInv, CallOK, call.done = FALSE, StoreInv', indexes'[IdIndexName] # NoEntry,
         IsMemory(call.before), NEW at \in Nat \ {0}, NEW hit \in BOOLEAN,
         call' = [call EXCEPT !.at = at, !.hit = hit], CallSoFar'
  PROVE  CallInv'
<1>1. call'.before = call.before /\ call'.done = FALSE
  BY DEF CallOK
<1> QED BY <1>1 DEF CallInv

-----------------------------------------------------------------------------
(* insert.                                                                  *)

LEMMA InsertOneIsRight == CallInv /\ InsertOne => CallInv'
<1> SUFFICES ASSUME CallInv, InsertOne PROVE CallInv'
  OBVIOUS
<1> DEFINE docs == call.req.docs
           b == call.before
           at == call.at
<1>1. /\ StoreInv /\ TypeOK /\ CallOK /\ call.op = "insert" /\ call.done = FALSE
      /\ IsMemory(b) /\ CallSoFar /\ IsMemory(Collection) /\ indexes[IdIndexName] # NoEntry
      /\ ~Filling
  BY InProgress DEF InsertOne
<1>2. docs \in Seq(Docs) /\ at \in 1 .. Len(docs) /\ call.end = Len(docs)
  BY <1>1, RequestParts DEF InsertOne, CallOK
<1>3. /\ Collection = Grow(b, b.next, SubSeq(docs, 1, at - 1))
      /\ \A j \in 1 .. at - 1 : ~InsertClashes(b, docs, j)
  BY <1>1 DEF CallSoFar, InsertSoFar
<1>4. /\ SubSeq(docs, 1, at - 1) \in Seq(Docs) /\ docs[at] \in Docs
      /\ SubSeq(docs, 1, at) = Append(SubSeq(docs, 1, at - 1), docs[at])
  BY <1>2, PrefixGrows
<1>5. ~InsertClashes(b, docs, at)
  <2>1. ~UniqueClash(Collection, InvalidRecordId, docs[at])
    BY <1>1, CheckIsClash DEF InsertOne
  <2> QED BY <2>1, <1>3 DEF InsertClashes
<1>6. AppendDoc(docs[at]) /\ call' = [call EXCEPT !.at = at + 1, !.hit = call.hit]
  BY <1>1 DEF InsertOne, CallOK
<1>7. Collection' = Grow(b, b.next, SubSeq(docs, 1, at)) /\ indexes'[IdIndexName] # NoEntry
  BY <1>1, <1>3, <1>4, <1>6, AppendGrows, GrowMore
<1>8. at + 1 \in Nat \ {0} /\ call.hit \in BOOLEAN
  BY <1>1 DEF CallOK
<1>9. /\ call'.at = at + 1 /\ call'.req = call.req /\ call'.before = b /\ call'.op = "insert"
      /\ call'.end = call.end
  BY <1>1, <1>6 DEF CallOK
<1>10. InsertSoFar'
  <2>1. call'.at <= call'.end + 1 /\ call'.at - 1 = at
    BY <1>2, <1>9
  <2>2. \A j \in 1 .. at : ~InsertClashes(b, docs, j)
    BY <1>2, <1>3, <1>5
  <2> QED BY <2>1, <2>2, <1>7, <1>9 DEF InsertSoFar
<1>11. CallSoFar'
  BY <1>9, <1>10 DEF CallSoFar
<1>12. StoreInv'
  BY <1>1, InsertOneKeeps
<1> QED BY <1>1, <1>6, <1>7, <1>8, <1>11, <1>12, GoOnIsRight

(* The first failing document of a batch, by its position. *)
LEMMA FirstClash ==
  ASSUME NEW m, NEW batch \in Seq(Docs), NEW j \in 1 .. Len(batch), InsertClashes(m, batch, j),
         \A k \in 1 .. j - 1 : ~InsertClashes(m, batch, k)
  PROVE  Insert(m, batch) = [mem |-> Grow(m, m.next, SubSeq(batch, 1, j - 1)), err |-> DuplicateKey]
<1> DEFINE clashing == {k \in DOMAIN batch : InsertClashes(m, batch, k)}
           first == CHOOSE k \in clashing : \A l \in clashing : k <= l
<1>1. j \in clashing /\ \A l \in clashing : j <= l /\ l \in Nat
  OBVIOUS
<1>2. first = j
  <2> HIDE DEF clashing
  <2>1. first \in clashing /\ \A l \in clashing : first <= l
    BY <1>1
  <2> HIDE DEF first
  <2> QED BY <1>1, <2>1
<1>3. clashing # {}
  BY <1>1
<1>4. Insert(m, batch) = [mem |-> Grow(m, m.next, SubSeq(batch, 1, first - 1)), err |-> DuplicateKey]
  BY <1>3 DEF Insert
<1> QED BY <1>2, <1>4

LEMMA InsertRefusedIsRight == CallInv /\ InsertRefused => CallInv'
<1> SUFFICES ASSUME CallInv, InsertRefused PROVE CallInv'
  OBVIOUS
<1> DEFINE docs == call.req.docs
           b == call.before
           at == call.at
<1>1. /\ StoreInv /\ TypeOK /\ CallOK /\ call.op = "insert" /\ call.done = FALSE
      /\ IsMemory(b) /\ CallSoFar /\ IsMemory(Collection) /\ indexes[IdIndexName] # NoEntry
      /\ ~Filling
  BY InProgress DEF InsertRefused
<1>2. docs \in Seq(Docs) /\ at \in 1 .. Len(docs)
  BY <1>1, RequestParts DEF InsertRefused, CallOK
<1>3. /\ Collection = Grow(b, b.next, SubSeq(docs, 1, at - 1))
      /\ \A j \in 1 .. at - 1 : ~InsertClashes(b, docs, j)
  BY <1>1 DEF CallSoFar, InsertSoFar
<1>4. InsertClashes(b, docs, at)
  <2>1. UniqueClash(Collection, InvalidRecordId, docs[at])
    BY <1>1, CheckIsClash DEF InsertRefused
  <2> QED BY <2>1, <1>3 DEF InsertClashes
<1>5. Insert(b, docs) = [mem |-> Collection, err |-> DuplicateKey]
  BY <1>2, <1>3, <1>4, FirstClash
<1>6. PICK oid \in Oids : TRUE
  BY StoreAssumption
<1>7. Exec(b, call.req, oid) = Insert(b, docs)
  BY <1>1 DEF Exec, CallOK
<1>8. Collection' = Collection /\ indexes' = indexes
  BY DEF InsertRefused, Collection, Live
<1>9. Finish(DuplicateKey) /\ DuplicateKey \in Nat
  BY DEF InsertRefused, DuplicateKey
<1>10. StoreInv'
  BY <1>1, EndsKeep
<1> QED BY <1>1, <1>5, <1>7, <1>8, <1>9, <1>10, FinishIsRight

LEMMA InsertEndsIsRight == CallInv /\ InsertEnds => CallInv'
<1> SUFFICES ASSUME CallInv, InsertEnds PROVE CallInv'
  OBVIOUS
<1> DEFINE docs == call.req.docs
           b == call.before
           at == call.at
<1>1. /\ StoreInv /\ TypeOK /\ CallOK /\ call.op = "insert" /\ call.done = FALSE
      /\ IsMemory(b) /\ CallSoFar /\ IsMemory(Collection) /\ indexes[IdIndexName] # NoEntry
  BY InProgress DEF InsertEnds
<1>2. docs \in Seq(Docs) /\ at = Len(docs) + 1
  <2>1. docs \in Seq(Docs) /\ call.end = Len(docs) /\ at \in Nat /\ at > call.end
    BY <1>1, RequestParts DEF InsertEnds, CallOK
  <2>2. at <= call.end + 1
    BY <1>1 DEF CallSoFar, InsertSoFar
  <2> QED BY <2>1, <2>2
<1>3. /\ Collection = Grow(b, b.next, SubSeq(docs, 1, Len(docs)))
      /\ \A j \in DOMAIN docs : ~InsertClashes(b, docs, j)
  BY <1>1, <1>2 DEF CallSoFar, InsertSoFar
<1>4. SubSeq(docs, 1, Len(docs)) = docs
  <2> DEFINE all == SubSeq(docs, 1, Len(docs))
  <2>1. \A i \in 1 .. Len(docs) : docs[i] \in Docs
    BY <1>2
  <2>2. all \in Seq(Docs) /\ Len(all) = Len(docs) /\ \A i \in 1 .. Len(docs) : all[i] = docs[i]
    BY <1>2, <2>1, SubSeqProperties
  <2> HIDE DEF all
  <2>3. all = docs
    BY <1>2, <2>2, SeqEqual
  <2> QED BY <2>3 DEF all
<1>5. Insert(b, docs) = [mem |-> Collection, err |-> 0]
  BY <1>3, <1>4 DEF Insert
<1>6. PICK oid \in Oids : TRUE
  BY StoreAssumption
<1>7. Exec(b, call.req, oid) = Insert(b, docs)
  BY <1>1 DEF Exec, CallOK
<1>8. Collection' = Collection /\ indexes' = indexes
  BY DEF InsertEnds, Collection, Live
<1>9. Finish(0)
  BY DEF InsertEnds
<1>10. StoreInv'
  BY <1>1, EndsKeep
<1> QED BY <1>1, <1>5, <1>7, <1>8, <1>9, <1>10, FinishIsRight

-----------------------------------------------------------------------------
(* update.                                                                  *)

(* The parts of the collection in the middle of an update. *)
LEMMA UpdatedParts ==
  ASSUME NEW m, IsMemory(m), NEW targets, NEW spec, NEW p
  PROVE  LET u == UpdatedBelow(m, targets, spec, p)
         IN  /\ DOMAIN u.docs = DOMAIN m.docs
             /\ \A i \in DOMAIN m.docs :
                  u.docs[i] = IF i \in targets /\ i < p
                              THEN [rid |-> m.docs[i].rid, doc |-> UpdateAt(m, spec, i).doc]
                              ELSE m.docs[i]
             /\ u.end = m.end /\ u.next = m.next /\ u.idx = m.idx
             /\ u = [docs |-> u.docs, end |-> m.end, next |-> m.next, idx |-> m.idx]
<1>1. m = [docs |-> m.docs, end |-> m.end, next |-> m.next, idx |-> m.idx]
  BY DEF IsMemory
<1> QED BY <1>1 DEF UpdatedBelow

(* Only which targets lie below a position matters. *)
LEMMA UpdatedSame ==
  ASSUME NEW m, NEW targets, NEW spec, NEW p, NEW q, \A i \in targets : i < p <=> i < q
  PROVE  UpdatedBelow(m, targets, spec, p) = UpdatedBelow(m, targets, spec, q)
BY DEF UpdatedBelow

(* What a running update has left of the slots it found. *)
LEMMA UpdateView ==
  ASSUME CallInv, Running("update")
  PROVE  LET b == call.before
             targets == Targets(b, call.req.filter, call.req.multi)
         IN  /\ Live = DOMAIN b.docs /\ call.end = b.end /\ call.at \in Nat /\ call.end \in Nat
             /\ \A p \in Live : /\ p \in Nat \ {0} /\ p <= call.end
                                /\ slots[p].rid = b.docs[p].rid
                                /\ ~(p \in targets /\ p < call.at) => slots[p].doc = b.docs[p].doc
             /\ targets \subseteq Live
<1> DEFINE b == call.before
           targets == Targets(b, call.req.filter, call.req.multi)
<1>1. /\ TypeOK /\ CallOK /\ call.op = "update" /\ IsMemory(b) /\ CallSoFar
  BY InProgress
<1>2. call.end = b.end /\ Collection = UpdatedBelow(b, targets, call.req.spec, call.at)
  BY <1>1 DEF CallSoFar, UpdateSoFar
<1>3. /\ DOMAIN Collection.docs = DOMAIN b.docs
      /\ \A i \in DOMAIN b.docs :
           Collection.docs[i] = IF i \in targets /\ i < call.at
                                THEN [rid |-> b.docs[i].rid, doc |-> UpdateAt(b, call.req.spec, i).doc]
                                ELSE b.docs[i]
  BY <1>1, <1>2, UpdatedParts
<1>4. Live = DOMAIN b.docs
  BY <1>3, CollectionParts
<1>5. call.at \in Nat /\ call.end \in Nat
  BY <1>1 DEF CallOK
<1>6. targets \subseteq Live
  BY <1>4 DEF Targets
<1>7. ASSUME NEW p \in Live
      PROVE  /\ p \in Nat \ {0} /\ p <= call.end
             /\ slots[p].rid = b.docs[p].rid
             /\ ~(p \in targets /\ p < call.at) => slots[p].doc = b.docs[p].doc
  <2>1. p \in 1 .. b.end
    BY <1>1, <1>4 DEF IsMemory
  <2>2. slots[p].rid = Collection.docs[p].rid /\ slots[p].doc = Collection.docs[p].doc
    BY CollectionParts
  <2> HIDE DEF b, targets
  <2>3. slots[p].rid = b.docs[p].rid
    <3>1. CASE p \in targets /\ p < call.at
      <4>1. Collection.docs[p] = [rid |-> b.docs[p].rid, doc |-> UpdateAt(b, call.req.spec, p).doc]
        BY <3>1, <1>3, <1>4
      <4> QED BY <4>1, <2>2
    <3>2. CASE ~(p \in targets /\ p < call.at)
      BY <3>2, <2>2, <1>3, <1>4
    <3> QED BY <3>1, <3>2
  <2>4. ~(p \in targets /\ p < call.at) => slots[p].doc = b.docs[p].doc
    BY <2>2, <1>3, <1>4
  <2> QED BY <2>1, <2>3, <2>4, <1>2, <1>5
<1> QED BY <1>2, <1>4, <1>5, <1>6, <1>7

(* The next hit is the next target, and without a hit no target is left. *)
LEMMA HitsAreTargets ==
  ASSUME CallInv, Running("update")
  PROVE  LET targets == Targets(call.before, call.req.filter, call.req.multi)
         IN  /\ \A p : IsNextHit(p) =>
                  /\ p \in targets /\ call.at <= p
                  /\ \A q \in targets : q < p <=> q < call.at
                  /\ ~call.req.multi => targets = {p}
             /\ Hits = {} => /\ \A q \in targets : q < call.at
                             /\ ~call.hit => targets = {}
<1> DEFINE b == call.before
           filter == call.req.filter
           found == {i \in DOMAIN b.docs : Matches(b.docs[i].doc, filter)}
           targets == Targets(b, filter, call.req.multi)
<1>1. /\ Live = DOMAIN b.docs /\ call.end = b.end /\ call.at \in Nat /\ call.end \in Nat
      /\ \A p \in Live : /\ p \in Nat \ {0} /\ p <= call.end
                         /\ slots[p].rid = b.docs[p].rid
                         /\ ~(p \in targets /\ p < call.at) => slots[p].doc = b.docs[p].doc
      /\ targets \subseteq Live
  BY UpdateView
<1>2. IF call.hit
      THEN (\E p \in targets : p < call.at) /\ (call.req.multi \/ call.at = call.end + 1)
      ELSE call.at = 1
  BY InProgress DEF CallSoFar, UpdateSoFar
<1>3. /\ call.req.multi => targets = found
      /\ ~call.req.multi => targets = {i \in found : \A j \in found : i <= j}
  BY DEF Targets
<1>4. Hits = {p \in Live : call.at <= p /\ p <= call.end /\ Matches(slots[p].doc, filter)}
  BY DEF Hits
<1> HIDE DEF targets
<1>5. CASE call.req.multi
  <2>1. Hits = {p \in targets : call.at <= p}
    BY <1>1, <1>3, <1>4, <1>5
  <2>2. ~call.hit => \A p \in targets : ~(p < call.at)
    BY <1>1, <1>2
  <2>3. \A p : IsNextHit(p) => /\ p \in targets /\ call.at <= p
                               /\ \A q \in targets : q < p <=> q < call.at
    <3> SUFFICES ASSUME NEW p, IsNextHit(p)
                 PROVE  /\ p \in targets /\ call.at <= p
                        /\ \A q \in targets : q < p <=> q < call.at
      OBVIOUS
    <3>1. p \in targets /\ call.at <= p /\ \A q \in targets : call.at <= q => p <= q
      BY <2>1 DEF IsNextHit
    <3>2. p \in Nat /\ \A q \in targets : q \in Nat
      BY <3>1, <1>1
    <3> QED BY <3>1, <3>2, <1>1
  <2>4. Hits = {} => \A q \in targets : q < call.at
    BY <2>1, <1>1
  <2> QED BY <2>2, <2>3, <2>4, <1>5 DEF targets
<1>6. CASE ~call.req.multi /\ call.hit
  <2>1. call.at = call.end + 1
    BY <1>2, <1>6
  <2>2. Hits = {} /\ \A q \in targets : q < call.at
    BY <2>1, <1>1, <1>4
  <2> QED BY <2>2, <1>6 DEF IsNextHit, targets
<1>7. CASE ~call.req.multi /\ ~call.hit
  <2>1. call.at = 1
    BY <1>2, <1>7
  <2>2. Hits = found
    BY <2>1, <1>1, <1>4
  <2>3. \A p : IsNextHit(p) => targets = {p}
    BY <2>2, <1>1, <1>3, <1>7 DEF IsNextHit
  <2>4. targets \subseteq Hits
    BY <2>2, <1>3, <1>7
  <2>5. ASSUME NEW p, IsNextHit(p)
        PROVE  /\ p \in targets /\ call.at <= p
               /\ \A q \in targets : q < p <=> q < call.at
               /\ targets = {p}
    <3>1. targets = {p} /\ p \in Nat /\ call.at <= p
      BY <2>1, <2>3, <2>5, <1>1
    <3> QED BY <3>1, <2>1, <1>1
  <2> QED BY <2>4, <2>5 DEF targets
<1> QED BY <1>5, <1>6, <1>7

(* One document of the collection becomes another. *)
LEMMA ReplaceInCollection ==
  ASSUME TypeOK, NEW p \in Live, NEW doc \in Docs,
         slots' = [slots EXCEPT ![p].doc = doc], UNCHANGED nextRid,
         \A n \in IndexNames : /\ indexes'[n].paths = indexes[n].paths
                               /\ indexes'[n].unique = indexes[n].unique
  PROVE  \E docs :
           /\ Collection' = [docs |-> docs, end |-> Collection.end, next |-> Collection.next,
                             idx |-> Collection.idx]
           /\ docs = [i \in Live |-> docs[i]] /\ docs[p] = [rid |-> slots[p].rid, doc |-> doc]
           /\ \A i \in Live : i # p => docs[i] = Collection.docs[i]
<1>1. slots \in Seq(Slots) /\ p \in DOMAIN slots
  BY DEF TypeOK, Live
<1>2. /\ DOMAIN slots' = DOMAIN slots /\ Len(slots') = Len(slots)
      /\ slots'[p] = [slots[p] EXCEPT !.doc = doc]
      /\ \A i \in DOMAIN slots : i # p => slots'[i] = slots[i]
  BY <1>1
<1>3. slots[p] \in Slots
  BY LiveSlot, <1>1
<1>4. slots'[p].rid = slots[p].rid /\ slots'[p].doc = doc /\ slots'[p].deleted = slots[p].deleted
  BY <1>2, <1>3 DEF Slots
<1>5. Live' = Live /\ Live \subseteq DOMAIN slots
  BY <1>2, <1>4 DEF Live
<1>6. \A i \in Live : [rid |-> slots'[i].rid, doc |-> slots'[i].doc]
        = IF i = p THEN [rid |-> slots[p].rid, doc |-> doc] ELSE Collection.docs[i]
  BY <1>2, <1>4, <1>5, CollectionParts
<1>7. [n \in IndexNames |-> [paths |-> indexes'[n].paths, unique |-> indexes'[n].unique]]
        = Collection.idx
  BY CollectionParts
<1>8. Collection' = [docs |-> [i \in Live |-> [rid |-> slots'[i].rid, doc |-> slots'[i].doc]],
                     end |-> Collection.end, next |-> Collection.next, idx |-> Collection.idx]
  BY <1>2, <1>5, <1>7, CollectionParts DEF Collection
<1> DEFINE docs == [i \in Live |-> IF i = p THEN [rid |-> slots[p].rid, doc |-> doc]
                                   ELSE Collection.docs[i]]
<1>9. Collection' = [docs |-> docs, end |-> Collection.end, next |-> Collection.next,
                     idx |-> Collection.idx]
  BY <1>6, <1>8
<1>10. /\ docs = [i \in Live |-> docs[i]] /\ docs[p] = [rid |-> slots[p].rid, doc |-> doc]
       /\ \A i \in Live : i # p => docs[i] = Collection.docs[i]
  OBVIOUS
<1> HIDE DEF docs
<1> QED BY <1>9, <1>10

(* Whether the target whose turn it is stops the update, by the documents   *)
(* and by the indexes.                                                      *)
LEMMA TurnOfTarget ==
  ASSUME CallInv, Running("update"), NEW p, IsNextHit(p)
  PROVE  LET b == call.before
             spec == call.req.spec
             targets == Targets(b, call.req.filter, call.req.multi)
             outcome == ApplyUpdate(slots[p].doc, spec)
         IN  /\ p \in Live /\ p \in targets /\ p \in Nat
             /\ outcome = UpdateAt(b, spec, p) /\ outcome \in [err : Nat, doc : Docs]
             /\ Collection = UpdatedBelow(b, targets, spec, p)
             /\ p \in UpdateStops(b, targets, spec)
                  <=> \/ outcome.err # 0
                      \/ /\ outcome.doc # slots[p].doc
                         /\ Violated(indexes, slots[p].rid, outcome.doc) # {}
<1> DEFINE b == call.before
           spec == call.req.spec
           targets == Targets(b, call.req.filter, call.req.multi)
           outcome == ApplyUpdate(slots[p].doc, spec)
<1>1. /\ StoreInv /\ TypeOK /\ CallOK /\ call.op = "update" /\ CallSoFar /\ ~Filling
  BY InProgress
<1>2. p \in targets /\ call.at <= p /\ \A q \in targets : q < p <=> q < call.at
  BY HitsAreTargets
<1>3. /\ p \in Live /\ p \in Nat /\ slots[p].rid = b.docs[p].rid /\ call.at \in Nat
      /\ ~(p \in targets /\ p < call.at) => slots[p].doc = b.docs[p].doc
  BY <1>2, UpdateView
<1>4. slots[p].doc = b.docs[p].doc
  BY <1>2, <1>3
<1>5. outcome = UpdateAt(b, spec, p)
  BY <1>4 DEF UpdateAt
<1>6. outcome \in [err : Nat, doc : Docs]
  <2>1. slots[p].doc \in Docs /\ spec \in Specs
    BY <1>1, <1>3, LiveSlot, RequestParts DEF Live
  <2> QED BY <2>1, QueryAssumption
<1>7. Collection = UpdatedBelow(b, targets, spec, p)
  <2>1. Collection = UpdatedBelow(b, targets, spec, call.at)
    BY <1>1 DEF CallSoFar, UpdateSoFar
  <2> HIDE DEF b, spec, targets
  <2>2. UpdatedBelow(b, targets, spec, p) = UpdatedBelow(b, targets, spec, call.at)
    BY <1>2, UpdatedSame
  <2> QED BY <2>1, <2>2
<1>8. Violated(indexes, slots[p].rid, outcome.doc) # {}
        <=> UniqueClash(Collection, slots[p].rid, outcome.doc)
  BY <1>1, CheckIsClash
<1> HIDE DEF b, spec, targets, outcome
<1>9. p \in UpdateStops(b, targets, spec)
        <=> \/ outcome.err # 0
            \/ outcome.doc # slots[p].doc /\ Violated(indexes, slots[p].rid, outcome.doc) # {}
  <2>1. UpdateClashes(b, targets, spec, p)
          <=> outcome.doc # slots[p].doc /\ UniqueClash(Collection, slots[p].rid, outcome.doc)
    BY <1>3, <1>4, <1>5, <1>7 DEF UpdateClashes
  <2> QED BY <2>1, <1>2, <1>5, <1>8 DEF UpdateStops
<1> QED BY <1>2, <1>3, <1>5, <1>6, <1>7, <1>9 DEF b, spec, targets, outcome

LEMMA UpdateOneIsRight == \A p \in DOMAIN slots : CallInv /\ UpdateOne(p) => CallInv'
<1> SUFFICES ASSUME NEW p \in DOMAIN slots, CallInv, UpdateOne(p) PROVE CallInv'
  OBVIOUS
<1> DEFINE b == call.before
           spec == call.req.spec
           targets == Targets(b, call.req.filter, call.req.multi)
           outcome == ApplyUpdate(slots[p].doc, spec)
           at == Past(p, ~call.req.multi)
<1>0. Running("update") /\ IsNextHit(p)
  BY DEF UpdateOne
<1>1. /\ StoreInv /\ TypeOK /\ CallOK /\ call.op = "update" /\ call.done = FALSE
      /\ IsMemory(b) /\ CallSoFar /\ indexes[IdIndexName] # NoEntry
  BY <1>0, InProgress
<1>2. /\ p \in Live /\ p \in targets /\ p \in Nat
      /\ outcome = UpdateAt(b, spec, p) /\ outcome.doc \in Docs
      /\ Collection = UpdatedBelow(b, targets, spec, p)
      /\ p \notin UpdateStops(b, targets, spec)
  <2>1. outcome.err = 0 /\ (outcome.doc # slots[p].doc => Violated(indexes, slots[p].rid, outcome.doc) = {})
    BY DEF UpdateOne
  <2>2. outcome \in [err : Nat, doc : Docs] => outcome.doc \in Docs
    <3> HIDE DEF outcome
    <3> QED OBVIOUS
  <2> QED BY <1>0, <2>1, <2>2, TurnOfTarget
<1>3. /\ \A q \in targets : q < p <=> q < call.at
      /\ ~call.req.multi => targets = {p}
  BY <1>0, HitsAreTargets
<1>4. /\ Live = DOMAIN b.docs /\ call.end = b.end /\ call.at \in Nat /\ call.end \in Nat
      /\ targets \subseteq Live
      /\ \A q \in Live : q \in Nat \ {0} /\ q <= call.end
      /\ slots[p].rid = b.docs[p].rid
  BY <1>0, <1>2, UpdateView
<1>5. /\ slots' = [slots EXCEPT ![p].doc = outcome.doc] /\ UNCHANGED nextRid
      /\ call' = [call EXCEPT !.at = at, !.hit = TRUE]
      /\ \/ UNCHANGED indexes
         \/ indexes' = OnInsert(OnErase(indexes, slots[p].rid, slots[p].doc), slots[p].rid, outcome.doc)
  BY DEF UpdateOne
<1>6. \A n \in IndexNames : /\ indexes'[n].paths = indexes[n].paths
                            /\ indexes'[n].unique = indexes[n].unique
                            /\ indexes'[n] = NoEntry <=> indexes[n] = NoEntry
  <2>1. slots[p].rid \in Nat /\ slots[p].doc \in Docs /\ indexes \in Indexes
    BY <1>1, LiveSlot DEF TypeOK
  <2>2. OnErase(indexes, slots[p].rid, slots[p].doc) \in Indexes
    BY <2>1, OnEraseRemoves
  <2> DEFINE erased == OnErase(indexes, slots[p].rid, slots[p].doc)
  <2>3. \A n \in IndexNames : /\ erased[n].paths = indexes[n].paths
                              /\ erased[n].unique = indexes[n].unique
                              /\ erased[n] = NoEntry <=> indexes[n] = NoEntry
    BY <2>1, EraseKeepsDefinitions
  <2> HIDE DEF erased, outcome
  <2>4. indexes' = OnInsert(erased, slots[p].rid, outcome.doc) =>
          \A n \in IndexNames : /\ indexes'[n].paths = erased[n].paths
                                /\ indexes'[n].unique = erased[n].unique
                                /\ indexes'[n] = NoEntry <=> erased[n] = NoEntry
    BY <1>2, <2>1, <2>2, InsertKeepsDefinitions DEF erased
  <2> QED BY <1>5, <2>3, <2>4 DEF erased
<1> DEFINE next == UpdatedBelow(b, targets, spec, p + 1)
<1> HIDE DEF outcome, targets, b, spec
<1>7. Collection' = next
  <2>1. PICK docs :
          /\ Collection' = [docs |-> docs, end |-> Collection.end, next |-> Collection.next,
                            idx |-> Collection.idx]
          /\ docs = [i \in Live |-> docs[i]] /\ docs[p] = [rid |-> slots[p].rid, doc |-> outcome.doc]
          /\ \A i \in Live : i # p => docs[i] = Collection.docs[i]
    <3>1. /\ TypeOK /\ p \in Live /\ outcome.doc \in Docs /\ UNCHANGED nextRid
          /\ slots' = [slots EXCEPT ![p].doc = outcome.doc]
      BY <1>1, <1>2, <1>5
    <3>2. \A n \in IndexNames : /\ indexes'[n].paths = indexes[n].paths
                                /\ indexes'[n].unique = indexes[n].unique
      BY <1>6
    <3> QED BY <3>1, <3>2, ReplaceInCollection
  <2>2. /\ \A i \in DOMAIN b.docs :
             Collection.docs[i] = IF i \in targets /\ i < p
                                  THEN [rid |-> b.docs[i].rid, doc |-> UpdateAt(b, spec, i).doc]
                                  ELSE b.docs[i]
        /\ Collection.end = b.end /\ Collection.next = b.next /\ Collection.idx = b.idx
    BY <1>1, <1>2, UpdatedParts
  <2> DEFINE entry(i) == IF i \in targets /\ i < p + 1
                         THEN [rid |-> b.docs[i].rid, doc |-> UpdateAt(b, spec, i).doc]
                         ELSE b.docs[i]
  <2>3. ASSUME NEW i \in Live PROVE docs[i] = entry(i)
    <3>1. CASE i = p
      BY <3>1, <2>1, <1>2, <1>4
    <3>2. CASE i # p
      <4>1. i < p + 1 <=> i < p
        BY <3>2, <1>2, <1>4
      <4> QED BY <3>2, <4>1, <2>1, <2>2, <1>4
    <3> QED BY <3>1, <3>2
  <2>4. b = [docs |-> b.docs, end |-> b.end, next |-> b.next, idx |-> b.idx]
    BY <1>1 DEF IsMemory
  <2>5. next = [docs |-> [i \in Live |-> entry(i)], end |-> b.end, next |-> b.next, idx |-> b.idx]
    BY <2>4, <1>4 DEF UpdatedBelow
  <2> HIDE DEF next, entry
  <2>6. docs = [i \in Live |-> entry(i)]
    BY <2>1, <2>3
  <2> QED BY <2>1, <2>2, <2>5, <2>6
<1>8. at \in Nat \ {0} /\ at <= call.end + 1 /\ (~call.req.multi => at = call.end + 1)
        /\ (call.req.multi => at = p + 1)
  BY <1>2, <1>4 DEF Past
<1>9. p < at /\ \A q \in targets : q < at <=> q < p + 1
  <2>1. p <= call.end
    BY <1>2, <1>4
  <2> HIDE DEF at
  <2> QED BY <2>1, <1>2, <1>3, <1>4, <1>8
<1> HIDE DEF at
<1>10. /\ call'.at = at /\ call'.hit = TRUE /\ call'.req = call.req /\ call'.before = b
       /\ call'.op = "update" /\ call'.end = call.end
  BY <1>1, <1>5 DEF CallOK, b
<1>11. UpdateSoFar'
  <2>1. Collection' = UpdatedBelow(b, targets, spec, at)
    BY <1>7, <1>9, UpdatedSame
  <2>2. ASSUME NEW q \in UpdateStops(b, targets, spec)
        PROVE  at <= q
    <3>1. q \in targets /\ q # p /\ q \in Nat
      BY <1>2, <1>4 DEF UpdateStops
    <3>2. call.at <= q
      <4>1. \A r \in UpdateStops(b, targets, spec) : call.at <= r
        BY <1>1 DEF CallSoFar, UpdateSoFar, b, targets, spec
      <4> QED BY <4>1
    <3>3. ~(q < p)
      BY <3>1, <3>2, <1>3, <1>4
    <3> QED BY <3>1, <3>3, <1>2, <1>3, <1>8
  <2>3. \E q \in targets : q < at
    BY <1>2, <1>9
  <2>4. /\ Collection' = UpdatedBelow(b, targets, spec, at)
        /\ \A q \in UpdateStops(b, targets, spec) : at <= q
        /\ (\E q \in targets : q < at) /\ (call.req.multi \/ at = call.end + 1)
        /\ call.end = b.end /\ at <= call.end + 1
    BY <2>1, <2>2, <2>3, <1>4, <1>8
  <2> QED BY <2>4, <1>10 DEF UpdateSoFar, targets, spec
<1>12. CallSoFar'
  BY <1>10, <1>11 DEF CallSoFar
<1>13. StoreInv'
  BY <1>1, UpdateOneKeeps
<1>14. indexes'[IdIndexName] # NoEntry
  BY <1>1, <1>6, IndexAssumption
<1> QED BY <1>1, <1>5, <1>8, <1>12, <1>13, <1>14, GoOnIsRight DEF b

(* The target that stops an update, by its position. *)
LEMMA FirstStop ==
  ASSUME NEW m, IsMemory(m), NEW filter, NEW spec, NEW multi, NEW upsert, NEW oid, NEW p,
         p \in UpdateStops(m, Targets(m, filter, multi), spec),
         \A q \in UpdateStops(m, Targets(m, filter, multi), spec) : p <= q
  PROVE  Update(m, filter, spec, multi, upsert, oid)
           = [mem |-> UpdatedBelow(m, Targets(m, filter, multi), spec, p),
              err |-> IF UpdateAt(m, spec, p).err # 0 THEN UpdateAt(m, spec, p).err ELSE DuplicateKey]
<1> DEFINE targets == Targets(m, filter, multi)
           stops == UpdateStops(m, targets, spec)
           first == CHOOSE i \in stops : \A j \in stops : i <= j
<1>1. stops \subseteq targets /\ targets \subseteq Nat
  BY DEF UpdateStops, Targets, IsMemory
<1>2. first = p
  <2> HIDE DEF stops
  <2>1. p \in stops /\ \A q \in stops : p <= q /\ q \in Nat
    BY <1>1 DEF stops
  <2>2. first \in stops /\ \A q \in stops : first <= q
    BY <2>1
  <2> HIDE DEF first
  <2> QED BY <2>1, <2>2
<1>3. stops # {} /\ targets # {}
  BY <1>1
<1>4. Update(m, filter, spec, multi, upsert, oid)
        = [mem |-> UpdatedBelow(m, targets, spec, first),
           err |-> IF UpdateAt(m, spec, first).err # 0 THEN UpdateAt(m, spec, first).err ELSE DuplicateKey]
  BY <1>3 DEF Update
<1> QED BY <1>2, <1>4

LEMMA UpdateRefusedIsRight == \A p \in DOMAIN slots : CallInv /\ UpdateRefused(p) => CallInv'
<1> SUFFICES ASSUME NEW p \in DOMAIN slots, CallInv, UpdateRefused(p) PROVE CallInv'
  OBVIOUS
<1> DEFINE b == call.before
           req == call.req
           targets == Targets(b, req.filter, req.multi)
           stops == UpdateStops(b, targets, req.spec)
           outcome == ApplyUpdate(slots[p].doc, req.spec)
           err == IF outcome.err # 0 THEN outcome.err ELSE DuplicateKey
<1>0. Running("update") /\ IsNextHit(p)
  BY DEF UpdateRefused
<1>1. /\ StoreInv /\ TypeOK /\ CallOK /\ call.op = "update" /\ call.done = FALSE
      /\ IsMemory(b) /\ CallSoFar /\ indexes[IdIndexName] # NoEntry
  BY <1>0, InProgress
<1>2. /\ outcome = UpdateAt(b, req.spec, p) /\ outcome \in [err : Nat, doc : Docs]
      /\ Collection = UpdatedBelow(b, targets, req.spec, p)
      /\ p \in stops <=> \/ outcome.err # 0
                         \/ /\ outcome.doc # slots[p].doc
                            /\ Violated(indexes, slots[p].rid, outcome.doc) # {}
  BY <1>0, TurnOfTarget
<1>3. p \in stops /\ Finish(err) /\ UNCHANGED <<slots, nextRid, indexes>>
  BY <1>2 DEF UpdateRefused
<1>4. \A q \in stops : p <= q
  <2> SUFFICES ASSUME NEW q \in stops PROVE p <= q
    OBVIOUS
  <2>1. q \in targets /\ q \in Nat /\ p \in Nat
    <3>1. stops \subseteq targets /\ targets \subseteq Nat
      BY <1>1 DEF UpdateStops, Targets, IsMemory
    <3> QED BY <3>1, <1>3
  <2>2. call.at <= q
    BY <1>1 DEF CallSoFar, UpdateSoFar
  <2>3. (q < p <=> q < call.at) /\ call.at \in Nat
    BY <1>0, <2>1, HitsAreTargets, UpdateView
  <2> QED BY <2>1, <2>2, <2>3
<1>5. PICK oid \in Oids : TRUE
  BY StoreAssumption
<1>6. Update(b, req.filter, req.spec, req.multi, req.upsert, oid) = [mem |-> Collection, err |-> err]
  <2>1. Update(b, req.filter, req.spec, req.multi, req.upsert, oid)
          = [mem |-> UpdatedBelow(b, targets, req.spec, p),
             err |-> IF UpdateAt(b, req.spec, p).err # 0 THEN UpdateAt(b, req.spec, p).err
                     ELSE DuplicateKey]
    BY <1>1, <1>3, <1>4, FirstStop
  <2> QED BY <2>1, <1>2
<1>7. Exec(b, req, oid) = Update(b, req.filter, req.spec, req.multi, req.upsert, oid)
  BY <1>1 DEF Exec, CallOK
<1>8. Collection' = Collection /\ indexes' = indexes
  BY <1>3 DEF Collection, Live
<1>9. err \in Nat
  BY <1>2 DEF DuplicateKey
<1>10. StoreInv'
  BY <1>1, EndsKeep
<1> HIDE DEF err, b, req
<1> QED BY <1>1, <1>3, <1>6, <1>7, <1>8, <1>9, <1>10, FinishIsRight DEF b, req

LEMMA UpdateEndsIsRight == CallInv /\ UpdateEnds => CallInv'
<1> SUFFICES ASSUME CallInv, UpdateEnds PROVE CallInv'
  OBVIOUS
<1> DEFINE b == call.before
           req == call.req
           targets == Targets(b, req.filter, req.multi)
           stops == UpdateStops(b, targets, req.spec)
<1>0. Running("update") /\ Hits = {}
  BY DEF UpdateEnds
<1>1. /\ StoreInv /\ TypeOK /\ CallOK /\ call.op = "update" /\ call.done = FALSE
      /\ IsMemory(b) /\ CallSoFar /\ indexes[IdIndexName] # NoEntry
  BY <1>0, InProgress
<1>2. /\ \A q \in targets : q < call.at
      /\ ~call.hit => targets = {}
  BY <1>0, HitsAreTargets
<1>3. /\ Collection = UpdatedBelow(b, targets, req.spec, call.at)
      /\ \A q \in stops : call.at <= q
      /\ call.hit => \E q \in targets : q < call.at
  BY <1>1 DEF CallSoFar, UpdateSoFar
<1>4. /\ \A q \in targets : q \in Nat /\ q <= call.end
      /\ call.end = b.end /\ call.at \in Nat /\ call.end \in Nat
  BY <1>0, UpdateView
<1>5. stops = {}
  <2>1. stops \subseteq targets
    BY DEF UpdateStops
  <2> HIDE DEF stops, targets
  <2> QED BY <2>1, <1>2, <1>3, <1>4
<1>6. UpdatedBelow(b, targets, req.spec, b.end + 1) = Collection
  <2>1. \A q \in targets : q < call.at <=> q < b.end + 1
    BY <1>2, <1>4
  <2> HIDE DEF targets, b, req
  <2> QED BY <2>1, <1>3, UpdatedSame
<1>7. ~(targets = {} /\ req.upsert)
  BY <1>3 DEF UpdateEnds
<1>8. PICK oid \in Oids : TRUE
  BY StoreAssumption
<1>9. Exec(b, req, oid) = [mem |-> Collection, err |-> 0]
  <2>1. Exec(b, req, oid) = Update(b, req.filter, req.spec, req.multi, req.upsert, oid)
    BY <1>1 DEF Exec, CallOK
  <2>2. Update(b, req.filter, req.spec, req.multi, req.upsert, oid)
          = [mem |-> UpdatedBelow(b, targets, req.spec, b.end + 1), err |-> 0]
    BY <1>5, <1>7 DEF Update
  <2> QED BY <2>1, <2>2, <1>6
<1>10. Collection' = Collection /\ indexes' = indexes /\ Finish(0)
  BY DEF UpdateEnds, Collection, Live
<1>11. StoreInv'
  BY <1>1, EndsKeep
<1> HIDE DEF b, req
<1> QED BY <1>1, <1>9, <1>10, <1>11, FinishIsRight DEF b, req

(* Without a target the collection is what the call found, and the seed of an *)
(* upsert is refused or appended.                                             *)
LEMMA UpsertIsRight == \A oid \in Oids : CallInv /\ Upsert(oid) => CallInv'
<1> SUFFICES ASSUME NEW oid \in Oids, CallInv, Upsert(oid) PROVE CallInv'
  OBVIOUS
<1> DEFINE b == call.before
           req == call.req
           targets == Targets(b, req.filter, req.multi)
           seed == SeedUpsert(req.filter, req.spec, oid)
           refused == seed.err # 0 \/ Violated(indexes, InvalidRecordId, seed.doc) # {}
<1>0. Running("update") /\ Hits = {} /\ ~call.hit /\ req.upsert
  BY DEF Upsert
<1>1. /\ StoreInv /\ TypeOK /\ CallOK /\ call.op = "update" /\ call.done = FALSE
      /\ IsMemory(b) /\ CallSoFar /\ indexes[IdIndexName] # NoEntry /\ ~Filling
      /\ IsMemory(Collection)
  BY <1>0, InProgress
<1>2. targets = {}
  BY <1>0, HitsAreTargets
<1>3. Collection = b
  <2>1. Collection = UpdatedBelow(b, targets, req.spec, call.at)
    BY <1>1 DEF CallSoFar, UpdateSoFar
  <2>2. /\ DOMAIN Collection.docs = DOMAIN b.docs
        /\ \A i \in DOMAIN b.docs : Collection.docs[i] = b.docs[i]
        /\ Collection.end = b.end /\ Collection.next = b.next /\ Collection.idx = b.idx
    <3> HIDE DEF targets, b, req
    <3>1. /\ DOMAIN Collection.docs = DOMAIN b.docs
          /\ \A i \in DOMAIN b.docs :
               Collection.docs[i] = IF i \in targets /\ i < call.at
                                    THEN [rid |-> b.docs[i].rid, doc |-> UpdateAt(b, req.spec, i).doc]
                                    ELSE b.docs[i]
          /\ Collection.end = b.end /\ Collection.next = b.next /\ Collection.idx = b.idx
      BY <2>1, <1>1, UpdatedParts
    <3> QED BY <3>1, <1>2
  <2> QED BY <2>2, <1>1, SameMemory
<1>4. seed.err \in Nat /\ seed.doc \in Docs
  <2>1. seed \in [err : Nat, doc : Docs]
    BY <1>1, RequestParts, QueryAssumption
  <2> HIDE DEF seed
  <2> QED BY <2>1
<1>5. Exec(b, req, oid) = InsertSeed(Collection, seed)
  <2>1. Exec(b, req, oid) = Update(b, req.filter, req.spec, req.multi, req.upsert, oid)
    BY <1>1 DEF Exec, CallOK
  <2>2. Update(b, req.filter, req.spec, req.multi, req.upsert, oid) = InsertSeed(b, seed)
    BY <1>0, <1>2 DEF Update
  <2> QED BY <2>1, <2>2, <1>3
<1> HIDE DEF seed
<1>6. Violated(indexes, InvalidRecordId, seed.doc) # {}
        <=> UniqueClash(Collection, InvalidRecordId, seed.doc)
  BY <1>1, CheckIsClash
<1>7. StoreInv'
  BY <1>1, UpsertKeeps
<1>8. CASE refused
  <2> DEFINE err == IF seed.err # 0 THEN seed.err ELSE DuplicateKey
  <2>1. Finish(err) /\ UNCHANGED <<slots, nextRid, indexes>>
    BY <1>8 DEF Upsert, seed
  <2>2. Collection' = Collection
    BY <2>1 DEF Collection, Live
  <2>3. InsertSeed(Collection, seed) = [mem |-> Collection, err |-> err]
    BY <1>6, <1>8 DEF InsertSeed
  <2>4. err \in Nat
    BY <1>4 DEF DuplicateKey
  <2> HIDE DEF err, b, req
  <2> QED BY <2>1, <2>2, <2>3, <2>4, <1>1, <1>5, <1>7, FinishIsRight DEF b, req
<1>9. CASE ~refused
  <2>1. AppendDoc(seed.doc) /\ Finish(0)
    BY <1>9 DEF Upsert, seed
  <2>2. Collection' = Grow(Collection, Collection.next, <<seed.doc>>) /\ indexes'[IdIndexName] # NoEntry
    BY <2>1, <1>1, <1>4, AppendGrows
  <2>3. InsertSeed(Collection, seed) = [mem |-> Collection', err |-> 0]
    BY <2>2, <1>6, <1>9 DEF InsertSeed
  <2> HIDE DEF b, req
  <2> QED BY <2>1, <2>2, <2>3, <1>1, <1>5, <1>7, FinishIsRight DEF b, req
<1> QED BY <1>8, <1>9

-----------------------------------------------------------------------------
(* erase.                                                                   *)

(* The parts of the collection in the middle of an erase. *)
LEMMA ErasedParts ==
  ASSUME NEW m, IsMemory(m), NEW gone, NEW p
  PROVE  LET e == ErasedBelow(m, gone, p)
         IN  /\ DOMAIN e.docs = DOMAIN m.docs \ {q \in gone : q < p}
             /\ \A i \in DOMAIN m.docs \ {q \in gone : q < p} : e.docs[i] = m.docs[i]
             /\ e.end = m.end /\ e.next = m.next /\ e.idx = m.idx
<1>1. m = [docs |-> m.docs, end |-> m.end, next |-> m.next, idx |-> m.idx]
  BY DEF IsMemory
<1> QED BY <1>1 DEF ErasedBelow

(* Only which of the documents lie below a position matters. *)
LEMMA ErasedSame ==
  ASSUME NEW m, NEW gone, NEW p, NEW q, \A i \in gone : i < p <=> i < q
  PROVE  ErasedBelow(m, gone, p) = ErasedBelow(m, gone, q)
<1>1. {i \in gone : i < p} = {i \in gone : i < q}
  OBVIOUS
<1> QED BY <1>1 DEF ErasedBelow

(* What a running erase has left of the slots it found, and that the next    *)
(* hit is the next document to go.                                           *)
LEMMA EraseView ==
  ASSUME CallInv, Running("erase")
  PROVE  LET b == call.before
             gone == Targets(b, call.req.filter, ~call.req.single)
         IN  /\ Live = DOMAIN b.docs \ {q \in gone : q < call.at}
             /\ call.end = b.end /\ call.at \in Nat /\ call.end \in Nat
             /\ \A p \in DOMAIN b.docs : p \in Nat \ {0} /\ p <= call.end
             /\ gone \subseteq DOMAIN b.docs
             /\ \A p : IsNextHit(p) =>
                  /\ p \in gone /\ p \in Live /\ call.at <= p
                  /\ \A q \in gone : q < p <=> q < call.at
                  /\ call.req.single => gone = {p}
             /\ Hits = {} => \A q \in gone : q < call.at
<1> DEFINE b == call.before
           filter == call.req.filter
           found == {i \in DOMAIN b.docs : Matches(b.docs[i].doc, filter)}
           gone == Targets(b, filter, ~call.req.single)
<1>1. /\ TypeOK /\ CallOK /\ call.op = "erase" /\ IsMemory(b) /\ CallSoFar
  BY InProgress
<1>2. /\ call.end = b.end /\ Collection = ErasedBelow(b, gone, call.at)
      /\ call.req.single => call.at \in {1, call.end + 1}
  BY <1>1 DEF CallSoFar, EraseSoFar
<1>3. /\ call.req.single => gone = {i \in found : \A j \in found : i <= j}
      /\ ~call.req.single => gone = found
  BY DEF Targets
<1>4. gone \subseteq found
  BY <1>3
<1> HIDE DEF gone
<1>5. /\ DOMAIN Collection.docs = DOMAIN b.docs \ {q \in gone : q < call.at}
      /\ \A i \in DOMAIN b.docs \ {q \in gone : q < call.at} : Collection.docs[i] = b.docs[i]
  BY <1>1, <1>2, ErasedParts
<1>6. Live = DOMAIN b.docs \ {q \in gone : q < call.at}
  BY <1>5, CollectionParts
<1>7. call.at \in Nat /\ call.end \in Nat
  BY <1>1 DEF CallOK
<1>8. ASSUME NEW p \in DOMAIN b.docs
      PROVE  p \in Nat \ {0} /\ p <= call.end
  <2>1. p \in 1 .. b.end
    BY <1>1 DEF IsMemory
  <2> HIDE DEF b
  <2> QED BY <2>1, <1>2, <1>7
<1>9. \A p \in Live : slots[p].doc = b.docs[p].doc
  BY <1>5, <1>6, CollectionParts
<1>10. Hits = {p \in Live : call.at <= p /\ p <= call.end /\ Matches(slots[p].doc, filter)}
  BY DEF Hits
<1>11. Hits = {p \in found : call.at <= p}
  BY <1>4, <1>6, <1>7, <1>8, <1>9, <1>10
<1>12. CASE ~call.req.single
  <2>1. Hits = {p \in gone : call.at <= p}
    BY <1>3, <1>11, <1>12
  <2>2. ASSUME NEW p, IsNextHit(p)
        PROVE  p \in gone /\ p \in Live /\ call.at <= p /\ \A q \in gone : q < p <=> q < call.at
    <3>1. p \in gone /\ call.at <= p /\ \A q \in gone : call.at <= q => p <= q
      BY <2>1, <2>2 DEF IsNextHit
    <3>2. p \in Nat /\ \A q \in gone : q \in Nat
      BY <3>1, <1>4, <1>8
    <3> QED BY <3>1, <3>2, <1>4, <1>6, <1>7
  <2>3. Hits = {} => \A q \in gone : q < call.at
    BY <2>1, <1>4, <1>7, <1>8
  <2> QED BY <2>2, <2>3, <1>2, <1>4, <1>6, <1>7, <1>8, <1>12 DEF gone
<1>13. CASE call.req.single /\ call.at = call.end + 1
  <2>1. Hits = {} /\ \A q \in gone : q < call.at
    BY <1>4, <1>7, <1>8, <1>11, <1>13
  <2> QED BY <2>1, <1>2, <1>4, <1>6, <1>7, <1>8 DEF gone, IsNextHit
<1>14. CASE call.req.single /\ call.at = 1
  <2>1. Hits = found
    BY <1>8, <1>11, <1>14
  <2>2. ASSUME NEW p, IsNextHit(p)
        PROVE  /\ p \in gone /\ p \in Live /\ call.at <= p
               /\ \A q \in gone : q < p <=> q < call.at
               /\ gone = {p}
    <3>1. p \in found /\ \A q \in found : p <= q
      BY <2>1, <2>2 DEF IsNextHit
    <3>2. p \in Nat /\ \A q \in found : q \in Nat
      BY <3>1, <1>8
    <3>3. gone = {p}
      BY <3>1, <3>2, <1>3, <1>14
    <3> QED BY <3>1, <3>2, <3>3, <1>6, <1>8, <1>14
  <2>3. Hits = {} => \A q \in gone : q < call.at
    BY <2>1, <1>4
  <2> QED BY <2>2, <2>3, <1>2, <1>4, <1>6, <1>7, <1>8 DEF gone
<1> QED BY <1>2, <1>12, <1>13, <1>14

(* One document leaves the collection. *)
LEMMA RemoveFromCollection ==
  ASSUME TypeOK, NEW p \in Live,
         slots' = [slots EXCEPT ![p].deleted = TRUE], UNCHANGED nextRid,
         \A n \in IndexNames : /\ indexes'[n].paths = indexes[n].paths
                               /\ indexes'[n].unique = indexes[n].unique
  PROVE  \E docs :
           /\ Collection' = [docs |-> docs, end |-> Collection.end, next |-> Collection.next,
                             idx |-> Collection.idx]
           /\ docs = [i \in Live \ {p} |-> docs[i]]
           /\ \A i \in Live \ {p} : docs[i] = Collection.docs[i]
<1>1. slots \in Seq(Slots) /\ p \in DOMAIN slots
  BY DEF TypeOK, Live
<1>2. /\ DOMAIN slots' = DOMAIN slots /\ Len(slots') = Len(slots)
      /\ slots'[p] = [slots[p] EXCEPT !.deleted = TRUE]
      /\ \A i \in DOMAIN slots : i # p => slots'[i] = slots[i]
  BY <1>1
<1>3. slots[p] \in Slots
  BY LiveSlot, <1>1
<1>4. slots'[p].deleted
  BY <1>2, <1>3 DEF Slots
<1>5. Live' = Live \ {p} /\ Live \subseteq DOMAIN slots
  BY <1>2, <1>4 DEF Live
<1>6. \A i \in Live \ {p} : [rid |-> slots'[i].rid, doc |-> slots'[i].doc] = Collection.docs[i]
  BY <1>2, <1>5, CollectionParts
<1>7. [n \in IndexNames |-> [paths |-> indexes'[n].paths, unique |-> indexes'[n].unique]]
        = Collection.idx
  BY CollectionParts
<1> DEFINE docs == [i \in Live \ {p} |-> Collection.docs[i]]
<1>8. Collection' = [docs |-> [i \in Live \ {p} |-> [rid |-> slots'[i].rid, doc |-> slots'[i].doc]],
                     end |-> Collection.end, next |-> Collection.next, idx |-> Collection.idx]
  BY <1>2, <1>5, <1>7, CollectionParts DEF Collection
<1>9. Collection' = [docs |-> docs, end |-> Collection.end, next |-> Collection.next,
                     idx |-> Collection.idx]
  BY <1>6, <1>8
<1>10. docs = [i \in Live \ {p} |-> docs[i]] /\ \A i \in Live \ {p} : docs[i] = Collection.docs[i]
  OBVIOUS
<1> HIDE DEF docs
<1> QED BY <1>9, <1>10

LEMMA EraseOneIsRight == \A p \in DOMAIN slots : CallInv /\ EraseOne(p) => CallInv'
<1> SUFFICES ASSUME NEW p \in DOMAIN slots, CallInv, EraseOne(p) PROVE CallInv'
  OBVIOUS
<1> DEFINE b == call.before
           gone == Targets(b, call.req.filter, ~call.req.single)
           at == Past(p, call.req.single)
<1>0. Running("erase") /\ IsNextHit(p)
  BY DEF EraseOne
<1>1. /\ StoreInv /\ TypeOK /\ CallOK /\ call.op = "erase" /\ call.done = FALSE
      /\ IsMemory(b) /\ CallSoFar /\ indexes[IdIndexName] # NoEntry /\ IsMemory(Collection)
  BY <1>0, InProgress
<1>2. /\ Live = DOMAIN b.docs \ {q \in gone : q < call.at}
      /\ call.end = b.end /\ call.at \in Nat /\ call.end \in Nat
      /\ \A q \in DOMAIN b.docs : q \in Nat \ {0} /\ q <= call.end
      /\ gone \subseteq DOMAIN b.docs
      /\ p \in gone /\ p \in Live /\ call.at <= p
      /\ \A q \in gone : q < p <=> q < call.at
      /\ call.req.single => gone = {p}
  BY <1>0, EraseView
<1>3. Collection = ErasedBelow(b, gone, call.at)
  BY <1>1 DEF CallSoFar, EraseSoFar
<1>4. /\ slots' = [slots EXCEPT ![p].deleted = TRUE] /\ UNCHANGED nextRid
      /\ indexes' = OnErase(indexes, slots[p].rid, slots[p].doc)
      /\ call' = [call EXCEPT !.at = at, !.hit = call.hit]
  BY <1>1 DEF EraseOne, Bury, CallOK
<1> HIDE DEF gone, b
<1>5. \A n \in IndexNames : /\ indexes'[n].paths = indexes[n].paths
                            /\ indexes'[n].unique = indexes[n].unique
                            /\ indexes'[n] = NoEntry <=> indexes[n] = NoEntry
  <2>1. slots[p].rid \in Nat /\ slots[p].doc \in Docs /\ indexes \in Indexes
    BY <1>1, LiveSlot DEF TypeOK
  <2> QED BY <2>1, <1>4, EraseKeepsDefinitions
<1>6. at \in Nat \ {0} /\ p < at /\ at <= call.end + 1 /\ (call.req.single => at = call.end + 1)
        /\ (~call.req.single => at = p + 1)
  BY <1>2 DEF Past
<1>7. \A q \in gone : q < at <=> q = p \/ q < call.at
  <2>1. CASE call.req.single
    BY <2>1, <1>2, <1>6
  <2>2. CASE ~call.req.single
    <3>1. ASSUME NEW q \in gone PROVE q < p + 1 <=> q = p \/ q < p
      BY <1>2
    <3> QED BY <2>2, <3>1, <1>2, <1>6
  <2> QED BY <2>1, <2>2
<1>8. Collection' = ErasedBelow(b, gone, at)
  <2>1. PICK docs :
          /\ Collection' = [docs |-> docs, end |-> Collection.end, next |-> Collection.next,
                            idx |-> Collection.idx]
          /\ docs = [i \in Live \ {p} |-> docs[i]]
          /\ \A i \in Live \ {p} : docs[i] = Collection.docs[i]
    <3>1. \A n \in IndexNames : /\ indexes'[n].paths = indexes[n].paths
                                /\ indexes'[n].unique = indexes[n].unique
      BY <1>5
    <3> QED BY <1>1, <1>2, <1>4, <3>1, RemoveFromCollection
  <2>2. Live \ {p} = DOMAIN b.docs \ {q \in gone : q < at}
    BY <1>2, <1>7
  <2>3. /\ \A i \in DOMAIN b.docs \ {q \in gone : q < call.at} : Collection.docs[i] = b.docs[i]
        /\ Collection.end = b.end /\ Collection.next = b.next /\ Collection.idx = b.idx
    BY <1>1, <1>3, ErasedParts
  <2>4. \A i \in Live \ {p} : docs[i] = b.docs[i]
    BY <2>1, <2>3, <1>2
  <2>5. b = [docs |-> b.docs, end |-> b.end, next |-> b.next, idx |-> b.idx]
    BY <1>1 DEF IsMemory
  <2>6. ErasedBelow(b, gone, at)
          = [docs |-> [i \in Live \ {p} |-> b.docs[i]], end |-> b.end, next |-> b.next, idx |-> b.idx]
    BY <2>2, <2>5 DEF ErasedBelow
  <2>7. docs = [i \in Live \ {p} |-> b.docs[i]]
    BY <2>1, <2>4
  <2> QED BY <2>1, <2>3, <2>6, <2>7
<1> HIDE DEF at
<1>9. /\ call'.at = at /\ call'.req = call.req /\ call'.before = b
      /\ call'.op = "erase" /\ call'.end = call.end
  BY <1>1, <1>4 DEF CallOK, b
<1>10. EraseSoFar'
  BY <1>2, <1>6, <1>8, <1>9 DEF EraseSoFar, gone
<1>11. CallSoFar'
  BY <1>9, <1>10 DEF CallSoFar
<1>12. StoreInv'
  BY <1>1, EraseOneKeeps
<1>13. indexes'[IdIndexName] # NoEntry
  BY <1>1, <1>5, IndexAssumption
<1>14. call.hit \in BOOLEAN
  BY <1>1 DEF CallOK
<1> QED BY <1>1, <1>4, <1>6, <1>11, <1>12, <1>13, <1>14, GoOnIsRight DEF b

LEMMA EraseEndsIsRight == CallInv /\ EraseEnds => CallInv'
<1> SUFFICES ASSUME CallInv, EraseEnds PROVE CallInv'
  OBVIOUS
<1> DEFINE b == call.before
           req == call.req
           gone == Targets(b, req.filter, ~req.single)
<1>0. Running("erase") /\ Hits = {}
  BY DEF EraseEnds
<1>1. /\ StoreInv /\ TypeOK /\ CallOK /\ call.op = "erase" /\ call.done = FALSE
      /\ IsMemory(b) /\ CallSoFar /\ indexes[IdIndexName] # NoEntry
  BY <1>0, InProgress
<1>2. Collection = ErasedBelow(b, gone, call.at)
  BY <1>1 DEF CallSoFar, EraseSoFar
<1>3. \A q \in gone : q < call.at
  BY <1>0, EraseView
<1>4. Collection = Erase(b, req.filter, req.single).mem
  <2>1. {q \in gone : q < call.at} = gone
    BY <1>3
  <2> HIDE DEF b
  <2>2. ErasedBelow(b, gone, call.at)
          = [b EXCEPT !.docs = [i \in DOMAIN b.docs \ gone |-> b.docs[i]]]
    BY <2>1 DEF ErasedBelow
  <2> QED BY <2>2, <1>2 DEF Erase
<1>5. PICK oid \in Oids : TRUE
  BY StoreAssumption
<1>6. Exec(b, req, oid) = [mem |-> Collection, err |-> 0]
  <2>1. Exec(b, req, oid) = Erase(b, req.filter, req.single)
    BY <1>1 DEF Exec, CallOK
  <2> QED BY <2>1, <1>4 DEF Erase
<1>7. Collection' = Collection /\ indexes' = indexes /\ Finish(0)
  BY DEF EraseEnds, Collection, Live
<1>8. StoreInv'
  BY <1>1, EndsKeep
<1> HIDE DEF b, req
<1> QED BY <1>1, <1>6, <1>7, <1>8, FinishIsRight DEF b, req

-----------------------------------------------------------------------------
(* createIndex and dropIndex.                                               *)

(* One index definition of the collection becomes another. *)
LEMMA RedefineInCollection ==
  ASSUME TypeOK, NEW name \in IndexNames, NEW entry,
         indexes' = [indexes EXCEPT ![name] = entry], UNCHANGED <<slots, nextRid>>
  PROVE  Collection' = [Collection EXCEPT !.idx[name] =
                          [paths |-> entry.paths, unique |-> entry.unique]]
<1>1. indexes \in Indexes
  BY DEF TypeOK
<1>2. indexes'[name] = entry /\ \A n \in IndexNames : n # name => indexes'[n] = indexes[n]
  BY <1>1 DEF Indexes
<1> DEFINE idx == [n \in IndexNames |-> [paths |-> indexes'[n].paths, unique |-> indexes'[n].unique]]
           def == [paths |-> entry.paths, unique |-> entry.unique]
<1>3. idx = [Collection.idx EXCEPT ![name] = def]
  BY <1>2, CollectionParts
<1>4. Collection' = [docs |-> Collection.docs, end |-> Collection.end, next |-> Collection.next,
                     idx |-> idx]
  BY DEF Collection, Live
<1>5. Collection = [docs |-> Collection.docs, end |-> Collection.end,
                    next |-> Collection.next, idx |-> Collection.idx]
  BY DEF Collection
<1> HIDE DEF idx, def
<1>6. Collection' = [Collection EXCEPT !.idx = idx]
  BY <1>4, <1>5
<1> QED BY <1>3, <1>5, <1>6 DEF def

LEMMA RegisterIndexIsRight == CallInv /\ RegisterIndex => CallInv'
<1> SUFFICES ASSUME CallInv, RegisterIndex PROVE CallInv'
  OBVIOUS
<1> DEFINE b == call.before
           w == call.req
<1>0. Running("createIndex") /\ ~call.hit
  BY DEF RegisterIndex
<1>1. /\ StoreInv /\ TypeOK /\ CallOK /\ call.op = "createIndex" /\ call.done = FALSE
      /\ IsMemory(b) /\ CallSoFar /\ indexes[IdIndexName] # NoEntry
  BY <1>0, InProgress
<1>2. w.name \in IndexNames /\ w.paths \in KeyPaths \cup {<<>>} /\ w.unique \in BOOLEAN
  BY <1>1, RequestParts
<1>3. Collection = b
  BY <1>0, <1>1 DEF CallSoFar, IndexSoFar
<1>4. b.idx[w.name] = NoIndex <=> indexes[w.name] = NoEntry
  BY <1>1, <1>2, <1>3, DefinitionOfIndex
<1>5. StoreInv'
  BY <1>1, RegisterIndexKeeps
<1>6. PICK oid \in Oids : TRUE
  BY StoreAssumption
<1>7. Exec(b, w, oid) = CreateIndex(b, w.name, w.paths, w.unique)
  BY <1>1 DEF Exec, CallOK
<1>8. ASSUME NEW err \in Nat, Finish(err), UNCHANGED indexes,
             CreateIndex(b, w.name, w.paths, w.unique) = [mem |-> b, err |-> err]
      PROVE  CallInv'
  <2>1. Collection' = Collection
    BY <1>8 DEF RegisterIndex, Collection, Live
  <2> HIDE DEF b, w
  <2> QED BY <1>1, <1>3, <1>5, <1>7, <1>8, <2>1, FinishIsRight DEF b, w
<1>9. CASE w.paths = <<>>
  <2>1. Finish(InvalidIndexSpecification) /\ UNCHANGED indexes /\ InvalidIndexSpecification \in Nat
    BY <1>9 DEF RegisterIndex, InvalidIndexSpecification
  <2> QED BY <2>1, <1>8, <1>9 DEF CreateIndex
<1>10. CASE w.paths # <<>> /\ indexes[w.name] # NoEntry
  <2>1. Finish(0) /\ UNCHANGED indexes
    BY <1>10 DEF RegisterIndex
  <2> QED BY <2>1, <1>4, <1>8, <1>10 DEF CreateIndex
<1>11. CASE w.paths # <<>> /\ indexes[w.name] = NoEntry
  <2> DEFINE entry == [NoEntry EXCEPT !.paths = w.paths, !.unique = w.unique]
  <2>1. /\ call' = [call EXCEPT !.at = call.at, !.hit = TRUE]
        /\ indexes' = [indexes EXCEPT ![w.name] = entry] /\ UNCHANGED <<slots, nextRid>>
    BY <1>1, <1>11 DEF RegisterIndex, CallOK
  <2>2. entry.paths = w.paths /\ entry.unique = w.unique
    BY DEF NoEntry
  <2>3. entry # NoEntry
    BY <2>2, <1>11 DEF NoEntry
  <2> HIDE DEF entry
  <2>4. Collection' = [b EXCEPT !.idx[w.name] = [paths |-> w.paths, unique |-> w.unique]]
    <3> HIDE DEF b, w
    <3>1. Collection' = [Collection EXCEPT !.idx[w.name] =
                           [paths |-> entry.paths, unique |-> entry.unique]]
      BY <2>1, <1>1, <1>2, RedefineInCollection
    <3> QED BY <2>2, <3>1, <1>3
  <2>5. indexes'[IdIndexName] # NoEntry
    BY <2>1, <2>3, <1>1, IndexAssumption DEF TypeOK, Indexes
  <2>6. call.at \in Nat \ {0}
    BY <1>1 DEF CallOK
  <2>7. call'.op = "createIndex" /\ call'.hit = TRUE /\ call'.req = w /\ call'.before = b
    BY <2>1, <1>1 DEF CallOK
  <2>8. CallSoFar'
    BY <2>4, <2>7, <1>4, <1>11 DEF CallSoFar, IndexSoFar
  <2> QED BY <2>1, <2>5, <2>6, <2>8, <1>1, <1>5, GoOnIsRight
<1> QED BY <1>9, <1>10, <1>11

(* What is known of a call that is filling its index. *)
LEMMA FillView ==
  ASSUME CallInv, Filling
  PROVE  LET b == call.before
             w == call.req
         IN  /\ StoreInv /\ TypeOK /\ CallOK /\ call.op = "createIndex" /\ call.done = FALSE
             /\ IsMemory(b) /\ indexes[IdIndexName] # NoEntry /\ CallSoFar
             /\ w.name \in IndexNames /\ w.name # IdIndexName /\ w.unique \in BOOLEAN
             /\ w.paths # <<>> /\ b.idx[w.name] = NoIndex
             /\ Collection = [b EXCEPT !.idx[w.name] = [paths |-> w.paths, unique |-> w.unique]]
             /\ indexes[w.name].paths = w.paths /\ indexes[w.name].unique = w.unique
             /\ DOMAIN b.docs = Live
             /\ \A p \in Live : b.docs[p].rid = slots[p].rid /\ b.docs[p].doc = slots[p].doc
<1> DEFINE b == call.before
           w == call.req
<1>1. /\ StoreInv /\ TypeOK /\ CallOK /\ call.op = "createIndex" /\ call.done = FALSE
      /\ IsMemory(b) /\ CallSoFar /\ indexes[IdIndexName] # NoEntry
  BY InProgress DEF Filling
<1>2. w.name \in IndexNames /\ w.paths \in KeyPaths \cup {<<>>} /\ w.unique \in BOOLEAN
  BY <1>1, RequestParts
<1>3. /\ w.paths # <<>> /\ b.idx[w.name] = NoIndex
      /\ Collection = [b EXCEPT !.idx[w.name] = [paths |-> w.paths, unique |-> w.unique]]
  BY <1>1 DEF CallSoFar, IndexSoFar, Filling
<1>4. w.name # IdIndexName
  BY <1>1, <1>3 DEF IsMemory
<1>5. /\ b = [docs |-> b.docs, end |-> b.end, next |-> b.next, idx |-> b.idx]
      /\ b.idx \in [IndexNames -> IndexDefs \cup {NoIndex}]
  BY <1>1 DEF IsMemory
<1> HIDE DEF b, w
<1>6. /\ Collection.docs = b.docs
      /\ Collection.idx[w.name] = [paths |-> w.paths, unique |-> w.unique]
  BY <1>2, <1>3, <1>5
<1>7. indexes[w.name].paths = w.paths /\ indexes[w.name].unique = w.unique
  BY <1>2, <1>6, CollectionParts
<1>8. /\ DOMAIN b.docs = Live
      /\ \A p \in Live : b.docs[p].rid = slots[p].rid /\ b.docs[p].doc = slots[p].doc
  BY <1>6, CollectionParts
<1> QED BY <1>1, <1>2, <1>3, <1>4, <1>7, <1>8 DEF b, w

LEMMA FillOneIsRight == \A p \in DOMAIN slots : CallInv /\ FillOne(p) => CallInv'
<1> SUFFICES ASSUME NEW p \in DOMAIN slots, CallInv, FillOne(p) PROVE CallInv'
  OBVIOUS
<1>1. /\ StoreInv /\ TypeOK /\ CallOK /\ call.op = "createIndex" /\ call.done = FALSE
      /\ IsMemory(call.before) /\ indexes[IdIndexName] # NoEntry /\ CallSoFar
  BY FillView DEF FillOne
<1>2. slots[p].rid \in Nat /\ slots[p].doc \in Docs /\ indexes \in Indexes /\ p \in Nat
  BY <1>1, LiveSlot DEF TypeOK
<1>3. /\ indexes' = OnInsert(indexes, slots[p].rid, slots[p].doc) /\ UNCHANGED <<slots, nextRid>>
      /\ call' = [call EXCEPT !.at = p + 1, !.hit = call.hit]
  BY <1>1 DEF FillOne, CallOK
<1>4. \A n \in IndexNames : /\ indexes'[n].paths = indexes[n].paths
                            /\ indexes'[n].unique = indexes[n].unique
                            /\ indexes'[n] = NoEntry <=> indexes[n] = NoEntry
  BY <1>2, <1>3, InsertKeepsDefinitions
<1>5. Collection' = Collection
  BY <1>3, <1>4, SameCollection
<1>6. p + 1 \in Nat \ {0} /\ call.hit \in BOOLEAN
  BY <1>1, <1>2 DEF CallOK
<1>7. call'.op = "createIndex" /\ call'.hit = call.hit /\ call'.req = call.req
        /\ call'.before = call.before
  BY <1>1, <1>3 DEF CallOK
<1>8. CallSoFar'
  BY <1>1, <1>5, <1>7 DEF CallSoFar, IndexSoFar
<1>9. StoreInv'
  BY <1>1, FillOneKeeps
<1>10. indexes'[IdIndexName] # NoEntry
  BY <1>1, <1>4, IndexAssumption
<1> QED BY <1>1, <1>3, <1>6, <1>8, <1>9, <1>10, GoOnIsRight

(* The document that stops the fill shares a key with one that is live. *)
LEMMA FillRefusedIsRight == \A p \in DOMAIN slots : CallInv /\ FillRefused(p) => CallInv'
<1> SUFFICES ASSUME NEW p \in DOMAIN slots, CallInv, FillRefused(p) PROVE CallInv'
  OBVIOUS
<1> DEFINE b == call.before
           w == call.req
<1>0. Filling
  BY DEF FillRefused
<1>1. /\ StoreInv /\ TypeOK /\ CallOK /\ call.op = "createIndex" /\ call.done = FALSE
      /\ IsMemory(b) /\ indexes[IdIndexName] # NoEntry
      /\ w.name \in IndexNames /\ w.name # IdIndexName
      /\ w.paths # <<>> /\ b.idx[w.name] = NoIndex
      /\ Collection = [b EXCEPT !.idx[w.name] = [paths |-> w.paths, unique |-> w.unique]]
      /\ indexes[w.name].paths = w.paths
      /\ DOMAIN b.docs = Live
      /\ \A q \in Live : b.docs[q].rid = slots[q].rid /\ b.docs[q].doc = slots[q].doc
  BY <1>0, FillView
<1>2. /\ w.unique /\ p \in Live
      /\ w.name \in Violated(indexes, slots[p].rid, slots[p].doc)
      /\ indexes' = [indexes EXCEPT ![w.name] = NoEntry]
      /\ Finish(DuplicateKey) /\ UNCHANGED <<slots, nextRid>>
  BY DEF FillRefused, IsNextUnfilled, Unfilled
<1>3. HasDuplicates(b, w.paths)
  <2>1. PICK x \in indexes[w.name].keys :
          x[2] # slots[p].rid /\ x[1] \in DocKeys(slots[p].doc, w.paths)
    BY <1>1, <1>2 DEF Violated
  <2>2. w.name \in Existing(indexes)
    BY <1>1, <1>2, UniqueExists DEF TypeOK, Violated
  <2>3. PICK q \in Covered(w.name) : x[2] = slots[q].rid /\ x[1] \in DocKeys(slots[q].doc, w.paths)
    BY <2>2, <1>1, SlotOfPair DEF StoreInv
  <2>4. q \in Live
    BY CoveredIsLive
  <2>5. SharesKey(slots[q].doc, slots[p].doc, w.paths) /\ slots[q].rid # slots[p].rid
    BY <2>1, <2>3 DEF SharesKey
  <2> QED BY <2>4, <2>5, <1>1, <1>2 DEF HasDuplicates
<1>4. Collection' = b
  <2> HIDE DEF b, w
  <2>1. Collection' = [Collection EXCEPT !.idx[w.name] = [paths |-> NoEntry.paths, unique |-> NoEntry.unique]]
    BY <1>1, <1>2, RedefineInCollection
  <2>2. [paths |-> NoEntry.paths, unique |-> NoEntry.unique] = NoIndex
    BY DEF NoEntry, NoIndex
  <2>3. /\ b = [docs |-> b.docs, end |-> b.end, next |-> b.next, idx |-> b.idx]
        /\ b.idx \in [IndexNames -> IndexDefs \cup {NoIndex}]
    BY <1>1 DEF IsMemory
  <2>4. Collection.idx = [b.idx EXCEPT ![w.name] = [paths |-> w.paths, unique |-> w.unique]]
    BY <2>3, <1>1
  <2>5. [Collection.idx EXCEPT ![w.name] = NoIndex] = b.idx
    BY <2>3, <2>4, <1>1
  <2> QED BY <2>1, <2>2, <2>3, <2>5, <1>1
<1>5. PICK oid \in Oids : TRUE
  BY StoreAssumption
<1>6. Exec(b, w, oid) = [mem |-> b, err |-> DuplicateKey]
  <2>1. Exec(b, w, oid) = CreateIndex(b, w.name, w.paths, w.unique)
    BY <1>1 DEF Exec, CallOK
  <2> QED BY <2>1, <1>1, <1>2, <1>3 DEF CreateIndex
<1>7. indexes'[IdIndexName] # NoEntry
  BY <1>1, <1>2, IndexAssumption DEF TypeOK, Indexes
<1>8. StoreInv'
  BY <1>1, FillRefusedKeeps
<1>9. DuplicateKey \in Nat
  BY DEF DuplicateKey
<1> HIDE DEF b, w
<1> QED BY <1>1, <1>2, <1>4, <1>6, <1>7, <1>8, <1>9, FinishIsRight DEF b, w

(* An index that is filled has no two documents to tell apart. *)
LEMMA FillEndsIsRight == CallInv /\ FillEnds => CallInv'
<1> SUFFICES ASSUME CallInv, FillEnds PROVE CallInv'
  OBVIOUS
<1> DEFINE b == call.before
           w == call.req
<1>0. Filling /\ Unfilled = {} /\ Finish(0) /\ UNCHANGED <<slots, nextRid, indexes>>
  BY DEF FillEnds
<1>1. /\ StoreInv /\ TypeOK /\ CallOK /\ call.op = "createIndex" /\ call.done = FALSE
      /\ IsMemory(b) /\ indexes[IdIndexName] # NoEntry
      /\ w.name \in IndexNames /\ w.paths # <<>> /\ b.idx[w.name] = NoIndex
      /\ Collection = [b EXCEPT !.idx[w.name] = [paths |-> w.paths, unique |-> w.unique]]
      /\ indexes[w.name].paths = w.paths /\ indexes[w.name].unique = w.unique
      /\ DOMAIN b.docs = Live
      /\ \A q \in Live : b.docs[q].rid = slots[q].rid /\ b.docs[q].doc = slots[q].doc
  BY <1>0, FillView
<1>2. Covered(w.name) = Live
  BY <1>0 DEF Covered
<1>3. ~(w.unique /\ HasDuplicates(b, w.paths))
  <2> SUFFICES ASSUME w.unique, NEW i \in Live, NEW j \in Live, slots[i].rid # slots[j].rid,
                      SharesKey(slots[i].doc, slots[j].doc, w.paths)
               PROVE  FALSE
    BY <1>1 DEF HasDuplicates
  <2>1. i # j
    OBVIOUS
  <2> QED BY <2>1, <1>1, <1>2 DEF StoreInv, UniqueIsUnique
<1>4. PICK oid \in Oids : TRUE
  BY StoreAssumption
<1>5. Exec(b, w, oid) = [mem |-> Collection, err |-> 0]
  <2>1. Exec(b, w, oid) = CreateIndex(b, w.name, w.paths, w.unique)
    BY <1>1 DEF Exec, CallOK
  <2> QED BY <2>1, <1>1, <1>3 DEF CreateIndex
<1>6. Collection' = Collection
  BY <1>0 DEF Collection, Live
<1>7. StoreInv'
  BY <1>1, FillEndsKeeps DEF FillEnds
<1> HIDE DEF b, w
<1> QED BY <1>0, <1>1, <1>5, <1>6, <1>7, FinishIsRight DEF b, w

LEMMA DropOneIsRight == CallInv /\ DropOne => CallInv'
<1> SUFFICES ASSUME CallInv, DropOne PROVE CallInv'
  OBVIOUS
<1> DEFINE b == call.before
           name == call.req.name
<1>0. Running("dropIndex")
  BY DEF DropOne
<1>1. /\ StoreInv /\ TypeOK /\ CallOK /\ call.op = "dropIndex" /\ call.done = FALSE
      /\ IsMemory(b) /\ CallSoFar /\ indexes[IdIndexName] # NoEntry
  BY <1>0, InProgress
<1>2. name \in IndexNames
  BY <1>1, RequestParts
<1>3. Collection = b
  BY <1>1 DEF CallSoFar, IndexSoFar
<1>4. PICK oid \in Oids : TRUE
  BY StoreAssumption
<1>5. Exec(b, call.req, oid) = DropIndex(b, name)
  BY <1>1 DEF Exec, CallOK
<1>6. StoreInv'
  BY <1>1, DropOneKeeps
<1>7. CASE name = IdIndexName
  <2>1. Finish(CannotDropIdIndex) /\ UNCHANGED <<slots, nextRid, indexes>> /\ CannotDropIdIndex \in Nat
    BY <1>7 DEF DropOne, CannotDropIdIndex
  <2>2. Collection' = Collection
    BY <2>1 DEF Collection, Live
  <2>3. DropIndex(b, name) = [mem |-> Collection', err |-> CannotDropIdIndex]
    BY <2>2, <1>3, <1>7 DEF DropIndex
  <2> HIDE DEF b, name
  <2> QED BY <2>1, <2>3, <1>1, <1>5, <1>6, FinishIsRight DEF b
<1>8. CASE name # IdIndexName
  <2>1. Finish(0) /\ indexes' = [indexes EXCEPT ![name] = NoEntry] /\ UNCHANGED <<slots, nextRid>>
    BY <1>8 DEF DropOne
  <2>2. indexes'[IdIndexName] # NoEntry
    BY <2>1, <1>1, <1>8, IndexAssumption DEF TypeOK, Indexes
  <2>3. Collection' = [b EXCEPT !.idx[name] = [paths |-> NoEntry.paths, unique |-> NoEntry.unique]]
    BY <2>1, <1>1, <1>2, <1>3, RedefineInCollection
  <2>4. [paths |-> NoEntry.paths, unique |-> NoEntry.unique] = NoIndex
    BY DEF NoEntry, NoIndex
  <2>5. DropIndex(b, name) = [mem |-> Collection', err |-> 0]
    BY <2>3, <2>4, <1>8 DEF DropIndex
  <2> HIDE DEF b, name
  <2> QED BY <2>1, <2>2, <2>5, <1>1, <1>5, <1>6, FinishIsRight DEF b
<1> QED BY <1>7, <1>8

-----------------------------------------------------------------------------
(* The specification.                                                       *)

(* A call that begins finds a collection, and is at its first position. *)
LEMMA BeginIsRight == \A w \in Calls : CallInv /\ Begin(w) => CallInv'
<1> SUFFICES ASSUME NEW w \in Calls, CallInv, Begin(w) PROVE CallInv'
  OBVIOUS
<1>1. w \in Requests /\ call' = Start(w) /\ UNCHANGED <<slots, nextRid, indexes>>
  BY StoreAssumption DEF Begin
<1>2. StoreInv /\ TypeOK /\ indexes[IdIndexName] # NoEntry
  BY DEF CallInv, StoreInv
<1>3. IsMemory(Collection)
  BY <1>2, CollectionIsMemory
<1>4. Collection' = Collection
  BY <1>1 DEF Collection, Live
<1>5. /\ call'.op = w.op /\ call'.req = w /\ call'.at = 1 /\ call'.hit = FALSE
      /\ call'.done = FALSE /\ call'.before = Collection
      /\ call'.end = IF w.op = "insert" THEN Len(w.docs) ELSE Len(slots)
  BY <1>1 DEF Start
<1>6. Collection.end = Len(slots) /\ Len(slots) \in Nat
  BY <1>2 DEF Collection, TypeOK
<1> DEFINE m == Collection
<1>7. ASSUME w.op = "insert" PROVE InsertSoFar'
  <2>1. w.docs \in Seq(Docs) /\ Len(w.docs) \in Nat
    BY <1>1, <1>7 DEF Requests
  <2>2. SubSeq(w.docs, 1, 0) = <<>>
    BY <2>1
  <2>3. Collection = Grow(m, m.next, SubSeq(w.docs, 1, 0))
    BY <2>2, <1>3, GrowNothing
  <2>4. 1 .. 1 - 1 = {} /\ 1 - 1 = 0
    OBVIOUS
  <2> HIDE DEF m
  <2>5. /\ 1 <= call'.end + 1
        /\ Collection' = Grow(call'.before, call'.before.next, SubSeq(w.docs, 1, 1 - 1))
    BY <2>1, <2>3, <2>4, <1>4, <1>5, <1>7 DEF m
  <2> QED BY <2>4, <2>5, <1>5 DEF InsertSoFar
<1>8. ASSUME w.op = "update" PROVE UpdateSoFar'
  <2> DEFINE targets == Targets(m, w.filter, w.multi)
  <2>1. targets \subseteq Nat \ {0}
    BY <1>3 DEF Targets, IsMemory
  <2>2. \A p \in UpdateStops(m, targets, w.spec) : 1 <= p
    BY <2>1 DEF UpdateStops
  <2>3. \A p \in targets : ~(p < 1)
    BY <2>1
  <2> HIDE DEF m, targets
  <2>4. UpdatedBelow(m, targets, w.spec, 1) = m
    <3>1. IsMemory(m)
      BY <1>3 DEF m
    <3>2. /\ m = [docs |-> m.docs, end |-> m.end, next |-> m.next, idx |-> m.idx]
          /\ m.docs = [i \in DOMAIN m.docs |-> m.docs[i]]
      BY <3>1 DEF IsMemory
    <3> DEFINE docs == [i \in DOMAIN m.docs |->
                         IF i \in targets /\ i < 1
                         THEN [rid |-> m.docs[i].rid, doc |-> UpdateAt(m, w.spec, i).doc]
                         ELSE m.docs[i]]
    <3>3. docs = m.docs
      BY <2>3, <3>2
    <3>4. UpdatedBelow(m, targets, w.spec, 1) = [m EXCEPT !.docs = docs]
      BY DEF UpdatedBelow
    <3> HIDE DEF docs
    <3> QED BY <3>2, <3>3, <3>4
  <2>5. /\ call'.end = m.end /\ 1 <= call'.end + 1
        /\ Collection' = UpdatedBelow(m, targets, w.spec, 1)
    BY <2>4, <1>4, <1>5, <1>6, <1>8 DEF m
  <2> QED BY <2>2, <2>5, <1>5 DEF UpdateSoFar, targets, m
<1>9. ASSUME w.op = "erase" PROVE EraseSoFar'
  <2> DEFINE gone == Targets(m, w.filter, ~w.single)
  <2>1. gone \subseteq Nat \ {0}
    BY <1>3 DEF Targets, IsMemory
  <2>2. {q \in gone : q < 1} = {}
    BY <2>1
  <2> HIDE DEF m, gone
  <2>3. ErasedBelow(m, gone, 1) = m
    <3>1. IsMemory(m)
      BY <1>3 DEF m
    <3>2. /\ m = [docs |-> m.docs, end |-> m.end, next |-> m.next, idx |-> m.idx]
          /\ m.docs = [i \in DOMAIN m.docs |-> m.docs[i]]
      BY <3>1 DEF IsMemory
    <3> QED BY <2>2, <3>2 DEF ErasedBelow
  <2>4. call'.end = m.end /\ Collection' = ErasedBelow(m, gone, 1)
    BY <2>3, <1>4, <1>5, <1>6, <1>9 DEF m
  <2> QED BY <2>4, <1>5 DEF EraseSoFar, gone, m
<1>10. IndexSoFar'
  BY <1>4, <1>5 DEF IndexSoFar
<1>11. CallSoFar'
  BY <1>5, <1>7, <1>8, <1>9, <1>10 DEF CallSoFar
<1>12. StoreInv'
  BY <1>2, BeginKeeps
<1> QED BY <1>1, <1>2, <1>3, <1>5, <1>11, <1>12 DEF CallInv

(* A call that returns leaves the collection as it is. *)
LEMMA ReturnIsRight == CallInv /\ Return => CallInv'
<1> SUFFICES ASSUME CallInv, Return PROVE CallInv'
  OBVIOUS
<1>1. StoreInv'
  BY ReturnKeeps DEF CallInv
<1> QED BY <1>1 DEF CallInv, Return

(* Cursors read and change nothing. *)
LEMMA CursorsAreRight ==
  ASSUME CallInv, UNCHANGED <<slots, nextRid, indexes, call>>
  PROVE  CallInv'
<1>1. StoreInv'
  BY CursorsKeep DEF CallInv
<1>2. Collection' = Collection
  BY DEF Collection, Live
<1>3. CallMatchesCollection' = CallMatchesCollection
  BY <1>2 DEF CallMatchesCollection
<1>4. CallSoFar' = CallSoFar
  BY <1>2 DEF CallSoFar, InsertSoFar, UpdateSoFar, EraseSoFar, IndexSoFar
<1> QED BY <1>1, <1>3, <1>4 DEF CallInv

LEMMA InitIsRight == Init => CallInv
<1> SUFFICES ASSUME Init PROVE CallInv
  OBVIOUS
<1>1. indexes[IdIndexName].paths = IdPaths
  BY IndexAssumption DEF Init, NoEntry
<1>2. indexes[IdIndexName] # NoEntry
  BY <1>1, IndexAssumption DEF NoEntry
<1> QED BY <1>2, InitInv DEF CallInv, Init

LEMMA NextIsRight == CallInv /\ [Next]_vars => CallInv'
<1> SUFFICES ASSUME CallInv, [Next]_vars PROVE CallInv'
  OBVIOUS
<1>1. ASSUME NEW w \in Calls, Begin(w) PROVE CallInv'
  BY <1>1, BeginIsRight
<1>2. CASE InsertOne \/ InsertRefused \/ InsertEnds
  BY <1>2, InsertOneIsRight, InsertRefusedIsRight, InsertEndsIsRight
<1>3. CASE UpdateEnds \/ EraseEnds
  BY <1>3, UpdateEndsIsRight, EraseEndsIsRight
<1>4. ASSUME NEW p \in DOMAIN slots, UpdateOne(p) \/ UpdateRefused(p) \/ EraseOne(p) PROVE CallInv'
  BY <1>4, UpdateOneIsRight, UpdateRefusedIsRight, EraseOneIsRight
<1>5. ASSUME NEW oid \in Oids, Upsert(oid) PROVE CallInv'
  BY <1>5, UpsertIsRight
<1>6. CASE RegisterIndex \/ FillEnds \/ DropOne
  BY <1>6, RegisterIndexIsRight, FillEndsIsRight, DropOneIsRight
<1>7. ASSUME NEW p \in DOMAIN slots, FillOne(p) \/ FillRefused(p) PROVE CallInv'
  BY <1>7, FillOneIsRight, FillRefusedIsRight
<1>8. CASE Return
  BY <1>8, ReturnIsRight
<1>9. ASSUME NEW c \in Cursors, (\E q \in Queries : OpenCursor(c, q)) \/ Fetch(c) \/ CloseCursor(c)
      PROVE  CallInv'
  <2>1. UNCHANGED <<slots, nextRid, indexes, call>>
    BY <1>9 DEF OpenCursor, Fetch, CloseCursor
  <2> QED BY <2>1, CursorsAreRight
<1>10. CASE UNCHANGED vars
  BY <1>10, CursorsAreRight DEF vars
<1> QED BY <1>1, <1>2, <1>3, <1>4, <1>5, <1>6, <1>7, <1>8, <1>9, <1>10 DEF Next

(* The loops are right at every position. *)
THEOREM CallInvariantHolds == Spec => []CallInv
BY InitIsRight, NextIsRight, PTL DEF Spec

(* Every call of every size, done against the slots and the indexes one      *)
(* document at a time, has the outcome MemoryCollection gives it: the same    *)
(* documents, the same index definitions, the same error.                     *)
THEOREM CallsMatchCollection == Spec => []CallMatchesCollection
<1>1. CallInv => CallMatchesCollection
  <2> SUFFICES ASSUME CallInv, call # NoCall, call.done PROVE CallMatchesCollection
    BY DEF CallMatchesCollection
  <2> QED BY DEF CallInv
<1> QED BY <1>1, CallInvariantHolds, PTL

-----------------------------------------------------------------------------
(* A call takes effect in its last step.                                    *)

(* No pass of a loop forgets which call it belongs to. *)
LEMMA LoopKeepsCall ==
  ASSUME CallInv,
         \/ InsertOne \/ InsertRefused \/ InsertEnds \/ UpdateEnds \/ EraseEnds
         \/ RegisterIndex \/ FillEnds \/ DropOne
         \/ \E oid \in Oids : Upsert(oid)
         \/ \E p \in DOMAIN slots : UpdateOne(p) \/ UpdateRefused(p) \/ EraseOne(p)
         \/ \E p \in DOMAIN slots : FillOne(p) \/ FillRefused(p)
  PROVE  /\ CallOK /\ call.done = FALSE
         /\ call'.op = call.op /\ call'.req = call.req /\ call'.before = call.before
         /\ call'.done \in BOOLEAN
<1>1. \E op \in {"insert", "update", "erase", "createIndex", "dropIndex"} : Running(op)
  BY DEF InsertOne, InsertRefused, InsertEnds, UpdateEnds, EraseEnds, RegisterIndex, FillEnds,
         DropOne, Upsert, UpdateOne, UpdateRefused, EraseOne, FillOne, FillRefused, Filling
<1>2. CallOK /\ call.done = FALSE
  BY <1>1, InProgress
<1>3. ASSUME NEW err, Finish(err)
      PROVE  /\ call'.op = call.op /\ call'.req = call.req /\ call'.before = call.before
             /\ call'.done \in BOOLEAN
  BY <1>2, <1>3 DEF Finish, CallOK
<1>4. ASSUME NEW at, NEW hit, call' = [call EXCEPT !.at = at, !.hit = hit]
      PROVE  /\ call'.op = call.op /\ call'.req = call.req /\ call'.before = call.before
             /\ call'.done \in BOOLEAN
  BY <1>2, <1>4 DEF CallOK
<1>5. \/ \E err : Finish(err)
      \/ \E at, hit : call' = [call EXCEPT !.at = at, !.hit = hit]
  <2>1. CASE InsertOne
    <3>1. [call EXCEPT !.at = @ + 1] = [call EXCEPT !.at = call.at + 1, !.hit = call.hit]
      BY <1>2 DEF CallOK
    <3> QED BY <2>1, <3>1 DEF InsertOne
  <2>2. CASE InsertRefused \/ InsertEnds \/ UpdateEnds \/ EraseEnds \/ FillEnds \/ DropOne
    BY <2>2 DEF InsertRefused, InsertEnds, UpdateEnds, EraseEnds, FillEnds, DropOne
  <2>3. CASE RegisterIndex
    <3>1. [call EXCEPT !.hit = TRUE] = [call EXCEPT !.at = call.at, !.hit = TRUE]
      BY <1>2 DEF CallOK
    <3> QED BY <2>3, <3>1 DEF RegisterIndex
  <2>4. ASSUME NEW oid \in Oids, Upsert(oid) PROVE \E err : Finish(err)
    BY <2>4 DEF Upsert
  <2>5. ASSUME NEW p \in DOMAIN slots, UpdateOne(p)
        PROVE  \E at, hit : call' = [call EXCEPT !.at = at, !.hit = hit]
    BY <2>5 DEF UpdateOne
  <2>6. ASSUME NEW p \in DOMAIN slots, EraseOne(p)
        PROVE  \E at, hit : call' = [call EXCEPT !.at = at, !.hit = hit]
    <3>1. [call EXCEPT !.at = Past(p, call.req.single)]
            = [call EXCEPT !.at = Past(p, call.req.single), !.hit = call.hit]
      BY <1>2 DEF CallOK
    <3> QED BY <2>6, <3>1 DEF EraseOne
  <2>7. ASSUME NEW p \in DOMAIN slots, FillOne(p)
        PROVE  \E at, hit : call' = [call EXCEPT !.at = at, !.hit = hit]
    <3>1. [call EXCEPT !.at = p + 1] = [call EXCEPT !.at = p + 1, !.hit = call.hit]
      BY <1>2 DEF CallOK
    <3> QED BY <2>7, <3>1 DEF FillOne
  <2>8. ASSUME NEW p \in DOMAIN slots, UpdateRefused(p) \/ FillRefused(p) PROVE \E err : Finish(err)
    BY <2>8 DEF UpdateRefused, FillRefused
  <2> QED BY <2>1, <2>2, <2>3, <2>4, <2>5, <2>6, <2>7, <2>8
<1> QED BY <1>2, <1>3, <1>4, <1>5

(* A pass of a loop is no step of the atomic collection, or the whole call. *)
LEMMA LoopIsAtomic ==
  ASSUME CallInv, CallInv', CallOK, call.done = FALSE,
         call'.op = call.op, call'.req = call.req, call'.before = call.before,
         call'.done \in BOOLEAN
  PROVE  [Atomic!Next]_(Atomic!vars)
<1>1. call # NoCall /\ call.req \in Calls
  BY SomeCall DEF CallOK
<1>2. call' # NoCall
  <2>1. call.op = call.req.op /\ call.req \in Requests
    BY StoreAssumption DEF CallOK
  <2>2. call.op # "none"
    BY <2>1 DEF Requests
  <2> QED BY <2>2 DEF NoCall
<1>3. CASE call'.done = FALSE
  BY <1>1, <1>2, <1>3 DEF Atomic!vars
<1>4. CASE call'.done = TRUE
  <2>1. CallMatchesCollection'
    BY <1>2, <1>4 DEF CallInv
  <2>2. PICK oid \in Oids :
          [mem |-> Collection', err |-> call'.err] = Exec(call.before, call.req, oid)
    BY <1>2, <1>4, <2>1 DEF CallMatchesCollection
  <2> DEFINE o == Exec(call.before, call.req, oid)
  <2>3. o \in Outcomes(call.before, call.req) /\ o.mem = Collection' /\ o.err = call'.err
    <3>1. o \in Outcomes(call.before, call.req)
      BY DEF Outcomes
    <3> HIDE DEF o
    <3> QED BY <2>2, <3>1 DEF o
  <2> HIDE DEF o
  <2>4. Atomic!Take(call.req)
    BY <1>1, <1>2, <1>4, <2>3 DEF Atomic!Take, Atomic!NoAnswer
  <2> QED BY <1>1, <2>4 DEF Atomic!Next
<1> QED BY <1>3, <1>4

(* What changes neither slots, indexes nor calls changes no value. *)
LEMMA IdleIsAtomic ==
  ASSUME UNCHANGED <<slots, nextRid, indexes, call>>
  PROVE  UNCHANGED Atomic!vars
<1>1. Collection' = Collection
  BY DEF Collection, Live
<1> QED BY <1>1 DEF Atomic!vars

LEMMA BeginIsAtomic ==
  ASSUME CallInv, CallInv', NEW w \in Calls, Begin(w)
  PROVE  UNCHANGED Atomic!vars
<1>1. Collection' = Collection
  BY DEF Begin, Collection, Live
<1>2. call = NoCall /\ call'.before = Collection /\ call'.done = FALSE /\ call'.op = w.op
  BY DEF Begin, Start
<1>3. call' # NoCall
  <2>1. w.op # "none"
    BY StoreAssumption DEF Requests
  <2> QED BY <1>2, <2>1 DEF NoCall
<1> QED BY <1>1, <1>2, <1>3 DEF Atomic!vars

LEMMA ReturnIsAtomic ==
  ASSUME CallInv, Return
  PROVE  Atomic!Deliver
<1>1. Collection' = Collection
  BY DEF Return, Collection, Live
<1>2. call # NoCall /\ call.done /\ call' = NoCall
  BY DEF Return
<1>3. [req |-> call.req, err |-> call.err] # [err |-> "none"]
  OBVIOUS
<1> QED BY <1>1, <1>2, <1>3 DEF Atomic!Deliver, Atomic!NoAnswer

LEMMA InitIsAtomic == Init => Atomic!Init
<1> SUFFICES ASSUME Init PROVE Atomic!Init
  OBVIOUS
<1>1. Live = {} /\ Len(slots) = 0
  BY DEF Init, Live
<1>2. [p \in Live |-> [rid |-> slots[p].rid, doc |-> slots[p].doc]] = [i \in {} |-> i]
  BY <1>1
<1>3. [n \in IndexNames |-> [paths |-> indexes[n].paths, unique |-> indexes[n].unique]]
        = [n \in IndexNames |-> IF n = IdIndexName THEN IdIndex ELSE NoIndex]
  BY IndexAssumption DEF Init, NoEntry, IdIndex, NoIndex
<1>4. Collection = Fresh
  BY <1>1, <1>2, <1>3 DEF Collection, Fresh, Init, FirstRid
<1> QED BY <1>4 DEF Init, Atomic!Init, Atomic!NoAnswer

(* Every call, of every size and however it fails, is one step of a          *)
(* collection without loops, slots or index keys, and nothing else changes   *)
(* its value: the loops of memory.cpp implement AtomicCollection.            *)
THEOREM CallsTakeEffectAtOnce == Spec => CallsAreAtomic
<1>1. ASSUME CallInv, CallInv', [Next]_vars
      PROVE  [Atomic!Next]_(Atomic!vars)
  <2>1. ASSUME NEW w \in Calls, Begin(w) PROVE UNCHANGED Atomic!vars
    BY <1>1, <2>1, BeginIsAtomic
  <2>2. CASE \/ InsertOne \/ InsertRefused \/ InsertEnds \/ UpdateEnds \/ EraseEnds
             \/ RegisterIndex \/ FillEnds \/ DropOne
             \/ \E oid \in Oids : Upsert(oid)
             \/ \E p \in DOMAIN slots : UpdateOne(p) \/ UpdateRefused(p) \/ EraseOne(p)
             \/ \E p \in DOMAIN slots : FillOne(p) \/ FillRefused(p)
    <3>1. /\ CallOK /\ call.done = FALSE
          /\ call'.op = call.op /\ call'.req = call.req /\ call'.before = call.before
          /\ call'.done \in BOOLEAN
      BY <1>1, <2>2, LoopKeepsCall
    <3> QED BY <1>1, <3>1, LoopIsAtomic
  <2>3. CASE Return
    BY <1>1, <2>3, ReturnIsAtomic DEF Atomic!Next
  <2>4. CASE \/ \E c \in Cursors, q \in Queries : OpenCursor(c, q)
             \/ \E c \in Cursors : Fetch(c) \/ CloseCursor(c)
             \/ UNCHANGED vars
    <3>1. UNCHANGED <<slots, nextRid, indexes, call>>
      BY <2>4 DEF OpenCursor, Fetch, CloseCursor, vars
    <3> QED BY <3>1, IdleIsAtomic
  <2> QED BY <1>1, <2>1, <2>2, <2>3, <2>4 DEF Next
<1> QED BY <1>1, InitIsAtomic, CallInvariantHolds, PTL DEF Spec, CallsAreAtomic, Atomic!Spec
=============================================================================
