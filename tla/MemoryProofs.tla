---------------------------- MODULE MemoryProofs ----------------------------
(***************************************************************************)
(* Every operation of MemoryCollection takes a collection to a collection. *)
(***************************************************************************)
EXTENDS MemoryCollection, ListProofs

(* The parts a collection is put together from. *)
LEMMA MakeMemory ==
  ASSUME NEW docs, NEW end \in Nat, NEW next \in Nat, NEW idx,
         docs \in [DOMAIN docs -> Entries], DOMAIN docs \subseteq 1 .. end,
         idx \in [IndexNames -> IndexDefs \cup {NoIndex}], idx[IdIndexName] # NoIndex
  PROVE  IsMemory([docs |-> docs, end |-> end, next |-> next, idx |-> idx])
<1> DEFINE m == [docs |-> docs, end |-> end, next |-> next, idx |-> idx]
<1>1. m.docs = docs /\ m.end = end /\ m.next = next /\ m.idx = idx
  OBVIOUS
<1>2. m = [docs |-> m.docs, end |-> m.end, next |-> m.next, idx |-> m.idx]
  BY <1>1
<1> HIDE DEF m
<1>3. IsMemory(m)
  BY <1>1, <1>2 DEF IsMemory
<1> QED BY <1>3 DEF m

(* What clear_for_reload leaves is a collection. *)
LEMMA FreshIsMemory == IsMemory(Fresh)
<1>1. [n \in IndexNames |-> IF n = IdIndexName THEN IdIndex ELSE NoIndex]
        \in [IndexNames -> IndexDefs \cup {NoIndex}]
  BY IndexAssumption DEF IndexDefs, IdIndex
<1>2. IdIndex # NoIndex
  BY DEF IdIndex, NoIndex, IdPaths
<1> QED
  BY <1>1, <1>2, MakeMemory, IndexAssumption DEF Fresh

(* Documents appended under record ids from first on leave a collection. *)
LEMMA GrowIsMemory ==
  ASSUME NEW m, IsMemory(m), NEW first \in Nat, NEW batch \in Seq(Docs)
  PROVE  IsMemory(Grow(m, first, batch))
<1> DEFINE D == DOMAIN m.docs \cup (m.end + 1 .. m.end + Len(batch))
           entry(i) == IF i <= m.end THEN m.docs[i]
                       ELSE [rid |-> first + (i - m.end - 1), doc |-> batch[i - m.end]]
           docs == [i \in D |-> entry(i)]
           next == IF first + Len(batch) > m.next /\ batch # <<>>
                   THEN first + Len(batch) ELSE m.next
<1>1. Len(batch) \in Nat /\ \A j \in 1 .. Len(batch) : batch[j] \in Docs
  OBVIOUS
<1>2. D \subseteq 1 .. m.end + Len(batch)
  BY <1>1 DEF IsMemory
<1>3. ASSUME NEW i \in D PROVE entry(i) \in Entries
  <2>1. CASE i <= m.end
    BY <2>1, <1>1 DEF IsMemory
  <2>2. CASE ~(i <= m.end)
    <3>1. i - m.end \in 1 .. Len(batch) /\ first + (i - m.end - 1) \in Nat
      BY <2>2, <1>1 DEF IsMemory
    <3> QED BY <2>2, <3>1, <1>1 DEF Entries
  <2> QED BY <2>1, <2>2
<1>4. docs \in [DOMAIN docs -> Entries] /\ DOMAIN docs = D
  BY <1>3
<1>5. m.end + Len(batch) \in Nat /\ next \in Nat
  BY <1>1 DEF IsMemory
<1>6. m.idx \in [IndexNames -> IndexDefs \cup {NoIndex}] /\ m.idx[IdIndexName] # NoIndex
  BY DEF IsMemory
<1>7. Grow(m, first, batch)
        = [docs |-> docs, end |-> m.end + Len(batch), next |-> next, idx |-> m.idx]
  BY DEF Grow
<1> HIDE DEF docs, next, D
<1> QED
  BY <1>2, <1>4, <1>5, <1>6, <1>7, MakeMemory

(* The collection in the middle of an update. *)
LEMMA UpdatedBelowIsMemory ==
  ASSUME NEW m, IsMemory(m), NEW targets, NEW spec \in Specs, NEW p \in Nat
  PROVE  IsMemory(UpdatedBelow(m, targets, spec, p))
<1> DEFINE entry(i) == IF i \in targets /\ i < p
                       THEN [rid |-> m.docs[i].rid, doc |-> UpdateAt(m, spec, i).doc]
                       ELSE m.docs[i]
           docs == [i \in DOMAIN m.docs |-> entry(i)]
<1>1. ASSUME NEW i \in DOMAIN m.docs PROVE entry(i) \in Entries
  <2>1. m.docs[i] \in Entries
    BY DEF IsMemory
  <2>2. m.docs[i].rid \in Nat /\ UpdateAt(m, spec, i).doc \in Docs
    BY <2>1, QueryAssumption DEF Entries, UpdateAt
  <2> QED BY <2>1, <2>2 DEF Entries
<1>2. docs \in [DOMAIN docs -> Entries] /\ DOMAIN docs = DOMAIN m.docs
  BY <1>1
<1>3. /\ m = [docs |-> m.docs, end |-> m.end, next |-> m.next, idx |-> m.idx]
      /\ m.end \in Nat /\ m.next \in Nat /\ DOMAIN m.docs \subseteq 1 .. m.end
      /\ m.idx \in [IndexNames -> IndexDefs \cup {NoIndex}] /\ m.idx[IdIndexName] # NoIndex
  BY DEF IsMemory
<1>4. UpdatedBelow(m, targets, spec, p)
        = [docs |-> docs, end |-> m.end, next |-> m.next, idx |-> m.idx]
  BY <1>3 DEF UpdatedBelow
<1> HIDE DEF docs
<1> QED
  BY <1>2, <1>3, <1>4, MakeMemory

(* insert leaves a collection, whether the batch is stored or stopped. *)
LEMMA InsertIsMemory ==
  ASSUME NEW m, IsMemory(m), NEW batch \in Seq(Docs)
  PROVE  IsMemory(Insert(m, batch).mem)
<1> DEFINE clashing == {j \in DOMAIN batch : InsertClashes(m, batch, j)}
<1>0. m.next \in Nat
  BY DEF IsMemory
<1>1. CASE clashing = {}
  <2>1. Insert(m, batch).mem = Grow(m, m.next, batch)
    BY <1>1 DEF Insert
  <2> QED BY <2>1, <1>0, GrowIsMemory
<1>2. CASE clashing # {}
  <2> DEFINE j == CHOOSE j \in clashing : \A k \in clashing : j <= k
  <2>1. clashing \subseteq 1 .. Len(batch) /\ clashing \subseteq Nat
    OBVIOUS
  <2>2. j \in clashing
    <3> HIDE DEF clashing
    <3> QED BY <2>1, <1>2, LeastNumber
  <2>3. SubSeq(batch, 1, j - 1) \in Seq(Docs)
    <3>1. j \in 1 .. Len(batch)
      BY <2>1, <2>2
    <3> HIDE DEF j
    <3>2. \A i \in 1 .. j - 1 : batch[i] \in Docs
      BY <3>1
    <3> QED BY <3>1, <3>2, SubSeqProperties
  <2>4. Insert(m, batch).mem = Grow(m, m.next, SubSeq(batch, 1, j - 1))
    BY <1>2 DEF Insert
  <2> QED BY <2>3, <2>4, <1>0, GrowIsMemory
<1> QED BY <1>1, <1>2

(* An upsert's seed is refused or stored. *)
LEMMA InsertSeedIsMemory ==
  ASSUME NEW m, IsMemory(m), NEW seed, seed.doc \in Docs
  PROVE  IsMemory(InsertSeed(m, seed).mem)
<1>1. m.next \in Nat /\ <<seed.doc>> \in Seq(Docs)
  BY DEF IsMemory
<1>2. IsMemory(Grow(m, m.next, <<seed.doc>>))
  BY <1>1, GrowIsMemory
<1>3. InsertSeed(m, seed).mem \in {m, Grow(m, m.next, <<seed.doc>>)}
  BY DEF InsertSeed
<1> QED BY <1>2, <1>3

(* update leaves a collection, also when it stops in the middle. *)
LEMMA UpdateIsMemory ==
  ASSUME NEW m, IsMemory(m), NEW filter \in Filters, NEW spec \in Specs,
         NEW multi, NEW upsert, NEW oid \in Oids
  PROVE  IsMemory(Update(m, filter, spec, multi, upsert, oid).mem)
<1> DEFINE targets == Targets(m, filter, multi)
           stops == UpdateStops(m, targets, spec)
           seed == SeedUpsert(filter, spec, oid)
<1>1. m.end \in Nat
  BY DEF IsMemory
<1>2. CASE targets = {} /\ upsert
  <2>1. seed.doc \in Docs
    BY QueryAssumption
  <2>2. Update(m, filter, spec, multi, upsert, oid).mem = InsertSeed(m, seed).mem
    BY <1>2 DEF Update
  <2> QED BY <2>1, <2>2, InsertSeedIsMemory
<1>3. CASE ~(targets = {} /\ upsert) /\ stops = {}
  <2>1. Update(m, filter, spec, multi, upsert, oid).mem
          = UpdatedBelow(m, targets, spec, m.end + 1)
    BY <1>3 DEF Update
  <2> QED BY <1>1, <2>1, UpdatedBelowIsMemory
<1>4. CASE ~(targets = {} /\ upsert) /\ stops # {}
  <2> DEFINE p == CHOOSE p \in stops : \A q \in stops : p <= q
  <2>1. stops \subseteq Nat
    BY DEF UpdateStops, Targets, IsMemory
  <2>2. p \in Nat
    <3> HIDE DEF stops
    <3> QED BY <2>1, <1>4, LeastNumber
  <2>3. Update(m, filter, spec, multi, upsert, oid).mem
          = UpdatedBelow(m, targets, spec, p)
    BY <1>4 DEF Update
  <2> QED BY <2>2, <2>3, UpdatedBelowIsMemory
<1> QED BY <1>2, <1>3, <1>4

(* erase leaves a collection: slots keep their numbers. *)
LEMMA EraseIsMemory ==
  ASSUME NEW m, IsMemory(m), NEW filter, NEW single
  PROVE  IsMemory(Erase(m, filter, single).mem)
<1> DEFINE gone == Targets(m, filter, ~single)
           docs == [i \in DOMAIN m.docs \ gone |-> m.docs[i]]
<1>1. /\ m = [docs |-> m.docs, end |-> m.end, next |-> m.next, idx |-> m.idx]
      /\ m.end \in Nat /\ m.next \in Nat /\ DOMAIN m.docs \subseteq 1 .. m.end
      /\ m.docs \in [DOMAIN m.docs -> Entries]
      /\ m.idx \in [IndexNames -> IndexDefs \cup {NoIndex}] /\ m.idx[IdIndexName] # NoIndex
  BY DEF IsMemory
<1>2. docs \in [DOMAIN docs -> Entries] /\ DOMAIN docs \subseteq 1 .. m.end
  BY <1>1
<1>3. Erase(m, filter, single).mem
        = [docs |-> docs, end |-> m.end, next |-> m.next, idx |-> m.idx]
  BY <1>1 DEF Erase
<1> HIDE DEF docs
<1> QED BY <1>1, <1>2, <1>3, MakeMemory

-----------------------------------------------------------------------------
(* A changed index map leaves a collection as long as the _id index stays. *)
LEMMA WithIndexIsMemory ==
  ASSUME NEW m, IsMemory(m), NEW name \in IndexNames, NEW def \in IndexDefs \cup {NoIndex},
         name = IdIndexName => def # NoIndex
  PROVE  IsMemory([m EXCEPT !.idx[name] = def])
<1> DEFINE idx == [m.idx EXCEPT ![name] = def]
<1>1. /\ m = [docs |-> m.docs, end |-> m.end, next |-> m.next, idx |-> m.idx]
      /\ m.end \in Nat /\ m.next \in Nat /\ DOMAIN m.docs \subseteq 1 .. m.end
      /\ m.docs \in [DOMAIN m.docs -> Entries]
      /\ m.idx \in [IndexNames -> IndexDefs \cup {NoIndex}] /\ m.idx[IdIndexName] # NoIndex
  BY DEF IsMemory
<1>2. idx \in [IndexNames -> IndexDefs \cup {NoIndex}] /\ idx[IdIndexName] # NoIndex
  BY <1>1, IndexAssumption
<1>3. [m EXCEPT !.idx[name] = def]
        = [docs |-> m.docs, end |-> m.end, next |-> m.next, idx |-> idx]
  BY <1>1
<1> HIDE DEF idx
<1> QED BY <1>1, <1>2, <1>3, MakeMemory

(* create_index and drop_index leave a collection. *)
LEMMA CreateIndexIsMemory ==
  ASSUME NEW m, IsMemory(m), NEW name \in IndexNames,
         NEW paths \in KeyPaths \cup {<<>>}, NEW unique \in BOOLEAN
  PROVE  IsMemory(CreateIndex(m, name, paths, unique).mem)
<1> DEFINE def == [paths |-> paths, unique |-> unique]
           made == [m EXCEPT !.idx[name] = def]
<1>1. CASE paths # <<>> /\ m.idx[name] = NoIndex
  <2>1. def \in IndexDefs /\ (name = IdIndexName => def # NoIndex)
    BY <1>1 DEF IndexDefs, IsMemory
  <2>2. IsMemory(made)
    BY <2>1, WithIndexIsMemory
  <2>3. CreateIndex(m, name, paths, unique).mem \in {m, made}
    BY DEF CreateIndex
  <2> QED BY <2>2, <2>3
<1>2. CASE ~(paths # <<>> /\ m.idx[name] = NoIndex)
  BY <1>2 DEF CreateIndex
<1> QED BY <1>1, <1>2

LEMMA DropIndexIsMemory ==
  ASSUME NEW m, IsMemory(m), NEW name \in IndexNames
  PROVE  IsMemory(DropIndex(m, name).mem)
<1>1. CASE name = IdIndexName
  BY <1>1 DEF DropIndex
<1>2. CASE name # IdIndexName
  <2>1. DropIndex(m, name).mem = [m EXCEPT !.idx[name] = NoIndex]
    BY <1>2 DEF DropIndex
  <2> QED BY <1>2, <2>1, WithIndexIsMemory
<1> QED BY <1>1, <1>2

(* Loading a snapshot leaves a collection, empty before or not. *)
LEMMA LoadSnapshotIsMemory ==
  ASSUME NEW m, IsMemory(m), NEW snap, IsMemory(snap)
  PROVE  IsMemory(LoadSnapshot(m, snap))
<1> DEFINE D == DOMAIN m.docs \cup {m.end + k : k \in DOMAIN snap.docs}
           entry(i) == IF i <= m.end THEN m.docs[i] ELSE snap.docs[i - m.end]
           docs == [i \in D |-> entry(i)]
           def(n) == IF m.idx[n] = NoIndex /\ snap.idx[n] # NoIndex
                     THEN [paths |-> snap.idx[n].paths, unique |-> FALSE]
                     ELSE m.idx[n]
           idx == [n \in IndexNames |-> def(n)]
<1>1. m.end \in Nat /\ snap.end \in Nat /\ snap.next \in Nat /\ m.end + snap.end \in Nat
  BY DEF IsMemory
<1>2. D \subseteq 1 .. m.end + snap.end
  BY <1>1 DEF IsMemory
<1>3. ASSUME NEW i \in D PROVE entry(i) \in Entries
  <2>1. CASE i <= m.end
    <3>1. i \in DOMAIN m.docs
      BY <2>1, <1>1 DEF IsMemory
    <3> QED BY <2>1, <3>1 DEF IsMemory
  <2>2. CASE ~(i <= m.end)
    <3>1. i - m.end \in DOMAIN snap.docs
      BY <2>2, <1>1 DEF IsMemory
    <3> QED BY <2>2, <3>1 DEF IsMemory
  <2> QED BY <2>1, <2>2
<1>4. docs \in [DOMAIN docs -> Entries] /\ DOMAIN docs = D
  BY <1>3
<1>5. ASSUME NEW n \in IndexNames PROVE def(n) \in IndexDefs \cup {NoIndex}
  <2>1. m.idx[n] \in IndexDefs \cup {NoIndex} /\ snap.idx[n] \in IndexDefs \cup {NoIndex}
    BY DEF IsMemory
  <2> QED BY <2>1 DEF IndexDefs
<1>6. idx \in [IndexNames -> IndexDefs \cup {NoIndex}] /\ idx[IdIndexName] # NoIndex
  BY <1>5, IndexAssumption DEF IsMemory
<1>7. LoadSnapshot(m, snap)
        = [docs |-> docs, end |-> m.end + snap.end, next |-> snap.next, idx |-> idx]
  BY DEF LoadSnapshot
<1> HIDE DEF D, docs, idx
<1> QED
  BY <1>1, <1>2, <1>4, <1>6, <1>7, MakeMemory
=============================================================================
