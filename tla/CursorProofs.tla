---------------------------- MODULE CursorProofs ----------------------------
(***************************************************************************)
(* For any readers, batch sizes, results and number of mishaps: readers of *)
(* CursorService get documents of their namespace only, and of their own   *)
(* result, once and in order; and the registry holds no forgotten cursor.  *)
(*                                                                         *)
(* What the invariant says of a reader is an operator on values: the       *)
(* engine e, the reader's cursor s, its calls c, what it got g, its        *)
(* mishaps m and the namespaces n of all readers.  Asking, serving and     *)
(* receiving are lemmas about these values; a call in the engine's own     *)
(* process is the three of them in one step.                               *)
(*                                                                         *)
(* The second invariant, ResultInv, builds on the first: where a reader's  *)
(* whole result is while it is read, and so that null comes at its end.    *)
(***************************************************************************)
EXTENDS CursorService, TLAPS

Cursors == [ns : Namespaces, batch : Nat, started : BOOLEAN, id : Ids,
            buffer : Seq(Documents), index : Nat]
Replies == [ok : BOOLEAN, docs : Seq(Documents), id : Ids]
CallRecords == [at : {"idle", "asked", "answered", "woken"}, for : {"none", "find", "getMore"},
                id : Ids, reply : Replies]

Entries(e, r) == {i \in DOMAIN e.open : e.open[i].iter.of = r}
Busy(call) == call.at \in {"asked", "answered"}
Names(s, c, i) == i = s.id \/ \E k \in Calls : i = c[k].id \/ i = c[k].reply.id

(* A cursor that was not started has nothing. *)
FreshInv(e, r, s, c, g) ==
  ~s.started =>
    /\ s.id = Exhausted /\ s.buffer = <<>> /\ g = <<>>
    /\ Entries(e, r) = {}
    /\ \A k \in Calls : c[k] = Idle

(* What the fields of a call in progress are. *)
CallsInv(c) ==
  \A k \in Calls :
    /\ c[k].at = "idle" => c[k] = Idle
    /\ c[k].at # "answered" => c[k].reply = Refusal
    /\ ~c[k].reply.ok => c[k].reply = Refusal
    /\ c[k].for = "none" => ~Busy(c[k])
    /\ c[k].id # Exhausted <=> Busy(c[k]) /\ c[k].for = "getMore"

(* While its find is under way a cursor does nothing else. *)
FindingInv(e, r, s, c, g) ==
  \A k \in Calls :
    Busy(c[k]) /\ c[k].for = "find" =>
      /\ s.id = Exhausted /\ s.buffer = <<>> /\ g = <<>>
      /\ \A l \in Calls : l # k => c[l] = Idle
      /\ c[k].at = "asked" => Entries(e, r) = {}

(* A reader has one entry at most and knows no id but the entry's. *)
EntryInv(e, r, s, c) ==
  \A i \in Entries(e, r) :
    /\ \A j \in Entries(e, r) : i = j
    /\ \A j \in Ids : Names(s, c, j) => j \in {Exhausted, i}
    /\ \A k \in Calls : c[k].at = "answered" /\ c[k].reply.ok => c[k].reply.id = i

HeldInv(e, r, s, c, m) ==
  \A i \in Entries(e, r) :
    \/ s.id = i
    \/ \E k \in Calls : c[k].at = "answered" /\ c[k].reply.id = i
    \/ "lost" \in m

Among(docs, n, r) == \A j \in DOMAIN docs : n[docs[j][1]] = n[r]

NamespaceInv(n, r, s, c, g) ==
  /\ s.ns = n[r]
  /\ Among(g, n, r) /\ Among(s.buffer, n, r)
  /\ \A k \in Calls : Among(c[k].reply.docs, n, r)

(* Until the engine is replaced the ids a reader knows are its own. *)
IdsInv(e, r, s, c) ==
  \A i \in Ids :
    Names(s, c, i) => i < e.nextId /\ (i \in DOMAIN e.open => i \in Entries(e, r))

Own(docs, e, r) ==
  \A j \in DOMAIN docs :
    docs[j][1] = r /\ \A i \in Entries(e, r) : docs[j][2] < e.open[i].iter.at
Ascending(docs) == \A i, j \in DOMAIN docs : i < j => docs[i][2] < docs[j][2]
Distinct(docs) == \A i, j \in DOMAIN docs : docs[i] = docs[j] => i = j
Apart(docs, more, from) ==
  \A i \in DOMAIN docs, j \in DOMAIN more : j > from => docs[i] # more[j]
Before(docs, more, from) ==
  \A i \in DOMAIN docs, j \in DOMAIN more : j > from => docs[i][2] < more[j][2]

(* The documents got, those of the buffer that are ahead, and those of the  *)
(* answers under way are the reader's own, each there once.                 *)
OnceInv(e, r, s, c, g) ==
  /\ Own(g, e, r) /\ Own(s.buffer, e, r)
  /\ Ascending(s.buffer)
  /\ Distinct(g) /\ Apart(g, s.buffer, s.index)
  /\ \A k \in Calls :
       /\ Own(c[k].reply.docs, e, r) /\ Ascending(c[k].reply.docs)
       /\ Apart(g, c[k].reply.docs, 0)
       /\ Apart(c[k].reply.docs, s.buffer, s.index)
       /\ \A l \in Calls : l # k => Apart(c[k].reply.docs, c[l].reply.docs, 0)

(* One call at a time finds the buffer empty while it asks. *)
AloneInv(s, c) ==
  \A k \in Calls :
    /\ Busy(c[k]) => s.buffer = <<>>
    /\ c[k].at # "idle" => \A l \in Calls : l # k => c[l] = Idle

OrderInv(s, c, g) ==
  /\ Ascending(g)
  /\ Before(g, s.buffer, s.index)
  /\ \A k \in Calls : Before(g, c[k].reply.docs, 0)

ReaderInv(n, e, r, s, c, g, m) ==
  /\ FreshInv(e, r, s, c, g)
  /\ CallsInv(c)
  /\ FindingInv(e, r, s, c, g)
  /\ EntryInv(e, r, s, c)
  /\ HeldInv(e, r, s, c, m)
  /\ NamespaceInv(n, r, s, c, g)
  /\ "replaced" \notin m => IdsInv(e, r, s, c) /\ OnceInv(e, r, s, c, g)
  /\ "overlap" \notin m => AloneInv(s, c)
  /\ {"replaced", "overlap"} \cap m = {} => OrderInv(s, c, g)

EngineInv(n, e) == \A i \in DOMAIN e.open : e.open[i].ns = n[e.open[i].iter.of]

NamespaceOf == [r \in Readers |-> sdk[r].ns]

(* The inductive invariant. *)
CursorInv ==
  /\ TypeOK
  /\ EngineInv(NamespaceOf, engine)
  /\ \A r \in Readers :
       /\ ReaderInv(NamespaceOf, engine, r, sdk[r], calls[r], got[r], mishaps[r])
       /\ state[r] = "unread" => ~sdk[r].started

-----------------------------------------------------------------------------
(* What the calls of the engine return.                                     *)

Iterators == [of : Readers, at : Nat \ {0}, end : Nat]

(* An iterator may have been read to its end, not further. *)
LEMMA BatchIs ==
  ASSUME NEW it \in Iterators, it.at <= it.end + 1, NEW batch \in Nat
  PROVE  LET docs == Batch(it, batch)
             rest == Drained(it, batch)
         IN  /\ docs \in Seq(Documents)
             /\ Ascending(docs)
             /\ \A j \in DOMAIN docs :
                  docs[j][1] = it.of /\ docs[j][2] >= it.at /\ docs[j][2] < rest.at
             /\ rest \in Iterators
             /\ rest.of = it.of /\ rest.at >= it.at /\ rest.at <= rest.end + 1
<1> DEFINE n == BatchLength(it, batch)
           docs == Batch(it, batch)
           rest == Drained(it, batch)
<1>1. n \in Nat /\ n <= it.end - it.at + 1
  BY DEF BatchLength, Least, Iterators
<1>2. docs = [i \in 1 .. n |-> <<it.of, it.at + i - 1>>]
  BY DEF Batch
<1>3. rest = [of |-> it.of, at |-> it.at + n, end |-> it.end]
  BY <1>1 DEF Drained, Iterators
<1> HIDE DEF n, docs, rest
<1>4. \A i \in 1 .. n : <<it.of, it.at + i - 1>> \in Documents
  BY <1>1 DEF Documents, Iterators
<1>5. docs \in Seq(Documents) /\ DOMAIN docs = 1 .. n
  BY <1>1, <1>2, <1>4
<1>6. Ascending(docs)
  BY <1>1, <1>2, <1>5 DEF Ascending, Iterators
<1>7. \A j \in DOMAIN docs :
        docs[j][1] = it.of /\ docs[j][2] >= it.at /\ docs[j][2] < rest.at
  BY <1>1, <1>2, <1>3, <1>5 DEF Iterators
<1>8. /\ rest \in Iterators
      /\ rest.of = it.of /\ rest.at >= it.at /\ rest.at <= rest.end + 1
  BY <1>1, <1>3 DEF Iterators
<1> QED BY <1>5, <1>6, <1>7, <1>8 DEF docs, rest

(* An engine after a step: an iterator stays what it is and only moves on;  *)
(* new entries belong to the readers R.                                     *)
EngineStep(e, f, R) ==
  /\ e.nextId <= f.nextId
  /\ \A i \in DOMAIN f.open :
       \/ /\ i \in DOMAIN e.open
          /\ f.open[i].iter.of = e.open[i].iter.of
          /\ f.open[i].ns = e.open[i].ns
          /\ f.open[i].iter.at >= e.open[i].iter.at
       \/ i >= e.nextId /\ f.open[i].iter.of \in R

(* What a request of reader r may do: from engine e to engine f. *)
AllAtOnce(e, f, r, reply) ==
  /\ f = e /\ reply.id = Exhausted
  /\ \A j \in DOMAIN reply.docs : reply.docs[j][1] = r

Opened(e, f, r, ns, reply) ==
  /\ reply.id = e.nextId /\ f.nextId = e.nextId + 1
  /\ DOMAIN f.open = DOMAIN e.open \cup {e.nextId}
  /\ \A i \in DOMAIN e.open : f.open[i] = e.open[i]
  /\ f.open[e.nextId].iter.of = r /\ f.open[e.nextId].ns = ns
  /\ \A j \in DOMAIN reply.docs :
       reply.docs[j][1] = r /\ reply.docs[j][2] < f.open[e.nextId].iter.at

Moved(e, f, id, reply) ==
  /\ reply.id = id /\ f.nextId = e.nextId
  /\ DOMAIN f.open = DOMAIN e.open
  /\ \A i \in DOMAIN e.open : i # id => f.open[i] = e.open[i]
  /\ f.open[id].ns = e.open[id].ns /\ f.open[id].iter.of = e.open[id].iter.of
  /\ f.open[id].iter.at >= e.open[id].iter.at
  /\ \A j \in DOMAIN reply.docs : reply.docs[j][2] < f.open[id].iter.at

Finished(e, f, id, reply) ==
  /\ reply.id = Exhausted /\ f.nextId = e.nextId
  /\ DOMAIN f.open = DOMAIN e.open \ {id}
  /\ \A i \in DOMAIN f.open : f.open[i] = e.open[i]

Continued(e, f, id, ns, reply) ==
  /\ id \in DOMAIN e.open /\ e.open[id].ns = ns
  /\ Moved(e, f, id, reply) \/ Finished(e, f, id, reply)
  /\ \A j \in DOMAIN reply.docs :
       /\ reply.docs[j][1] = e.open[id].iter.of
       /\ reply.docs[j][2] >= e.open[id].iter.at

Answer(e, f, r, ns, for, id, reply) ==
  /\ IsEngine(f) /\ reply \in Replies
  /\ \/ ~reply.ok /\ reply = Refusal /\ f = e
     \/ /\ reply.ok /\ Ascending(reply.docs)
        /\ \/ for = "find" /\ (AllAtOnce(e, f, r, reply) \/ Opened(e, f, r, ns, reply))
           \/ for = "getMore" /\ Continued(e, f, id, ns, reply)

(* Parts of an engine. *)
LEMMA EngineParts ==
  ASSUME NEW e, IsEngine(e)
  PROVE  /\ e = [config |-> e.config, nextId |-> e.nextId, open |-> e.open]
         /\ e.nextId \in Nat /\ e.nextId # Exhausted
         /\ \A i \in DOMAIN e.open :
              /\ i \in Ids /\ i # Exhausted /\ i < e.nextId
              /\ e.open[i] \in [iter : Iterators, ns : Namespaces]
              /\ e.open[i].iter \in Iterators
              /\ e.open[i].iter.at <= e.open[i].iter.end + 1
BY DEF IsEngine, Iterators, FirstId, Exhausted, Ids

(* A registered iterator gets an id that no cursor had. *)
LEMMA RegisterOpens ==
  ASSUME NEW e, IsEngine(e), NEW it \in Iterators, it.at <= it.end + 1, NEW ns \in Namespaces
  PROVE  LET f == Register(e, it, ns)
         IN  /\ IsEngine(f)
             /\ f.nextId = e.nextId + 1
             /\ DOMAIN f.open = DOMAIN e.open \cup {e.nextId}
             /\ \A i \in DOMAIN e.open : f.open[i] = e.open[i]
             /\ f.open[e.nextId] = [iter |-> it, ns |-> ns]
<1> DEFINE f == Register(e, it, ns)
<1>0. e = [config |-> e.config, nextId |-> e.nextId, open |-> e.open]
  BY EngineParts
<1>1. f = [config |-> e.config, nextId |-> e.nextId + 1,
           open |-> [i \in DOMAIN e.open \cup {e.nextId} |->
                       IF i = e.nextId THEN [iter |-> it, ns |-> ns] ELSE e.open[i]]]
  BY <1>0 DEF Register
<1> HIDE DEF f
<1>2. /\ f.nextId = e.nextId + 1
      /\ DOMAIN f.open = DOMAIN e.open \cup {e.nextId}
      /\ \A i \in DOMAIN e.open : f.open[i] = e.open[i]
      /\ f.open[e.nextId] = [iter |-> it, ns |-> ns]
  BY <1>1, EngineParts
<1>3. /\ f = [config |-> f.config, nextId |-> f.nextId, open |-> f.open]
      /\ f.config \in Configs \cup {FromEnvironment}
  BY <1>1 DEF IsEngine
<1>4. \A i \in DOMAIN f.open :
        /\ f.open[i] \in [iter : Iterators, ns : Namespaces]
        /\ f.open[i].iter.at <= f.open[i].iter.end + 1
  BY <1>2, EngineParts
<1>5. f.nextId \in Nat \ {Exhausted} /\ DOMAIN f.open \subseteq FirstId .. f.nextId - 1
  BY <1>2, EngineParts DEF FirstId, Exhausted, Ids
<1>6. IsEngine(f)
  BY <1>3, <1>4, <1>5 DEF IsEngine, Iterators
<1> QED BY <1>2, <1>6 DEF f

(* find registers an iterator that has more. *)
LEMMA FindAnswers ==
  ASSUME NEW e, IsEngine(e), NEW r \in Readers, NEW len \in Nat, NEW ns \in Namespaces,
         NEW batch \in Nat, NEW id
  PROVE  LET o == Find(e, Iterator(r, 1, len), ns, batch)
         IN  Answer(e, o.engine, r, ns, "find", id, o.reply)
<1> DEFINE it == Iterator(r, 1, len)
           docs == Batch(it, batch)
           rest == Drained(it, batch)
           o == Find(e, it, ns, batch)
<1>1. it \in Iterators /\ it.of = r /\ it.at = 1 /\ it.end = len
  BY DEF Iterator, Iterators
<1>2. it.at <= it.end + 1
  BY <1>1
<1>3. /\ docs \in Seq(Documents) /\ Ascending(docs)
      /\ \A j \in DOMAIN docs : docs[j][1] = r /\ docs[j][2] < rest.at
      /\ rest \in Iterators /\ rest.of = r /\ rest.at <= rest.end + 1
  BY <1>1, <1>2, BatchIs
<1>4. CASE HasNext(rest)
  <2>1. o = [engine |-> Register(e, rest, ns), reply |-> Reply(docs, e.nextId)]
    BY <1>4 DEF Find
  <2> HIDE DEF it, docs, rest, o
  <2>2. o.reply = [ok |-> TRUE, docs |-> docs, id |-> e.nextId]
    BY <2>1 DEF Reply
  <2>3. o.reply \in Replies /\ o.reply.ok /\ o.reply.docs = docs /\ o.reply.id = e.nextId
    BY <2>2, <1>3, EngineParts DEF Replies, Ids
  <2>4. o.engine = Register(e, rest, ns)
    BY <2>1
  <2>5. /\ IsEngine(o.engine)
        /\ o.engine.nextId = e.nextId + 1
        /\ DOMAIN o.engine.open = DOMAIN e.open \cup {e.nextId}
        /\ \A i \in DOMAIN e.open : o.engine.open[i] = e.open[i]
        /\ o.engine.open[e.nextId] = [iter |-> rest, ns |-> ns]
    BY <2>4, <1>3, RegisterOpens
  <2>6. Opened(e, o.engine, r, ns, o.reply)
    BY <2>3, <2>5, <1>3 DEF Opened
  <2> QED BY <2>3, <2>5, <2>6, <1>3 DEF Answer, o, it
<1>5. CASE ~HasNext(rest)
  <2>1. o = [engine |-> e, reply |-> Reply(docs, Exhausted)]
    BY <1>5 DEF Find
  <2> HIDE DEF it, docs, rest, o
  <2>2. o.engine = e /\ o.reply = [ok |-> TRUE, docs |-> docs, id |-> Exhausted]
    BY <2>1 DEF Reply
  <2>3. o.reply \in Replies /\ o.reply.ok /\ o.reply.docs = docs /\ o.reply.id = Exhausted
    BY <2>2, <1>3 DEF Replies, Ids, Exhausted
  <2>4. AllAtOnce(e, o.engine, r, o.reply)
    BY <2>2, <2>3, <1>3 DEF AllAtOnce
  <2> QED BY <2>2, <2>3, <2>4, <1>3 DEF Answer, o, it
<1> QED BY <1>4, <1>5

(* An engine without some of its entries. *)
LEMMA WithoutIs ==
  ASSUME NEW e, IsEngine(e), NEW ids
  PROVE  LET f == Without(e, ids)
         IN  /\ IsEngine(f) /\ f.nextId = e.nextId
             /\ DOMAIN f.open = DOMAIN e.open \ ids
             /\ \A i \in DOMAIN f.open : f.open[i] = e.open[i]
<1> DEFINE f == Without(e, ids)
<1>1. f = [config |-> e.config, nextId |-> e.nextId, open |-> [i \in DOMAIN e.open \ ids |-> e.open[i]]]
  BY EngineParts DEF Without
<1> HIDE DEF f
<1>2. /\ f.nextId = e.nextId /\ f.config = e.config
      /\ DOMAIN f.open = DOMAIN e.open \ ids
      /\ \A i \in DOMAIN f.open : f.open[i] = e.open[i]
      /\ f = [config |-> f.config, nextId |-> f.nextId, open |-> f.open]
  BY <1>1
<1>3. IsEngine(f)
  BY <1>2 DEF IsEngine
<1> QED BY <1>2, <1>3 DEF f

(* An engine with one iterator changed. *)
LEMMA ChangedIs ==
  ASSUME NEW e, IsEngine(e), NEW id \in DOMAIN e.open, NEW it \in Iterators, it.at <= it.end + 1
  PROVE  LET f == [e EXCEPT !.open[id].iter = it]
         IN  /\ IsEngine(f) /\ f.nextId = e.nextId
             /\ DOMAIN f.open = DOMAIN e.open
             /\ \A i \in DOMAIN e.open : i # id => f.open[i] = e.open[i]
             /\ f.open[id].ns = e.open[id].ns /\ f.open[id].iter = it
<1> DEFINE f == [e EXCEPT !.open[id].iter = it]
<1>1. f = [config |-> e.config, nextId |-> e.nextId,
           open |-> [e.open EXCEPT ![id] = [iter |-> it, ns |-> e.open[id].ns]]]
  BY EngineParts
<1> HIDE DEF f
<1>2. /\ f.nextId = e.nextId /\ f.config = e.config
      /\ DOMAIN f.open = DOMAIN e.open
      /\ \A i \in DOMAIN e.open : i # id => f.open[i] = e.open[i]
      /\ f.open[id] = [iter |-> it, ns |-> e.open[id].ns]
      /\ f = [config |-> f.config, nextId |-> f.nextId, open |-> f.open]
  BY <1>1
<1>3. \A i \in DOMAIN f.open :
        /\ f.open[i] \in [iter : Iterators, ns : Namespaces]
        /\ f.open[i].iter.at <= f.open[i].iter.end + 1
  BY <1>2, EngineParts
<1>4. IsEngine(f)
  BY <1>2, <1>3 DEF IsEngine, Iterators
<1> QED BY <1>2, <1>4 DEF f

(* getMore refuses, moves the iterator on, or drops it at its end. *)
LEMMA GetMoreAnswers ==
  ASSUME NEW e, IsEngine(e), NEW r \in Readers, NEW id \in Ids, NEW ns \in Namespaces,
         NEW batch \in Nat
  PROVE  LET o == GetMore(e, id, ns, batch)
         IN  Answer(e, o.engine, r, ns, "getMore", id, o.reply)
<1> DEFINE it == e.open[id].iter
           docs == Batch(it, batch)
           rest == Drained(it, batch)
           o == GetMore(e, id, ns, batch)
<1>1. CASE ~Borrows(e, id, ns)
  <2>1. o = [engine |-> e, reply |-> Refusal]
    BY <1>1 DEF GetMore
  <2>2. Refusal \in Replies /\ ~Refusal.ok
    BY DEF Refusal, Replies, Ids, Exhausted
  <2> QED BY <2>1, <2>2 DEF Answer
<1>2. CASE Borrows(e, id, ns)
  <2>1. id \in DOMAIN e.open /\ e.open[id].ns = ns
    BY <1>2 DEF Borrows
  <2>2. it \in Iterators /\ it.at <= it.end + 1
    BY <2>1, EngineParts
  <2>3. /\ docs \in Seq(Documents) /\ Ascending(docs)
        /\ \A j \in DOMAIN docs :
             docs[j][1] = it.of /\ docs[j][2] >= it.at /\ docs[j][2] < rest.at
        /\ rest \in Iterators
        /\ rest.of = it.of /\ rest.at >= it.at /\ rest.at <= rest.end + 1
    BY <2>2, BatchIs
  <2>4. CASE HasNext(rest)
    <3>1. o = [engine |-> [e EXCEPT !.open[id].iter = rest], reply |-> Reply(docs, id)]
      BY <1>2, <2>4 DEF GetMore
    <3> HIDE DEF docs, rest, o
    <3>2. /\ o.engine = [e EXCEPT !.open[id].iter = rest]
          /\ o.reply = [ok |-> TRUE, docs |-> docs, id |-> id]
      BY <3>1 DEF Reply
    <3>3. o.reply \in Replies /\ o.reply.ok /\ o.reply.docs = docs /\ o.reply.id = id
      BY <3>2, <2>3 DEF Replies
    <3>4. IsEngine(o.engine) /\ Moved(e, o.engine, id, o.reply)
      BY <3>2, <3>3, <2>1, <2>3, ChangedIs DEF Moved
    <3>5. Continued(e, o.engine, id, ns, o.reply)
      BY <3>3, <3>4, <2>1, <2>3 DEF Continued
    <3> QED BY <3>3, <3>4, <3>5, <2>3 DEF Answer, o
  <2>5. CASE ~HasNext(rest)
    <3>1. o = [engine |-> Without(e, {id}), reply |-> Reply(docs, Exhausted)]
      BY <1>2, <2>5 DEF GetMore
    <3> HIDE DEF docs, rest, o
    <3>2. /\ o.engine = Without(e, {id})
          /\ o.reply = [ok |-> TRUE, docs |-> docs, id |-> Exhausted]
      BY <3>1 DEF Reply
    <3>3. o.reply \in Replies /\ o.reply.ok /\ o.reply.docs = docs /\ o.reply.id = Exhausted
      BY <3>2, <2>3 DEF Replies, Ids, Exhausted
    <3>4. IsEngine(o.engine) /\ Finished(e, o.engine, id, o.reply)
      BY <3>2, <3>3, <2>1, WithoutIs DEF Finished
    <3>5. Continued(e, o.engine, id, ns, o.reply)
      BY <3>3, <3>4, <2>1, <2>3 DEF Continued
    <3> QED BY <3>3, <3>4, <3>5, <2>3 DEF Answer, o
  <2> QED BY <2>4, <2>5
<1> QED BY <1>1, <1>2

(* Every answer is a step of the engine for its other readers. *)
LEMMA AnswerSteps ==
  ASSUME NEW e, IsEngine(e), NEW f, NEW r \in Readers, NEW ns, NEW for, NEW id, NEW reply,
         Answer(e, f, r, ns, for, id, reply)
  PROVE  /\ EngineStep(e, f, {r})
         /\ Opened(e, f, r, ns, reply) \/ EngineStep(e, f, {})
<1>1. CASE f = e
  BY <1>1, EngineParts DEF EngineStep, Iterators
<1>2. CASE Opened(e, f, r, ns, reply)
  BY <1>2, EngineParts DEF EngineStep, Opened, Iterators
<1>3. CASE id \in DOMAIN e.open /\ Moved(e, f, id, reply)
  BY <1>3, EngineParts DEF EngineStep, Moved, Iterators
<1>4. CASE Finished(e, f, id, reply)
  BY <1>4, EngineParts DEF EngineStep, Finished, Iterators
<1> QED BY <1>1, <1>2, <1>3, <1>4 DEF Answer, AllAtOnce, Continued

-----------------------------------------------------------------------------
(* What a reader's invariant survives.                                      *)

(* More mishaps only take promises away. *)
LEMMA MishapsGrow ==
  ASSUME NEW n, NEW e, NEW r, NEW s, NEW c, NEW g, NEW m, ReaderInv(n, e, r, s, c, g, m),
         NEW more, m \subseteq more
  PROVE  ReaderInv(n, e, r, s, c, g, more)
<1>1. HeldInv(e, r, s, c, more)
  BY DEF ReaderInv, HeldInv
<1> QED BY <1>1 DEF ReaderInv

(* The entries a reader has after a step that opens none for it. *)
LEMMA EntriesStay ==
  ASSUME NEW e, IsEngine(e), NEW f, NEW R, EngineStep(e, f, R), NEW r, r \notin R
  PROVE  /\ Entries(f, r) \subseteq Entries(e, r)
         /\ \A i \in Entries(f, r) : f.open[i].iter.at >= e.open[i].iter.at
         /\ Entries(e, r) \cap DOMAIN f.open \subseteq Entries(f, r)
BY EngineParts DEF EngineStep, Entries, Ids

(* Documents below the entries stay below them. *)
LEMMA OwnStays ==
  ASSUME NEW e, IsEngine(e), NEW f, IsEngine(f), NEW R, EngineStep(e, f, R), NEW r, r \notin R,
         NEW docs \in Seq(Documents), Own(docs, e, r)
  PROVE  Own(docs, f, r)
<1>1. \A j \in DOMAIN docs : docs[j][2] \in Nat
  BY DEF Documents
<1>2. \A i \in Entries(f, r) : f.open[i].iter.at \in Nat
  BY EngineParts DEF Entries, Iterators
<1>3. \A i \in Entries(e, r) : e.open[i].iter.at \in Nat
  BY EngineParts DEF Entries, Iterators
<1> QED BY <1>1, <1>2, <1>3, EntriesStay DEF Own

(* A step of the engine for others keeps what holds of a reader. *)
LEMMA OthersKeep ==
  ASSUME NEW n, NEW e, IsEngine(e), NEW f, IsEngine(f), NEW R, EngineStep(e, f, R),
         NEW r, r \notin R,
         NEW s \in Cursors, NEW c \in [Calls -> CallRecords], NEW g \in Seq(Documents), NEW m,
         ReaderInv(n, e, r, s, c, g, m)
  PROVE  ReaderInv(n, f, r, s, c, g, m)
<1>1. /\ Entries(f, r) \subseteq Entries(e, r)
      /\ Entries(e, r) \cap DOMAIN f.open \subseteq Entries(f, r)
  BY EntriesStay
<1>2. FreshInv(f, r, s, c, g) /\ FindingInv(f, r, s, c, g)
  BY <1>1 DEF ReaderInv, FreshInv, FindingInv
<1>3. EntryInv(f, r, s, c) /\ HeldInv(f, r, s, c, m)
  BY <1>1 DEF ReaderInv, EntryInv, HeldInv
<1>4. ASSUME "replaced" \notin m
      PROVE  IdsInv(f, r, s, c)
  <2>1. SUFFICES ASSUME NEW i \in Ids, Names(s, c, i)
                 PROVE  i < f.nextId /\ (i \in DOMAIN f.open => i \in Entries(f, r))
    BY DEF IdsInv
  <2>2. i < e.nextId /\ (i \in DOMAIN e.open => i \in Entries(e, r))
    BY <1>4, <2>1 DEF ReaderInv, IdsInv
  <2>3. e.nextId \in Nat /\ f.nextId \in Nat /\ e.nextId <= f.nextId
    BY EngineParts DEF EngineStep
  <2>4. i \in DOMAIN f.open => i \in DOMAIN e.open
    BY <2>2, <2>3 DEF EngineStep, Ids
  <2> QED BY <1>1, <2>2, <2>3, <2>4 DEF Ids
<1>5. ASSUME "replaced" \notin m
      PROVE  OnceInv(f, r, s, c, g)
  <2>1. OnceInv(e, r, s, c, g)
    BY <1>5 DEF ReaderInv
  <2>2. s.buffer \in Seq(Documents) /\ \A k \in Calls : c[k].reply.docs \in Seq(Documents)
    BY DEF Cursors, CallRecords, Replies
  <2>3. Own(g, f, r) /\ Own(s.buffer, f, r)
    BY <2>1, <2>2, OwnStays DEF OnceInv
  <2>4. \A k \in Calls : Own(c[k].reply.docs, f, r)
    BY <2>1, <2>2, OwnStays DEF OnceInv
  <2> QED BY <2>1, <2>3, <2>4 DEF OnceInv
<1> QED BY <1>2, <1>3, <1>4, <1>5 DEF ReaderInv

-----------------------------------------------------------------------------
(* The steps of a reader.                                                   *)

(* A reader as TypeOK has it. *)
ReaderTyped(s, c, g) == s \in Cursors /\ c \in [Calls -> CallRecords] /\ g \in Seq(Documents)

(* The record of a call that is not there. *)
LEMMA IdleIs == /\ Idle \in CallRecords /\ Idle.at = "idle" /\ Idle.for = "none"
                /\ Idle.id = Exhausted /\ Idle.reply = Refusal
                /\ Refusal.ok = FALSE /\ Refusal.docs = <<>> /\ Refusal.id = Exhausted
                /\ DOMAIN Refusal.docs = {}
BY DEF Idle, Refusal, CallRecords, Replies, Ids, Exhausted

(* A call ends: it got nothing, or what it got is lost. *)
LEMMA EndKeeps ==
  ASSUME NEW n, NEW e, IsEngine(e), NEW r, NEW s, NEW c, NEW g, NEW m, ReaderTyped(s, c, g),
         ReaderInv(n, e, r, s, c, g, m), NEW k \in Calls,
         c[k].at = "answered" => ~c[k].reply.ok \/ "lost" \in m
  PROVE  LET d == [c EXCEPT ![k] = Idle]
         IN  ReaderTyped(s, d, g) /\ ReaderInv(n, e, r, s, d, g, m)
<1> DEFINE d == [c EXCEPT ![k] = Idle]
<1>1. ReaderTyped(s, d, g)
  BY IdleIs DEF ReaderTyped
<1>2. /\ d[k] = Idle
      /\ \A l \in Calls : l # k => d[l] = c[l]
      /\ \A l \in Calls : d[l] = c[l] \/ d[l] = Idle
  BY DEF ReaderTyped
<1> HIDE DEF d
<1>3. \A i : Names(s, d, i) => Names(s, c, i) \/ i = Exhausted
  BY <1>2, IdleIs DEF Names
<1>4. FreshInv(e, r, s, d, g) /\ CallsInv(d)
  BY <1>2, IdleIs DEF ReaderInv, FreshInv, CallsInv, Busy
<1>5. FindingInv(e, r, s, d, g)
  BY <1>2, IdleIs DEF ReaderInv, FindingInv, Busy
<1>6. EntryInv(e, r, s, d)
  BY <1>2, <1>3, IdleIs DEF ReaderInv, EntryInv
<1>7. HeldInv(e, r, s, d, m)
  <2>1. SUFFICES ASSUME NEW i \in Entries(e, r), s.id # i, "lost" \notin m
                 PROVE  \E l \in Calls : d[l].at = "answered" /\ d[l].reply.id = i
    BY DEF HeldInv
  <2>2. PICK l \in Calls : c[l].at = "answered" /\ c[l].reply.id = i
    BY <2>1 DEF ReaderInv, HeldInv
  <2>3. i # Exhausted
    BY EngineParts DEF Entries
  <2>4. c[l].reply.ok
    BY <2>2, <2>3, IdleIs DEF ReaderInv, CallsInv
  <2> QED BY <1>2, <2>1, <2>2, <2>4
<1>8. NamespaceInv(n, r, s, d, g)
  BY <1>2, IdleIs DEF ReaderInv, NamespaceInv, Among
<1>9. ASSUME "replaced" \notin m
      PROVE  IdsInv(e, r, s, d) /\ OnceInv(e, r, s, d, g)
  <2>1. IdsInv(e, r, s, c) /\ OnceInv(e, r, s, c, g)
    BY <1>9 DEF ReaderInv
  <2>2. IdsInv(e, r, s, d)
    BY <1>3, <2>1, EngineParts DEF IdsInv, Exhausted, Ids
  <2>3. OnceInv(e, r, s, d, g)
    BY <1>2, <2>1, IdleIs DEF OnceInv, Own, Ascending, Apart
  <2> QED BY <2>2, <2>3
<1>10. ASSUME "overlap" \notin m
       PROVE  AloneInv(s, d)
  BY <1>2, <1>10, IdleIs DEF ReaderInv, AloneInv, Busy
<1>11. ASSUME {"replaced", "overlap"} \cap m = {}
       PROVE  OrderInv(s, d, g)
  BY <1>2, <1>11, IdleIs DEF ReaderInv, OrderInv, Before
<1> QED BY <1>1, <1>4, <1>5, <1>6, <1>7, <1>8, <1>9, <1>10, <1>11 DEF ReaderInv, d

(* A replaced engine has no entries, and who used the one before knows; the *)
(* calls of its own process are gone.                                       *)
LEMMA ReplacedKeeps ==
  ASSUME NEW n, NEW e, NEW f, DOMAIN f.open = {}, f.nextId = FirstId, NEW r,
         NEW s, NEW c, NEW d \in [Calls -> CallRecords], NEW g, NEW m, NEW more,
         ReaderTyped(s, c, g), ReaderInv(n, e, r, s, c, g, m),
         \A k \in Calls : d[k] = c[k] \/ d[k] = Idle,
         (~s.started /\ m = more) \/ more = m \cup {"replaced"}
  PROVE  ReaderInv(n, f, r, s, d, g, more)
<1>1. Entries(f, r) = {}
  BY DEF Entries
<1>2. FreshInv(f, r, s, d, g) /\ FindingInv(f, r, s, d, g)
  BY <1>1, IdleIs DEF ReaderInv, FreshInv, FindingInv, Busy
<1>3. EntryInv(f, r, s, d) /\ HeldInv(f, r, s, d, more)
  BY <1>1 DEF EntryInv, HeldInv
<1>4. CallsInv(d) /\ NamespaceInv(n, r, s, d, g)
  BY IdleIs DEF ReaderInv, CallsInv, NamespaceInv, Among, Busy
<1>5. ASSUME "replaced" \notin more
      PROVE  /\ s.id = Exhausted /\ s.buffer = <<>> /\ g = <<>>
             /\ \A k \in Calls : d[k] = Idle
  BY <1>5 DEF ReaderInv, FreshInv
<1>6. ASSUME "replaced" \notin more
      PROVE  IdsInv(f, r, s, d) /\ OnceInv(f, r, s, d, g) /\ OrderInv(s, d, g)
  <2>1. \A i : Names(s, d, i) => i = Exhausted
    BY <1>5, <1>6, IdleIs DEF Names
  <2>2. IdsInv(f, r, s, d)
    BY <2>1 DEF IdsInv, FirstId, Exhausted
  <2>3. OnceInv(f, r, s, d, g)
    BY <1>5, <1>6, IdleIs DEF OnceInv, Own, Ascending, Distinct, Apart
  <2>4. OrderInv(s, d, g)
    BY <1>5, <1>6 DEF OrderInv, Ascending, Before
  <2> QED BY <2>2, <2>3, <2>4
<1>7. ASSUME "overlap" \notin more
      PROVE  AloneInv(s, d)
  BY <1>7, IdleIs DEF ReaderInv, AloneInv, Busy
<1> QED BY <1>2, <1>3, <1>4, <1>6, <1>7 DEF ReaderInv

(* A find comes first, and getMore while there is an id. *)
Due(for, s) ==
  \/ for = "find" /\ ~s.started
  \/ for = "getMore" /\ s.started /\ s.id # Exhausted

(* Call k may ask for a batch. *)
MayAsk(n, e, r, s, c, g, m, k, for) ==
  /\ IsEngine(e) /\ ReaderTyped(s, c, g) /\ ReaderInv(n, e, r, s, c, g, m)
  /\ k \in Calls /\ ~Busy(c[k])
  /\ "overlap" \in m \/ \A l \in Calls : l # k => c[l] = Idle
  /\ Due(for, s)

(* A call asks for a batch, alone or after an overlap. *)
LEMMA AskKeeps ==
  ASSUME NEW n, NEW e, NEW r, NEW s, NEW c, NEW g, NEW m, NEW k, NEW for,
         MayAsk(n, e, r, s, c, g, m, k, for)
  PROVE  LET t == Emptied(s)
             d == [c EXCEPT ![k] = Asked(for, s.id)]
         IN  ReaderTyped(t, d, g) /\ ReaderInv(n, e, r, t, d, g, m)
<1> DEFINE t == Emptied(s)
           d == [c EXCEPT ![k] = Asked(for, s.id)]
<1>0. /\ IsEngine(e) /\ ReaderTyped(s, c, g) /\ ReaderInv(n, e, r, s, c, g, m)
      /\ k \in Calls /\ ~Busy(c[k])
      /\ "overlap" \in m \/ \A l \in Calls : l # k => c[l] = Idle
      /\ \/ for = "find" /\ ~s.started
         \/ for = "getMore" /\ s.started /\ s.id # Exhausted
  BY DEF MayAsk, Due
<1> USE <1>0
<1>1. /\ Asked(for, s.id) \in CallRecords
      /\ Asked(for, s.id).at = "asked" /\ Asked(for, s.id).for = for
      /\ Asked(for, s.id).id = s.id /\ Asked(for, s.id).reply = Refusal
  BY IdleIs DEF Asked, CallRecords, ReaderTyped, Cursors
<1>2. /\ t \in Cursors /\ t.ns = s.ns /\ t.started /\ t.id = s.id
      /\ t.buffer = <<>> /\ DOMAIN t.buffer = {} /\ t.index = 0
  <2>1. t = [ns |-> s.ns, batch |-> s.batch, started |-> TRUE, id |-> s.id,
             buffer |-> <<>>, index |-> 0]
    BY DEF Emptied
  <2>2. s.ns \in Namespaces /\ s.batch \in Nat /\ s.id \in Ids
    BY DEF ReaderTyped, Cursors
  <2> HIDE DEF t
  <2>3. <<>> \in Seq(Documents) /\ DOMAIN <<>> = {}
    OBVIOUS
  <2> QED BY <2>1, <2>2, <2>3 DEF Cursors
<1>3. /\ d[k] = Asked(for, s.id)
      /\ \A l \in Calls : l # k => d[l] = c[l]
      /\ d \in [Calls -> CallRecords]
  BY <1>1 DEF ReaderTyped
<1> HIDE DEF d, t
<1>4. \A i : Names(t, d, i) => Names(s, c, i) \/ i = Exhausted
  BY <1>1, <1>2, <1>3, IdleIs DEF Names
<1>5. \A l \in Calls : d[l].reply = c[l].reply \/ d[l].reply = Refusal
  BY <1>1, <1>3
<1>6. for = "find" => /\ s.id = Exhausted /\ g = <<>> /\ Entries(e, r) = {}
                      /\ \A l \in Calls : c[l] = Idle
  BY DEF ReaderInv, FreshInv
<1>7. FreshInv(e, r, t, d, g)
  BY <1>2 DEF FreshInv
<1>8. CallsInv(d)
  BY <1>1, <1>3, <1>6, IdleIs DEF ReaderInv, CallsInv, Busy
<1>9. FindingInv(e, r, t, d, g)
  BY <1>1, <1>2, <1>3, <1>6, IdleIs DEF ReaderInv, FindingInv, Busy
<1>10. EntryInv(e, r, t, d)
  BY <1>1, <1>3, <1>4, IdleIs DEF ReaderInv, EntryInv
<1>11. HeldInv(e, r, t, d, m)
  BY <1>2, <1>3 DEF ReaderInv, HeldInv, Busy
<1>12. NamespaceInv(n, r, t, d, g)
  BY <1>2, <1>5, IdleIs DEF ReaderInv, NamespaceInv, Among
<1>13. ASSUME "replaced" \notin m
       PROVE  IdsInv(e, r, t, d) /\ OnceInv(e, r, t, d, g)
  <2>1. IdsInv(e, r, s, c) /\ OnceInv(e, r, s, c, g)
    BY <1>13 DEF ReaderInv
  <2>2. IdsInv(e, r, t, d)
    BY <1>4, <2>1, EngineParts DEF IdsInv, Exhausted, Ids
  <2>3. OnceInv(e, r, t, d, g)
    BY <1>1, <1>2, <1>3, <2>1, IdleIs DEF OnceInv, Own, Ascending, Apart
  <2> QED BY <2>2, <2>3
<1>14. ASSUME "overlap" \notin m
       PROVE  AloneInv(t, d)
  BY <1>2, <1>3, <1>14, IdleIs DEF AloneInv, Busy
<1>15. ASSUME {"replaced", "overlap"} \cap m = {}
       PROVE  OrderInv(t, d, g)
  BY <1>2, <1>5, <1>15, IdleIs DEF ReaderInv, OrderInv, Before
<1> QED BY <1>2, <1>3, <1>7, <1>8, <1>9, <1>10, <1>11, <1>12, <1>13, <1>14, <1>15
        DEF ReaderInv, ReaderTyped, t, d

(* The buffer is set to the answer. *)
LEMMA ReceiveKeeps ==
  ASSUME NEW n, NEW e, IsEngine(e), NEW r, NEW s, NEW c, NEW g, NEW m, ReaderTyped(s, c, g),
         ReaderInv(n, e, r, s, c, g, m), NEW k \in Calls,
         c[k].at = "answered", c[k].reply.ok
  PROVE  LET t == Filled(s, c[k].reply)
             d == [c EXCEPT ![k] = [Idle EXCEPT !.at = "woken", !.for = c[k].for]]
         IN  ReaderTyped(t, d, g) /\ ReaderInv(n, e, r, t, d, g, m)
<1> DEFINE woken == [Idle EXCEPT !.at = "woken", !.for = c[k].for]
           t == Filled(s, c[k].reply)
           d == [c EXCEPT ![k] = woken]
<1>1. /\ woken \in CallRecords /\ woken.at = "woken" /\ woken.for = c[k].for
      /\ woken.id = Exhausted /\ woken.reply = Refusal
  BY IdleIs DEF CallRecords, ReaderTyped, Idle
<1>2. /\ c[k].reply \in Replies /\ s \in Cursors /\ s.index \in Nat
  BY DEF ReaderTyped, CallRecords, Cursors
<1>3. /\ t \in Cursors /\ t.ns = s.ns /\ t.started = s.started /\ t.id = c[k].reply.id
      /\ t.buffer = c[k].reply.docs /\ t.index = s.index
  BY <1>2 DEF Filled, Cursors, Replies
<1> HIDE DEF woken, t
<1>4. /\ d[k] = woken
      /\ \A l \in Calls : l # k => d[l] = c[l]
      /\ d \in [Calls -> CallRecords]
  BY <1>1 DEF ReaderTyped
<1> HIDE DEF d
<1>5. Busy(c[k]) /\ c[k] # Idle /\ c[k].for # "none"
  BY IdleIs DEF Busy, ReaderInv, CallsInv
<1>6. \A i : Names(t, d, i) => Names(s, c, i) \/ i = Exhausted
  BY <1>1, <1>3, <1>4, IdleIs DEF Names
<1>7. FreshInv(e, r, t, d, g)
  BY <1>3, <1>5 DEF ReaderInv, FreshInv
<1>8. CallsInv(d)
  BY <1>1, <1>4, <1>5, IdleIs DEF ReaderInv, CallsInv, Busy
<1>9. FindingInv(e, r, t, d, g)
  BY <1>1, <1>4, <1>5 DEF ReaderInv, FindingInv, Busy
<1>10. EntryInv(e, r, t, d)
  BY <1>1, <1>4, <1>6 DEF ReaderInv, EntryInv
<1>11. HeldInv(e, r, t, d, m)
  BY <1>3 DEF ReaderInv, HeldInv, EntryInv
<1>12. NamespaceInv(n, r, t, d, g)
  BY <1>1, <1>3, <1>4, IdleIs DEF ReaderInv, NamespaceInv, Among
<1>13. ASSUME "replaced" \notin m
       PROVE  IdsInv(e, r, t, d) /\ OnceInv(e, r, t, d, g)
  <2>1. IdsInv(e, r, s, c) /\ OnceInv(e, r, s, c, g)
    BY <1>13 DEF ReaderInv
  <2>2. IdsInv(e, r, t, d)
    BY <1>6, <2>1, EngineParts DEF IdsInv, Exhausted, Ids
  <2>3. /\ Own(g, e, r) /\ Own(t.buffer, e, r) /\ Ascending(t.buffer) /\ Distinct(g)
    BY <1>3, <2>1 DEF OnceInv
  <2>4. Apart(g, t.buffer, t.index)
    <3>1. Apart(g, c[k].reply.docs, 0)
      BY <2>1 DEF OnceInv
    <3>2. \A j \in DOMAIN c[k].reply.docs : j > s.index => j > 0
      BY <1>2 DEF Replies
    <3> QED BY <1>3, <3>1, <3>2 DEF Apart
  <2>5. ASSUME NEW l \in Calls
        PROVE  /\ Own(d[l].reply.docs, e, r) /\ Ascending(d[l].reply.docs)
               /\ Apart(g, d[l].reply.docs, 0)
               /\ Apart(d[l].reply.docs, t.buffer, t.index)
    <3>1. CASE l = k
      BY <1>1, <1>4, <3>1, IdleIs DEF Own, Ascending, Apart
    <3>2. CASE l # k
      <4>1. Apart(c[l].reply.docs, c[k].reply.docs, 0)
        BY <2>1, <3>2 DEF OnceInv
      <4>2. \A j \in DOMAIN c[k].reply.docs : j > s.index => j > 0
        BY <1>2 DEF Replies
      <4>3. Apart(d[l].reply.docs, t.buffer, t.index)
        BY <1>3, <1>4, <3>2, <4>1, <4>2 DEF Apart
      <4> QED BY <1>4, <2>1, <3>2, <4>3 DEF OnceInv
    <3> QED BY <3>1, <3>2
  <2>6. ASSUME NEW l \in Calls, NEW h \in Calls, h # l
        PROVE  Apart(d[l].reply.docs, d[h].reply.docs, 0)
    BY <1>1, <1>4, <2>1, <2>6, IdleIs DEF OnceInv, Apart
  <2>7. OnceInv(e, r, t, d, g)
    BY <2>3, <2>4, <2>5, <2>6 DEF OnceInv
  <2> QED BY <2>2, <2>7
<1>14. ASSUME "overlap" \notin m
       PROVE  AloneInv(t, d)
  BY <1>1, <1>4, <1>5, <1>14, IdleIs DEF ReaderInv, AloneInv, Busy
<1>15. ASSUME {"replaced", "overlap"} \cap m = {}
       PROVE  OrderInv(t, d, g)
  <2>1. OrderInv(s, c, g)
    BY <1>15 DEF ReaderInv
  <2>2. \A j \in DOMAIN c[k].reply.docs : j > s.index => j > 0
    BY <1>2 DEF Replies
  <2> QED BY <1>1, <1>3, <1>4, <2>1, <2>2, IdleIs DEF OrderInv, Before
<1> QED BY <1>3, <1>4, <1>7, <1>8, <1>9, <1>10, <1>11, <1>12, <1>13, <1>14, <1>15
        DEF ReaderInv, ReaderTyped, t, d, woken

(* Entries stay in the namespace of their readers. *)
LEMMA AnswerKeepsNamespaces ==
  ASSUME NEW n, NEW e, EngineInv(n, e), NEW f, NEW r, NEW for, NEW id, NEW reply,
         Answer(e, f, r, n[r], for, id, reply)
  PROVE  EngineInv(n, f)
<1>1. CASE f = e
  BY <1>1 DEF EngineInv
<1>2. CASE Opened(e, f, r, n[r], reply)
  BY <1>2 DEF EngineInv, Opened
<1>3. CASE Continued(e, f, id, n[r], reply)
  <2>1. CASE Moved(e, f, id, reply)
    BY <2>1 DEF EngineInv, Moved
  <2>2. CASE Finished(e, f, id, reply)
    BY <2>2 DEF EngineInv, Finished
  <2> QED BY <1>3, <2>1, <2>2 DEF Continued
<1> QED BY <1>1, <1>2, <1>3 DEF Answer, AllAtOnce

(* The engine answers. *)
LEMMA AnswerKeeps ==
  ASSUME NEW n, NEW e, IsEngine(e), NEW f, NEW r \in Readers, NEW s, NEW c, NEW g, NEW m,
         ReaderTyped(s, c, g), EngineInv(n, e),
         ReaderInv(n, e, r, s, c, g, m), NEW k \in Calls, c[k].at = "asked",
         NEW reply, Answer(e, f, r, s.ns, c[k].for, c[k].id, reply)
  PROVE  LET d == [c EXCEPT ![k].at = "answered", ![k].reply = reply]
         IN  /\ IsEngine(f) /\ EngineInv(n, f) /\ EngineStep(e, f, {r})
             /\ ReaderTyped(s, d, g) /\ ReaderInv(n, f, r, s, d, g, m)
<1> DEFINE answered == [c[k] EXCEPT !.at = "answered", !.reply = reply]
           d == [c EXCEPT ![k].at = "answered", ![k].reply = reply]
<1>1. IsEngine(f) /\ reply \in Replies
  BY DEF Answer
<1>2. /\ answered \in CallRecords /\ answered.at = "answered"
      /\ answered.for = c[k].for /\ answered.id = c[k].id /\ answered.reply = reply
  BY <1>1 DEF ReaderTyped, CallRecords
<1> HIDE DEF answered
<1>3. /\ d[k] = answered
      /\ \A l \in Calls : l # k => d[l] = c[l]
      /\ d \in [Calls -> CallRecords]
  BY <1>2 DEF ReaderTyped, answered, CallRecords
<1> HIDE DEF d
<1>4. Busy(c[k]) /\ c[k] # Idle /\ c[k].reply = Refusal /\ s.ns = n[r] /\ s.started
  BY IdleIs DEF Busy, ReaderInv, CallsInv, NamespaceInv, FreshInv
<1>5. EngineStep(e, f, {r})
  BY AnswerSteps
<1>6. EngineInv(n, f)
  BY <1>4, AnswerKeepsNamespaces
<1>7. FreshInv(f, r, s, d, g)
  BY <1>4 DEF FreshInv
<1>8. CallsInv(d)
  BY <1>2, <1>3, <1>4, IdleIs DEF ReaderInv, CallsInv, Busy, Answer
<1>9. FindingInv(f, r, s, d, g)
  <2>1. SUFFICES ASSUME NEW l \in Calls, Busy(d[l]), d[l].for = "find"
                 PROVE  /\ s.id = Exhausted /\ s.buffer = <<>> /\ g = <<>>
                        /\ \A h \in Calls : h # l => d[h] = Idle
                        /\ d[l].at = "asked" => Entries(f, r) = {}
    BY DEF FindingInv
  <2>2. Busy(c[l]) /\ c[l].for = "find"
    BY <1>2, <1>3, <1>4, <2>1 DEF Busy
  <2>3. l = k
    BY <1>4, <2>2 DEF ReaderInv, FindingInv
  <2> QED BY <1>2, <1>3, <2>2, <2>3 DEF ReaderInv, FindingInv

<1>10. CASE reply = Refusal /\ f = e
  <2>1. \A l \in Calls : d[l].reply = c[l].reply /\ d[l].id = c[l].id
    BY <1>2, <1>3, <1>4, <1>10
  <2>2. \A l \in Calls : c[l].at = "answered" => d[l].at = "answered"
    BY <1>2, <1>3
  <2>3. \A i : Names(s, d, i) => Names(s, c, i)
    BY <2>1 DEF Names
  <2>4. EntryInv(f, r, s, d)
    <3>1. \A l \in Calls : d[l].at = "answered" /\ d[l].reply.ok => c[l].at = "answered"
      BY <1>2, <1>3, <1>10, IdleIs
    <3> QED BY <1>10, <2>1, <2>3, <3>1 DEF ReaderInv, EntryInv
  <2>5. HeldInv(f, r, s, d, m) /\ NamespaceInv(n, r, s, d, g)
    BY <1>10, <2>1, <2>2 DEF ReaderInv, HeldInv, NamespaceInv
  <2>6. "replaced" \notin m => IdsInv(f, r, s, d) /\ OnceInv(f, r, s, d, g)
    BY <1>10, <2>1, <2>3 DEF ReaderInv, IdsInv, OnceInv
  <2>7. "overlap" \notin m => AloneInv(s, d)
    BY <1>2, <1>3, <1>4, IdleIs DEF ReaderInv, AloneInv, Busy
  <2>8. {"replaced", "overlap"} \cap m = {} => OrderInv(s, d, g)
    BY <2>1 DEF ReaderInv, OrderInv
  <2> QED BY <1>1, <1>3, <1>5, <1>6, <1>7, <1>8, <1>9, <2>4, <2>5, <2>6, <2>7, <2>8
          DEF ReaderInv, ReaderTyped, d
<1>11. CASE /\ reply.ok /\ Ascending(reply.docs) /\ c[k].for = "find"
            /\ AllAtOnce(e, f, r, reply) \/ Opened(e, f, r, s.ns, reply)
  <2>1. /\ s.id = Exhausted /\ s.buffer = <<>> /\ g = <<>> /\ Entries(e, r) = {}
        /\ \A l \in Calls : l # k => c[l] = Idle /\ d[l] = Idle
        /\ d[k].id = Exhausted
    BY <1>2, <1>3, <1>4, <1>11 DEF ReaderInv, FindingInv, CallsInv
  <2>2. Entries(f, r) = {i \in {reply.id} : i # Exhausted}
    <3>1. CASE AllAtOnce(e, f, r, reply)
      BY <2>1, <3>1 DEF AllAtOnce
    <3>2. CASE Opened(e, f, r, s.ns, reply)
      BY <2>1, <3>2, EngineParts DEF Opened, Entries
    <3> QED BY <1>11, <3>1, <3>2
  <2>3. \A i : Names(s, d, i) => i \in {Exhausted, reply.id}
    BY <1>2, <1>3, <2>1, IdleIs DEF Names
  <2>4. EntryInv(f, r, s, d)
    BY <1>2, <1>3, <2>1, <2>2, <2>3, IdleIs DEF EntryInv
  <2>5. HeldInv(f, r, s, d, m)
    BY <1>2, <1>3, <2>2 DEF HeldInv
  <2>6. /\ \A j \in DOMAIN reply.docs : reply.docs[j][1] = r
        /\ Own(reply.docs, f, r)
    <3>1. CASE AllAtOnce(e, f, r, reply)
      BY <2>2, <3>1 DEF AllAtOnce, Own
    <3>2. CASE Opened(e, f, r, s.ns, reply)
      BY <2>2, <3>2 DEF Opened, Own
    <3> QED BY <1>11, <3>1, <3>2
  <2>7. NamespaceInv(n, r, s, d, g)
    BY <1>2, <1>3, <1>4, <2>1, <2>6, IdleIs DEF NamespaceInv, Among
  <2>8. IdsInv(f, r, s, d)
    <3>1. reply.id < f.nextId /\ (reply.id \in DOMAIN f.open => reply.id \in Entries(f, r))
      BY <1>1, <1>11, <2>2, EngineParts DEF AllAtOnce, Opened, Exhausted
    <3>2. Exhausted < f.nextId /\ Exhausted \notin DOMAIN f.open
      BY <1>1, EngineParts DEF Exhausted
    <3> QED BY <2>3, <3>1, <3>2 DEF IdsInv
  <2>9. OnceInv(f, r, s, d, g)
    <3>1. d[k].reply.docs = reply.docs
      BY <1>2, <1>3
    <3>2. \A l \in Calls : l # k => d[l].reply.docs = <<>>
      BY <2>1, IdleIs
    <3> QED BY <1>11, <2>1, <2>6, <3>1, <3>2 DEF OnceInv, Own, Ascending, Distinct, Apart
  <2>10. AloneInv(s, d)
    BY <1>2, <1>3, <2>1, IdleIs DEF AloneInv, Busy
  <2>11. OrderInv(s, d, g)
    BY <2>1 DEF OrderInv, Ascending, Before
  <2> QED BY <1>1, <1>3, <1>5, <1>6, <1>7, <1>8, <1>9, <2>4, <2>5, <2>7, <2>8, <2>9, <2>10, <2>11
          DEF ReaderInv, ReaderTyped, d
<1>12. CASE /\ reply.ok /\ Ascending(reply.docs) /\ c[k].for = "getMore"
            /\ Continued(e, f, c[k].id, s.ns, reply)
  <2> DEFINE id == c[k].id
  <2>1. /\ id # Exhausted /\ id \in DOMAIN e.open /\ Names(s, c, id)
        /\ e.open[id].ns = s.ns
        /\ \A j \in DOMAIN reply.docs :
             reply.docs[j][1] = e.open[id].iter.of /\ reply.docs[j][2] >= e.open[id].iter.at
    BY <1>4, <1>12 DEF ReaderInv, CallsInv, Continued, Names
  <2>2. Moved(e, f, id, reply) \/ Finished(e, f, id, reply)
    BY <1>12 DEF Continued
  <2> HIDE DEF id
  <2>3. EngineStep(e, f, {})
    <3>1. ~Opened(e, f, r, s.ns, reply)
      BY <2>1, <2>2, EngineParts DEF Opened, Moved, Finished
    <3> QED BY <3>1, AnswerSteps
  <2>4. Entries(f, r) \subseteq Entries(e, r)
    BY <2>3, EntriesStay
  <2>5. \A i \in Entries(e, r) : i = id
    <3>1. id \in Ids
      BY <2>1, EngineParts
    <3> QED BY <2>1, <3>1 DEF ReaderInv, EntryInv
  <2>6. \A i \in Entries(f, r) : i = id /\ reply.id = id /\ Moved(e, f, id, reply)
    BY <2>2, <2>4, <2>5 DEF Entries, Moved, Finished
  <2>7. \A i : Names(s, d, i) => Names(s, c, i) \/ i = reply.id
    BY <1>2, <1>3 DEF Names
  <2>8. reply.id = id \/ reply.id = Exhausted
    BY <2>2 DEF Moved, Finished
  <2>9. EntryInv(f, r, s, d)
    <3>1. \A l \in Calls : l # k /\ d[l].at = "answered" => c[l].at = "answered"
      BY <1>3
    <3> QED BY <1>2, <1>3, <2>4, <2>6, <2>7, <3>1 DEF ReaderInv, EntryInv
  <2>10. HeldInv(f, r, s, d, m)
    BY <1>2, <1>3, <2>6 DEF HeldInv
  <2>11. NamespaceInv(n, r, s, d, g)
    BY <1>2, <1>3, <1>4, <2>1 DEF ReaderInv, NamespaceInv, Among, EngineInv
  <2>12. ASSUME "replaced" \notin m
         PROVE  IdsInv(f, r, s, d) /\ OnceInv(f, r, s, d, g) /\ Before(g, reply.docs, 0)
    <3>1. IdsInv(e, r, s, c) /\ OnceInv(e, r, s, c, g)
      BY <2>12 DEF ReaderInv
    <3>2. id \in Ids /\ id \in Entries(e, r)
      BY <2>1, <3>1, EngineParts DEF IdsInv
    <3>3. IdsInv(f, r, s, d)
      <4>1. SUFFICES ASSUME NEW i \in Ids, Names(s, d, i)
                     PROVE  i < f.nextId /\ (i \in DOMAIN f.open => i \in Entries(f, r))
        BY DEF IdsInv
      <4>2. Names(s, c, i) \/ i = Exhausted
        BY <2>1, <2>7, <2>8, <4>1
      <4>3. i < e.nextId /\ (i \in DOMAIN e.open => i \in Entries(e, r))
        BY <3>1, <4>2, EngineParts DEF IdsInv, Exhausted, Ids
      <4>4. f.nextId = e.nextId /\ DOMAIN f.open \subseteq DOMAIN e.open
        BY <2>2 DEF Moved, Finished
      <4>5. Entries(e, r) \cap DOMAIN f.open \subseteq Entries(f, r)
        BY <2>3, EntriesStay
      <4> QED BY <4>3, <4>4, <4>5
    <3>4. /\ Own(g, f, r) /\ Own(s.buffer, f, r)
          /\ \A l \in Calls : Own(c[l].reply.docs, f, r)
      <4>1. /\ g \in Seq(Documents) /\ s.buffer \in Seq(Documents)
            /\ \A l \in Calls : c[l].reply.docs \in Seq(Documents)
        BY DEF ReaderTyped, Cursors, CallRecords, Replies
      <4>2. ASSUME NEW docs \in Seq(Documents), Own(docs, e, r)
            PROVE  Own(docs, f, r)
        <5>1. r \notin {}
          OBVIOUS
        <5> QED BY <1>1, <2>3, <4>2, <5>1, OwnStays
      <4> QED BY <3>1, <4>1, <4>2 DEF OnceInv
    <3>5. Own(reply.docs, f, r)
      BY <2>1, <2>6, <3>2 DEF Own, Entries, Moved
    <3>6. ASSUME NEW docs \in Seq(Documents), Own(docs, e, r)
          PROVE  \A i \in DOMAIN docs, j \in DOMAIN reply.docs : docs[i][2] < reply.docs[j][2]
      <4>1. \A i \in DOMAIN docs : docs[i][2] \in Nat /\ docs[i][2] < e.open[id].iter.at
        BY <3>2, <3>6 DEF Own, Documents
      <4>2. \A j \in DOMAIN reply.docs : reply.docs[j][2] \in Nat
        BY <1>1 DEF Replies, Documents
      <4>3. e.open[id].iter.at \in Nat
        BY <2>1, EngineParts DEF Iterators
      <4> QED BY <2>1, <4>1, <4>2, <4>3
    <3>7. ASSUME NEW docs \in Seq(Documents), Own(docs, e, r)
          PROVE  \A i \in DOMAIN docs, j \in DOMAIN reply.docs : docs[i] # reply.docs[j]
      <4>1. \A i \in DOMAIN docs : docs[i][2] \in Nat
        BY DEF Documents
      <4> QED BY <3>6, <3>7, <4>1
    <3>8. /\ g \in Seq(Documents) /\ s.buffer \in Seq(Documents)
          /\ \A l \in Calls : c[l].reply.docs \in Seq(Documents)
      BY DEF ReaderTyped, Cursors, CallRecords, Replies
    <3>9. Before(g, reply.docs, 0) /\ Apart(g, reply.docs, 0)
      BY <3>1, <3>6, <3>7, <3>8 DEF OnceInv, Before, Apart
    <3>10. Apart(reply.docs, s.buffer, s.index)
      BY <3>1, <3>7, <3>8 DEF OnceInv, Apart
    <3>11. \A l \in Calls :
             Apart(reply.docs, c[l].reply.docs, 0) /\ Apart(c[l].reply.docs, reply.docs, 0)
      BY <3>1, <3>7, <3>8 DEF OnceInv, Apart
    <3>12. OnceInv(f, r, s, d, g)
      <4>1. \A l \in Calls : IF l = k THEN d[l].reply = reply ELSE d[l].reply = c[l].reply
        BY <1>2, <1>3
      <4> QED BY <1>12, <3>1, <3>4, <3>5, <3>9, <3>10, <3>11, <4>1 DEF OnceInv
    <3> QED BY <3>3, <3>9, <3>12
  <2>13. "overlap" \notin m => AloneInv(s, d)
    BY <1>2, <1>3, <1>4, IdleIs DEF ReaderInv, AloneInv, Busy
  <2>14. {"replaced", "overlap"} \cap m = {} => OrderInv(s, d, g)
    BY <1>2, <1>3, <2>12 DEF ReaderInv, OrderInv
  <2> QED BY <1>1, <1>3, <1>5, <1>6, <1>7, <1>8, <1>9, <2>9, <2>10, <2>11, <2>12, <2>13, <2>14
          DEF ReaderInv, ReaderTyped, d
<1> QED BY <1>10, <1>11, <1>12 DEF Answer

(* A call in the engine's process: ask, answer and receive at once. *)
LEMMA AskLocallyKeeps ==
  ASSUME NEW n, NEW e, NEW f, NEW r \in Readers, NEW s, NEW c, NEW g, NEW m, NEW k, NEW for,
         EngineInv(n, e), MayAsk(n, e, r, s, c, g, m, k, for),
         NEW reply, Answer(e, f, r, s.ns, for, s.id, reply)
  PROVE  LET t == IF reply.ok THEN Filled(Emptied(s), reply) ELSE Emptied(s)
             woken == [Idle EXCEPT !.at = "woken", !.for = for]
             d == [c EXCEPT ![k] = IF reply.ok THEN woken ELSE Idle]
         IN  /\ IsEngine(f) /\ EngineInv(n, f) /\ EngineStep(e, f, {r})
             /\ ReaderTyped(t, d, g) /\ ReaderInv(n, f, r, t, d, g, m)
<1> DEFINE t == Emptied(s)
           asked == [c EXCEPT ![k] = Asked(for, s.id)]
           answered == [asked EXCEPT ![k].at = "answered", ![k].reply = reply]
           woken == [Idle EXCEPT !.at = "woken", !.for = for]
<1>0. IsEngine(e) /\ ReaderTyped(s, c, g) /\ k \in Calls
  BY DEF MayAsk
<1> USE <1>0
<1>1. ReaderTyped(t, asked, g) /\ ReaderInv(n, e, r, t, asked, g, m)
  BY AskKeeps
<1>2. asked[k] = Asked(for, s.id) /\ \A l \in Calls : l # k => asked[l] = c[l]
  BY DEF ReaderTyped
<1>3. asked[k].at = "asked" /\ asked[k].for = for /\ asked[k].id = s.id
  BY <1>2 DEF Asked
<1>4. t.ns = s.ns
  BY DEF Emptied
<1> HIDE DEF asked, t
<1>5. /\ IsEngine(f) /\ EngineInv(n, f) /\ EngineStep(e, f, {r})
      /\ ReaderTyped(t, answered, g) /\ ReaderInv(n, f, r, t, answered, g, m)
  BY <1>1, <1>3, <1>4, AnswerKeeps
<1>6. /\ answered[k].at = "answered" /\ answered[k].reply = reply /\ answered[k].for = for
      /\ \A l \in Calls : l # k => answered[l] = c[l]
  BY <1>1, <1>2, <1>3 DEF ReaderTyped, CallRecords
<1> HIDE DEF answered
<1>7. \A x : [answered EXCEPT ![k] = x] = [c EXCEPT ![k] = x]
  BY <1>5, <1>6 DEF ReaderTyped
<1>8. CASE reply.ok
  <2>1. LET u == Filled(t, answered[k].reply)
            d == [answered EXCEPT ![k] = [Idle EXCEPT !.at = "woken", !.for = answered[k].for]]
        IN  ReaderTyped(u, d, g) /\ ReaderInv(n, f, r, u, d, g, m)
    BY <1>5, <1>6, <1>8, ReceiveKeeps
  <2>2. /\ ReaderTyped(Filled(t, reply), [c EXCEPT ![k] = woken], g)
        /\ ReaderInv(n, f, r, Filled(t, reply), [c EXCEPT ![k] = woken], g, m)
    BY <1>6, <1>7, <2>1
  <2> QED BY <1>5, <1>8, <2>2 DEF t
<1>9. CASE ~reply.ok
  <2>1. /\ ReaderTyped(t, [answered EXCEPT ![k] = Idle], g)
        /\ ReaderInv(n, f, r, t, [answered EXCEPT ![k] = Idle], g, m)
    BY <1>5, <1>6, <1>9, EndKeeps
  <2> QED BY <1>5, <1>7, <1>9, <2>1 DEF t
<1> QED BY <1>8, <1>9

(* next() returns a document of the buffer. *)
LEMMA TakeKeeps ==
  ASSUME NEW n, NEW e, IsEngine(e), NEW r, NEW s, NEW c, NEW g, NEW m, ReaderTyped(s, c, g),
         ReaderInv(n, e, r, s, c, g, m), s.index < Len(s.buffer)
  PROVE  LET t == [s EXCEPT !.index = @ + 1]
             h == Append(g, s.buffer[s.index + 1])
         IN  ReaderTyped(t, c, h) /\ ReaderInv(n, e, r, t, c, h, m)
<1> DEFINE t == [s EXCEPT !.index = @ + 1]
           doc == s.buffer[s.index + 1]
           h == Append(g, doc)
<1>1. /\ s.index \in Nat /\ s.buffer \in Seq(Documents) /\ g \in Seq(Documents)
      /\ s.index + 1 \in DOMAIN s.buffer /\ doc \in Documents
  BY DEF ReaderTyped, Cursors
<1> HIDE DEF doc, h
<1>2. /\ t \in Cursors /\ t.ns = s.ns /\ t.started = s.started /\ t.id = s.id
      /\ t.buffer = s.buffer /\ t.index = s.index + 1
  <2>1. s \in Cursors
    BY DEF ReaderTyped
  <2>2. s.index + 1 \in Nat
    BY <1>1
  <2>3. t \in Cursors
    BY <2>1, <2>2 DEF Cursors
  <2>4. t.ns = s.ns /\ t.started = s.started /\ t.id = s.id /\ t.buffer = s.buffer
    BY <2>1 DEF Cursors
  <2>5. t.index = s.index + 1
    BY <2>1 DEF Cursors
  <2> QED BY <2>3, <2>4, <2>5
<1> HIDE DEF t
<1> USE DEF h
<1>3. /\ h \in Seq(Documents) /\ Len(h) = Len(g) + 1
      /\ DOMAIN h = 1 .. Len(g) + 1 /\ DOMAIN g = 1 .. Len(g) /\ Len(g) \in Nat
      /\ h[Len(g) + 1] = doc /\ \A i \in DOMAIN g : h[i] = g[i]
  BY <1>1
<1> HIDE DEF h
<1>4. s.buffer # <<>> /\ s.started
  BY <1>1 DEF ReaderInv, FreshInv
<1>5. FreshInv(e, r, t, c, h)
  BY <1>2, <1>4 DEF FreshInv
<1>6. CallsInv(c)
  BY DEF ReaderInv
<1>7. FindingInv(e, r, t, c, h)
  BY <1>2, <1>4 DEF ReaderInv, FindingInv
<1>8. EntryInv(e, r, t, c) /\ HeldInv(e, r, t, c, m)
  BY <1>2 DEF ReaderInv, EntryInv, HeldInv, Names
<1>9. NamespaceInv(n, r, t, c, h)
  BY <1>1, <1>2, <1>3 DEF ReaderInv, NamespaceInv, Among, doc
<1>10. ASSUME "replaced" \notin m
       PROVE  IdsInv(e, r, t, c) /\ OnceInv(e, r, t, c, h)
  <2>1. IdsInv(e, r, s, c) /\ OnceInv(e, r, s, c, g)
    BY <1>10 DEF ReaderInv
  <2>2. IdsInv(e, r, t, c)
    BY <1>2, <2>1 DEF IdsInv, Names
  <2>3. Own(h, e, r) /\ Own(t.buffer, e, r) /\ Ascending(t.buffer)
    BY <1>1, <1>2, <1>3, <2>1 DEF OnceInv, Own, doc
  <2>4. \A i \in DOMAIN g : g[i] # doc
    BY <1>1, <2>1 DEF OnceInv, Apart, doc
  <2>5. Distinct(h)
    BY <1>3, <2>1, <2>4 DEF OnceInv, Distinct
  <2>6. Apart(h, t.buffer, t.index)
    <3>1. \A j \in DOMAIN s.buffer : j > s.index + 1 => doc # s.buffer[j]
      <4>1. \A j \in DOMAIN s.buffer : j \in Nat /\ s.buffer[j][2] \in Nat
        BY <1>1 DEF Documents
      <4> QED BY <1>1, <2>1, <4>1 DEF OnceInv, Ascending, doc
    <3>2. \A i \in DOMAIN g, j \in DOMAIN s.buffer : j > s.index + 1 => g[i] # s.buffer[j]
      BY <1>1, <2>1 DEF OnceInv, Apart
    <3> QED BY <1>2, <1>3, <3>1, <3>2 DEF Apart
  <2>7. ASSUME NEW k \in Calls
        PROVE  /\ Own(c[k].reply.docs, e, r) /\ Ascending(c[k].reply.docs)
               /\ Apart(h, c[k].reply.docs, 0)
               /\ Apart(c[k].reply.docs, t.buffer, t.index)
               /\ \A l \in Calls : l # k => Apart(c[k].reply.docs, c[l].reply.docs, 0)
    <3>1. Apart(c[k].reply.docs, s.buffer, s.index)
      BY <2>1 DEF OnceInv
    <3>2. \A j \in DOMAIN c[k].reply.docs : c[k].reply.docs[j] # doc
      BY <1>1, <3>1 DEF Apart, doc
    <3>3. Apart(c[k].reply.docs, t.buffer, t.index)
      BY <1>1, <1>2, <3>1 DEF Apart
    <3>4. Apart(h, c[k].reply.docs, 0)
      BY <1>3, <2>1, <3>2 DEF OnceInv, Apart
    <3> QED BY <2>1, <3>3, <3>4 DEF OnceInv
  <2>8. OnceInv(e, r, t, c, h)
    BY <2>3, <2>5, <2>6, <2>7 DEF OnceInv
  <2> QED BY <2>2, <2>8
<1>11. ASSUME "overlap" \notin m
       PROVE  AloneInv(t, c)
  BY <1>2, <1>11 DEF ReaderInv, AloneInv
<1>12. ASSUME {"replaced", "overlap"} \cap m = {}
       PROVE  OrderInv(t, c, h)
  <2>1. OrderInv(s, c, g) /\ AloneInv(s, c) /\ Ascending(s.buffer)
    BY <1>12 DEF ReaderInv, OnceInv
  <2>2. \A i \in DOMAIN g : g[i][2] < doc[2]
    BY <1>1, <2>1 DEF OrderInv, Before, doc
  <2>3. Ascending(h)
    BY <1>3, <2>1, <2>2 DEF OrderInv, Ascending
  <2>4. Before(h, t.buffer, t.index)
    <3>1. \A j \in DOMAIN s.buffer : j > s.index + 1 => doc[2] < s.buffer[j][2]
      BY <1>1, <2>1 DEF Ascending, doc
    <3>2. \A i \in DOMAIN g, j \in DOMAIN s.buffer : j > s.index + 1 => g[i][2] < s.buffer[j][2]
      BY <1>1, <2>1 DEF OrderInv, Before
    <3> QED BY <1>2, <1>3, <3>1, <3>2 DEF Before
  <2>5. \A k \in Calls : c[k].reply = Refusal
    BY <1>4, <2>1 DEF ReaderInv, CallsInv, AloneInv, Busy
  <2> QED BY <2>3, <2>4, <2>5, IdleIs DEF OrderInv, Before
<1> QED BY <1>1, <1>2, <1>3, <1>5, <1>6, <1>7, <1>8, <1>9, <1>10, <1>11, <1>12
        DEF ReaderInv, ReaderTyped, t, h, doc

-----------------------------------------------------------------------------
(* The steps of the service.                                                *)

(* A reader in a state of the service. *)
LEMMA ReaderAt ==
  ASSUME CursorInv, NEW r \in Readers
  PROVE  /\ IsEngine(engine) /\ EngineInv(NamespaceOf, engine)
         /\ ReaderTyped(sdk[r], calls[r], got[r])
         /\ ReaderInv(NamespaceOf, engine, r, sdk[r], calls[r], got[r], mishaps[r])
         /\ sdk[r].id \in Ids /\ \A k \in Calls : calls[r][k].id \in Ids
         /\ sdk[r].batch \in Nat /\ sdk[r].ns \in Namespaces
         /\ mishaps[r] \subseteq Mishaps
         /\ state[r] = "unread" => ~sdk[r].started
BY DEF CursorInv, TypeOK, ReaderTyped, Cursors, CallRecords, Replies

(* What the engine may answer is an Answer. *)
LEMMA OutcomesAnswer ==
  ASSUME CursorInv, NEW r \in Readers, NEW for \in {"find", "getMore"}, NEW id \in Ids,
         NEW o \in Outcomes(r, for, id)
  PROVE  /\ Answer(engine, o.result.engine, r, sdk[r].ns, for, id, o.result.reply)
         /\ o.length \in Int
<1>1. length[r] \in Int /\ MaxLength \in Nat
  BY ReaderAssumption DEF CursorInv, TypeOK
<1>2. Answer(engine, engine, r, sdk[r].ns, for, id, Refusal)
  <2>1. Refusal \in Replies /\ ~Refusal.ok
    BY IdleIs DEF Refusal, Replies, Ids, Exhausted
  <2> QED BY <2>1, ReaderAt DEF Answer
<1>3. CASE for = "find"
  <2>1. CASE \E len \in 0 .. MaxLength :
               o = [result |-> Find(engine, Iterator(r, 1, len), sdk[r].ns, sdk[r].batch), length |-> len]
    <3>1. PICK len \in 0 .. MaxLength :
               o = [result |-> Find(engine, Iterator(r, 1, len), sdk[r].ns, sdk[r].batch), length |-> len]
      BY <2>1
    <3>2. o.result = Find(engine, Iterator(r, 1, len), sdk[r].ns, sdk[r].batch) /\ o.length = len
      BY <3>1
    <3>3. len \in Nat
      BY <1>1
    <3> DEFINE res == Find(engine, Iterator(r, 1, len), sdk[r].ns, sdk[r].batch)
    <3>4. Answer(engine, res.engine, r, sdk[r].ns, "find", id, res.reply)
      BY <3>3, ReaderAt, FindAnswers
    <3> QED BY <1>3, <3>2, <3>3, <3>4
  <2>2. CASE o = [result |-> [engine |-> engine, reply |-> Refusal], length |-> Unknown]
    BY <1>2, <2>2 DEF Unknown
  <2> QED BY <1>3, <2>1, <2>2 DEF Outcomes
<1>4. CASE for = "getMore"
  <2>1. o.result = GetMore(engine, id, sdk[r].ns, sdk[r].batch) /\ o.length = length[r]
    BY <1>4 DEF Outcomes
  <2> QED BY <1>1, <1>4, <2>1, ReaderAt, GetMoreAnswers
<1> QED BY <1>3, <1>4

(* A step of one reader, for which the engine may move on. *)
LEMMA ReaderMoves ==
  ASSUME CursorInv, NEW r \in Readers,
         NEW e, IsEngine(e), EngineInv(NamespaceOf, e), EngineStep(engine, e, {r}),
         NEW s, NEW c, NEW g, NEW m, NEW st \in States,
         ReaderTyped(s, c, g), ReaderInv(NamespaceOf, e, r, s, c, g, m),
         st = "unread" => ~s.started,
         engine' = e, sdk' = [sdk EXCEPT ![r] = s], calls' = [calls EXCEPT ![r] = c],
         got' = [got EXCEPT ![r] = g], mishaps' = [mishaps EXCEPT ![r] = m],
         mishaps' \in [Readers -> SUBSET Mishaps], state' = [state EXCEPT ![r] = st],
         length' \in [Readers -> Int], troubles' \in Nat
  PROVE  CursorInv'
<1>1. TypeOK'
  BY DEF CursorInv, TypeOK, ReaderTyped, Cursors, CallRecords, Replies
<1>2. \A q \in Readers : sdk'[q].ns = sdk[q].ns
  <2>1. s.ns = sdk[r].ns
    BY DEF ReaderInv, NamespaceInv, NamespaceOf
  <2> QED BY <2>1 DEF CursorInv, TypeOK
<1>3. NamespaceOf' = NamespaceOf
  BY <1>2 DEF NamespaceOf
<1>4. EngineInv(NamespaceOf, engine)'
  BY <1>3 DEF EngineInv
<1>5. ASSUME NEW q \in Readers
      PROVE  /\ ReaderInv(NamespaceOf, e, q, sdk'[q], calls'[q], got'[q], mishaps'[q])
             /\ state'[q] = "unread" => ~sdk'[q].started
  <2>1. CASE q = r
    BY <2>1 DEF CursorInv, TypeOK
  <2>2. CASE q # r
    <3>1. /\ sdk'[q] = sdk[q] /\ calls'[q] = calls[q] /\ got'[q] = got[q]
          /\ mishaps'[q] = mishaps[q] /\ state'[q] = state[q]
      BY <2>2 DEF CursorInv, TypeOK
    <3>2. ReaderInv(NamespaceOf, e, q, sdk[q], calls[q], got[q], mishaps[q])
      <4>1. q \notin {r}
        BY <2>2
      <4>2. /\ IsEngine(engine)
            /\ sdk[q] \in Cursors /\ calls[q] \in [Calls -> CallRecords] /\ got[q] \in Seq(Documents)
            /\ ReaderInv(NamespaceOf, engine, q, sdk[q], calls[q], got[q], mishaps[q])
        BY ReaderAt DEF ReaderTyped
      <4> QED BY <4>1, <4>2, OthersKeep
    <3> QED BY <3>1, <3>2, ReaderAt
  <2> QED BY <2>1, <2>2
<1> QED BY <1>1, <1>3, <1>4, <1>5 DEF CursorInv

(* One call of a reader is written. *)
LEMMA OneCall ==
  ASSUME TypeOK, NEW r \in Readers, NEW k \in Calls, NEW x
  PROVE  [calls EXCEPT ![r][k] = x] = [calls EXCEPT ![r] = [calls[r] EXCEPT ![k] = x]]
BY DEF TypeOK

(* A function is what it was with one value set to what it is. *)
LEMMA GotStays ==
  ASSUME TypeOK, NEW r \in Readers
  PROVE  /\ got = [got EXCEPT ![r] = got[r]]
         /\ sdk = [sdk EXCEPT ![r] = sdk[r]]
         /\ mishaps = [mishaps EXCEPT ![r] = mishaps[r]]
         /\ state = [state EXCEPT ![r] = state[r]]
BY DEF TypeOK

(* The engine has served an outcome. *)
LEMMA ServedIs ==
  ASSUME CursorInv, NEW r \in Readers, NEW o, o.length \in Int, Served(r, o)
  PROVE  engine' = o.result.engine /\ length' \in [Readers -> Int]
BY DEF Served, CursorInv, TypeOK

(* A reader in a state of the service may ask, having had more mishaps. *)
MayAskNow(r, k, m, for) ==
  MayAsk(NamespaceOf, engine, r, sdk[r], calls[r], got[r], m, k, for)

(* What a state of the service knows of a reader is what MayAsk asks for. *)
LEMMA MayAskAt ==
  ASSUME CursorInv, NEW r \in Readers, NEW k \in Calls, NEW m, mishaps[r] \subseteq m,
         ~Busy(calls[r][k]),
         "overlap" \in m \/ \A l \in Calls : l # k => calls[r][l] = Idle,
         NEW for,
         Due(for, sdk[r])
  PROVE  MayAskNow(r, k, m, for)
<1>1. /\ IsEngine(engine) /\ ReaderTyped(sdk[r], calls[r], got[r])
      /\ ReaderInv(NamespaceOf, engine, r, sdk[r], calls[r], got[r], mishaps[r])
  BY ReaderAt
<1>2. ReaderInv(NamespaceOf, engine, r, sdk[r], calls[r], got[r], m)
  BY <1>1, MishapsGrow
<1> DEFINE s == sdk[r]
           c == calls[r]
<1>3. /\ k \in Calls /\ ~Busy(c[k])
      /\ "overlap" \in m \/ \A l \in Calls : l # k => c[l] = Idle
      /\ Due(for, s)
  OBVIOUS
<1>4. /\ IsEngine(engine) /\ ReaderTyped(s, c, got[r])
      /\ ReaderInv(NamespaceOf, engine, r, s, c, got[r], m)
  BY <1>1, <1>2
<1> HIDE DEF s, c
<1>5. MayAsk(NamespaceOf, engine, r, s, c, got[r], m, k, for)
  BY <1>3, <1>4 DEF MayAsk
<1> QED BY <1>5 DEF MayAskNow, s, c

(* start() or fetchMore() in the engine's process and over HTTP. *)
LEMMA AskMoves ==
  ASSUME CursorInv, NEW r \in Readers, NEW k \in Calls, NEW m,
         mishaps[r] \subseteq m, ~Busy(calls[r][k]),
         "overlap" \in m \/ \A l \in Calls : l # k => calls[r][l] = Idle,
         NEW for,
         Due(for, sdk[r]),
         Ask(r, k, for), mishaps' = [mishaps EXCEPT ![r] = m],
         mishaps' \in [Readers -> SUBSET Mishaps], troubles' \in Nat
  PROVE  CursorInv'
<1> DEFINE s == sdk[r]
           c == calls[r]
           g == got[r]
           n == NamespaceOf
           t == Emptied(s)
           woken == [Idle EXCEPT !.at = "woken", !.for = for]
<1>1. /\ IsEngine(engine) /\ EngineInv(n, engine) /\ ReaderTyped(s, c, g)
      /\ ReaderInv(n, engine, r, s, c, g, m) /\ s.id \in Ids
  BY ReaderAt, MishapsGrow
<1>0. MayAsk(n, engine, r, s, c, g, m, k, for)
  BY MayAskAt DEF MayAskNow
<1>2. t.id = s.id
  BY DEF Emptied
<1>3. TypeOK /\ "reading" \in States /\ "failed" \in States
  BY DEF CursorInv, States
<1>4. CASE r \in Local
  <2>1. PICK o \in Outcomes(r, for, s.id) :
          /\ Served(r, o)
          /\ IF o.result.reply.ok
             THEN /\ sdk' = [sdk EXCEPT ![r] = Filled(t, o.result.reply)]
                  /\ calls' = [calls EXCEPT ![r][k] = woken]
                  /\ state' = [state EXCEPT ![r] = "reading"]
             ELSE /\ sdk' = [sdk EXCEPT ![r] = t]
                  /\ calls' = [calls EXCEPT ![r][k] = Idle]
                  /\ state' = [state EXCEPT ![r] = "failed"]
          /\ UNCHANGED got
    BY <1>2, <1>4 DEF Ask
  <2> DEFINE f == o.result.engine
             reply == o.result.reply
             u == IF reply.ok THEN Filled(t, reply) ELSE t
             d == [c EXCEPT ![k] = IF reply.ok THEN woken ELSE Idle]
             st == IF reply.ok THEN "reading" ELSE "failed"
  <2>2. Answer(engine, f, r, s.ns, for, s.id, reply) /\ o.length \in Int
    <3>1. for \in {"find", "getMore"}
      BY DEF Due
    <3> QED BY <1>1, <3>1, OutcomesAnswer
  <2>3. /\ IsEngine(f) /\ EngineInv(n, f) /\ EngineStep(engine, f, {r})
        /\ ReaderTyped(u, d, g) /\ ReaderInv(n, f, r, u, d, g, m)
    BY <1>0, <1>1, <2>2, AskLocallyKeeps
  <2>4. engine' = f /\ length' \in [Readers -> Int]
    BY <2>1, <2>2, ServedIs
  <2>5. /\ sdk' = [sdk EXCEPT ![r] = u] /\ calls' = [calls EXCEPT ![r] = d]
        /\ state' = [state EXCEPT ![r] = st] /\ got' = [got EXCEPT ![r] = g]
    BY <1>3, <2>1, OneCall, GotStays
  <2>6. st \in States /\ st # "unread"
    BY <1>3
  <2> HIDE DEF f, u, d, st, n
  <2> QED BY <2>3, <2>4, <2>5, <2>6, ReaderMoves DEF n
<1>5. CASE r \notin Local
  <2> DEFINE d == [c EXCEPT ![k] = Asked(for, s.id)]
  <2>1. /\ sdk' = [sdk EXCEPT ![r] = t] /\ calls' = [calls EXCEPT ![r] = d]
        /\ state' = [state EXCEPT ![r] = "reading"] /\ got' = [got EXCEPT ![r] = g]
        /\ engine' = engine /\ length' = length
    BY <1>2, <1>3, <1>5, OneCall, GotStays DEF Ask
  <2>2. ReaderTyped(t, d, g) /\ ReaderInv(n, engine, r, t, d, g, m)
    BY <1>0, AskKeeps
  <2>3. EngineStep(engine, engine, {r}) /\ length' \in [Readers -> Int]
    BY <1>1, <1>3, <2>1, EngineParts DEF EngineStep, Iterators, TypeOK
  <2>4. "reading" # "unread"
    OBVIOUS
  <2> HIDE DEF d, t, n
  <2> QED BY <1>1, <1>3, <2>1, <2>2, <2>3, <2>4, ReaderMoves DEF n
<1> QED BY <1>4, <1>5

(* The rest of next() from where the cursor has started. *)
LEMMA ProceedMoves ==
  ASSUME CursorInv, NEW r \in Readers, NEW k \in Calls, NEW m,
         mishaps[r] \subseteq m, ~Busy(calls[r][k]),
         "overlap" \in m \/ \A l \in Calls : l # k => calls[r][l] = Idle,
         NEW mayAsk \in BOOLEAN,
         Proceed(r, k, mayAsk), mishaps' = [mishaps EXCEPT ![r] = m],
         mishaps' \in [Readers -> SUBSET Mishaps], troubles' \in Nat
  PROVE  CursorInv'
<1> DEFINE s == sdk[r]
           c == calls[r]
           g == got[r]
           n == NamespaceOf
           d == [c EXCEPT ![k] = Idle]
<1>1. /\ IsEngine(engine) /\ EngineInv(n, engine) /\ ReaderTyped(s, c, g)
      /\ ReaderInv(n, engine, r, s, c, g, m) /\ s.id \in Ids
  BY ReaderAt, MishapsGrow
<1>2. ReaderTyped(s, d, g) /\ ReaderInv(n, engine, r, s, d, g, m)
  BY <1>1, EndKeeps DEF Busy
<1>3. /\ TypeOK /\ "reading" \in States /\ "ended" \in States
      /\ "reading" # "unread" /\ "ended" # "unread"
  BY DEF CursorInv, States
<1>4. EngineStep(engine, engine, {r})
  BY <1>1, EngineParts DEF EngineStep, Iterators
<1>5. CASE /\ s.index < Len(s.buffer)
           /\ got' = [got EXCEPT ![r] = Append(@, s.buffer[s.index + 1])]
           /\ sdk' = [sdk EXCEPT ![r].index = @ + 1]
           /\ calls' = [calls EXCEPT ![r][k] = Idle]
           /\ state' = [state EXCEPT ![r] = "reading"]
           /\ UNCHANGED <<engine, length>>
  <2> DEFINE t == [s EXCEPT !.index = @ + 1]
             h == Append(g, s.buffer[s.index + 1])
  <2>1. ReaderTyped(t, d, h) /\ ReaderInv(n, engine, r, t, d, h, m)
    BY <1>1, <1>2, <1>5, TakeKeeps
  <2>2. /\ sdk' = [sdk EXCEPT ![r] = t] /\ calls' = [calls EXCEPT ![r] = d]
        /\ state' = [state EXCEPT ![r] = "reading"] /\ got' = [got EXCEPT ![r] = h]
        /\ engine' = engine /\ length' \in [Readers -> Int]
    BY <1>3, <1>5, OneCall DEF TypeOK
  <2> HIDE DEF d, t, h, n
  <2> QED BY <1>1, <1>3, <1>4, <2>1, <2>2, ReaderMoves DEF n
<1>6. CASE s.id # Exhausted /\ Ask(r, k, "getMore")
  <2>1. s.started
    BY <1>1, <1>6 DEF ReaderInv, FreshInv
  <2>2. Due("getMore", s)
    BY <1>6, <2>1 DEF Due
  <2> QED BY <1>6, <2>2, AskMoves
<1>7. CASE /\ calls' = [calls EXCEPT ![r][k] = Idle]
           /\ state' = [state EXCEPT ![r] = "ended"]
           /\ UNCHANGED <<engine, sdk, length, got>>
  <2>1. /\ sdk' = [sdk EXCEPT ![r] = s] /\ calls' = [calls EXCEPT ![r] = d]
        /\ state' = [state EXCEPT ![r] = "ended"] /\ got' = [got EXCEPT ![r] = g]
        /\ engine' = engine /\ length' \in [Readers -> Int]
    BY <1>3, <1>7, OneCall, GotStays DEF TypeOK
  <2> HIDE DEF d, n
  <2> QED BY <1>1, <1>2, <1>3, <1>4, <2>1, ReaderMoves DEF n
<1> QED BY <1>5, <1>6, <1>7 DEF Proceed

-----------------------------------------------------------------------------
(* The actions.                                                             *)

(* A next() from its start. *)
LEMMA CallMoves ==
  ASSUME CursorInv, NEW r \in Readers, NEW k \in Calls, NEW m, mishaps[r] \subseteq m,
         calls[r][k] = Idle,
         "overlap" \in m \/ \A l \in Calls : l # k => calls[r][l] = Idle,
         Call(r, k), mishaps' = [mishaps EXCEPT ![r] = m],
         mishaps' \in [Readers -> SUBSET Mishaps], troubles' \in Nat
  PROVE  CursorInv'
<1>1. ~Busy(calls[r][k])
  BY IdleIs DEF Busy
<1>2. CASE sdk[r].started
  <2>1. Proceed(r, k, TRUE)
    BY <1>2 DEF Call
  <2> QED BY <1>1, <2>1, ProceedMoves
<1>3. CASE ~sdk[r].started
  <2>1. Ask(r, k, "find")
    BY <1>3 DEF Call
  <2>2. \A s : ~s.started => Due("find", s)
    BY DEF Due
  <2>3. Due("find", sdk[r])
    BY <1>3, <2>2
  <2> QED BY <1>1, <2>1, <2>3, AskMoves
<1> QED BY <1>2, <1>3

(* What a step that leaves mishaps and troubles alone keeps of them. *)
LEMMA MishapsStay ==
  ASSUME CursorInv, NEW r \in Readers, UNCHANGED <<mishaps, troubles>>
  PROVE  /\ mishaps' = [mishaps EXCEPT ![r] = mishaps[r]]
         /\ mishaps' \in [Readers -> SUBSET Mishaps] /\ troubles' \in Nat
BY DEF CursorInv, TypeOK

(* What a step knows that adds a mishap. *)
LEMMA MishapAdded ==
  ASSUME CursorInv, NEW r \in Readers, NEW x \in Mishaps,
         mishaps' = [mishaps EXCEPT ![r] = @ \cup {x}], Trouble
  PROVE  /\ mishaps' = [mishaps EXCEPT ![r] = mishaps[r] \cup {x}]
         /\ mishaps' \in [Readers -> SUBSET Mishaps] /\ troubles' \in Nat
BY DEF CursorInv, TypeOK, Trouble

(* The calls of a program that waits for each of them. *)
LEMMA NextCallKeeps ==
  ASSUME CursorInv, NEW r \in Readers, NEW k \in Calls, NextCall(r, k) \/ FirstCall(r, k)
  PROVE  CursorInv'
<1>1. /\ \A l \in Calls : calls[r][l] = Idle
      /\ Call(r, k) /\ UNCHANGED <<mishaps, troubles>>
  BY DEF NextCall, FirstCall, Quiet
<1> QED BY <1>1, MishapsStay, CallMoves

(* A call that does not wait is an overlap. *)
LEMMA OverlappingCallKeeps ==
  ASSUME CursorInv, NEW r \in Readers, NEW k \in Calls, OverlappingCall(r, k)
  PROVE  CursorInv'
<1>1. /\ calls[r][k] = Idle /\ Call(r, k) /\ Trouble
      /\ mishaps' = [mishaps EXCEPT ![r] = @ \cup {"overlap"}]
  BY DEF OverlappingCall
<1>2. "overlap" \in Mishaps
  BY DEF Mishaps
<1> DEFINE m == mishaps[r] \cup {"overlap"}
<1>3. mishaps[r] \subseteq m /\ "overlap" \in m
  OBVIOUS
<1>4. /\ mishaps' = [mishaps EXCEPT ![r] = m]
      /\ mishaps' \in [Readers -> SUBSET Mishaps] /\ troubles' \in Nat
  BY <1>1, <1>2, MishapAdded
<1> HIDE DEF m
<1> QED BY <1>1, <1>3, <1>4, CallMoves

(* Behind its await a call goes on where next() does. *)
LEMMA ResumeKeeps ==
  ASSUME CursorInv, NEW r \in Readers, NEW k \in Calls, Resume(r, k)
  PROVE  CursorInv'
<1>1. /\ calls[r][k].at = "woken" /\ UNCHANGED <<mishaps, troubles>>
      /\ Proceed(r, k, calls[r][k].for = "find")
  BY DEF Resume
<1>2. ~Busy(calls[r][k])
  BY <1>1 DEF Busy
<1>3. "overlap" \in mishaps[r] \/ \A l \in Calls : l # k => calls[r][l] = Idle
  BY <1>1, ReaderAt DEF ReaderInv, AloneInv
<1>4. PICK mayAsk \in BOOLEAN : Proceed(r, k, mayAsk)
  <2>1. (calls[r][k].for = "find") \in BOOLEAN
    OBVIOUS
  <2> QED BY <1>1, <2>1
<1> QED BY <1>1, <1>2, <1>3, <1>4, MishapsStay, ProceedMoves

(* A program that stops reading changes nothing else. *)
LEMMA LeaveKeeps ==
  ASSUME CursorInv, NEW r \in Readers, Leave(r)
  PROVE  CursorInv'
<1>1. /\ state' = [state EXCEPT ![r] = "left"]
      /\ UNCHANGED <<engine, sdk, calls, got, length, mishaps, troubles>>
  BY DEF Leave
<1>2. TypeOK /\ calls = [calls EXCEPT ![r] = calls[r]] /\ "left" \in States /\ "left" # "unread"
  BY DEF CursorInv, TypeOK, States
<1>3. EngineStep(engine, engine, {r})
  BY ReaderAt, EngineParts DEF EngineStep, Iterators
<1>4. length' \in [Readers -> Int]
  BY <1>1, <1>2 DEF TypeOK
<1>5. /\ engine' = engine /\ sdk' = [sdk EXCEPT ![r] = sdk[r]]
      /\ calls' = [calls EXCEPT ![r] = calls[r]] /\ got' = [got EXCEPT ![r] = got[r]]
      /\ state' = [state EXCEPT ![r] = "left"]
  BY <1>1, <1>2, GotStays
<1>6. /\ mishaps' = [mishaps EXCEPT ![r] = mishaps[r]]
      /\ mishaps' \in [Readers -> SUBSET Mishaps] /\ troubles' \in Nat
  BY <1>1, MishapsStay
<1>7. /\ IsEngine(engine) /\ EngineInv(NamespaceOf, engine)
      /\ ReaderTyped(sdk[r], calls[r], got[r])
      /\ ReaderInv(NamespaceOf, engine, r, sdk[r], calls[r], got[r], mishaps[r])
  BY ReaderAt
<1> QED BY <1>2, <1>3, <1>4, <1>5, <1>6, <1>7, ReaderMoves

(* The engine answers a request of the server. *)
LEMMA ServeKeeps ==
  ASSUME CursorInv, NEW r \in Readers, NEW k \in Calls, Serve(r, k)
  PROVE  CursorInv'
<1> DEFINE s == sdk[r]
           c == calls[r]
           g == got[r]
           n == NamespaceOf
<1>1. /\ IsEngine(engine) /\ EngineInv(n, engine) /\ ReaderTyped(s, c, g)
      /\ ReaderInv(n, engine, r, s, c, g, mishaps[r]) /\ c[k].id \in Ids
  BY ReaderAt
<1>2. c[k].at = "asked" /\ UNCHANGED <<sdk, state, got, mishaps, troubles>>
  BY DEF Serve
<1>3. c[k].for \in {"find", "getMore"}
  BY <1>1, <1>2 DEF ReaderInv, ReaderTyped, CallsInv, CallRecords, Busy
<1>4. PICK o \in Outcomes(r, c[k].for, c[k].id) :
        /\ Served(r, o)
        /\ calls' = [calls EXCEPT ![r][k].at = "answered", ![r][k].reply = o.result.reply]
  BY DEF Serve
<1> DEFINE f == o.result.engine
           reply == o.result.reply
           d == [c EXCEPT ![k].at = "answered", ![k].reply = reply]
<1>5. Answer(engine, f, r, s.ns, c[k].for, c[k].id, reply) /\ o.length \in Int
  BY <1>1, <1>3, OutcomesAnswer
<1>6. /\ IsEngine(f) /\ EngineInv(n, f) /\ EngineStep(engine, f, {r})
      /\ ReaderTyped(s, d, g) /\ ReaderInv(n, f, r, s, d, g, mishaps[r])
  BY <1>1, <1>2, <1>5, AnswerKeeps
<1>7. engine' = f /\ length' \in [Readers -> Int]
  BY <1>4, <1>5, ServedIs
<1>8. TypeOK
  BY DEF CursorInv
<1>9. calls' = [calls EXCEPT ![r] = d]
  BY <1>4, <1>8 DEF TypeOK
<1>10. /\ sdk' = [sdk EXCEPT ![r] = s] /\ got' = [got EXCEPT ![r] = g]
       /\ state' = [state EXCEPT ![r] = state[r]]
       /\ state[r] \in States /\ (state[r] = "unread" => ~s.started)
  BY <1>2, <1>8, GotStays, ReaderAt DEF TypeOK
<1>11. /\ mishaps' = [mishaps EXCEPT ![r] = mishaps[r]]
       /\ mishaps' \in [Readers -> SUBSET Mishaps] /\ troubles' \in Nat
  BY <1>2, MishapsStay
<1> HIDE DEF f, d, n
<1> QED BY <1>6, <1>7, <1>9, <1>10, <1>11, ReaderMoves DEF n

(* The answer arrives: documents, or the error that ends the call. *)
LEMMA ReceiveMoves ==
  ASSUME CursorInv, NEW r \in Readers, NEW k \in Calls, Receive(r, k)
  PROVE  CursorInv'
<1> DEFINE s == sdk[r]
           c == calls[r]
           g == got[r]
           n == NamespaceOf
           woken == [Idle EXCEPT !.at = "woken", !.for = c[k].for]
<1>1. /\ IsEngine(engine) /\ EngineInv(n, engine) /\ ReaderTyped(s, c, g)
      /\ ReaderInv(n, engine, r, s, c, g, mishaps[r])
  BY ReaderAt
<1>2. c[k].at = "answered" /\ UNCHANGED <<engine, got, length, mishaps, troubles>>
  BY DEF Receive
<1>3. TypeOK /\ "failed" \in States /\ "failed" # "unread"
  BY DEF CursorInv, States
<1>4. EngineStep(engine, engine, {r})
  BY <1>1, EngineParts DEF EngineStep, Iterators
<1>5. /\ mishaps' = [mishaps EXCEPT ![r] = mishaps[r]]
      /\ mishaps' \in [Readers -> SUBSET Mishaps] /\ troubles' \in Nat
  BY <1>2, MishapsStay
<1>6. engine' = engine /\ length' \in [Readers -> Int] /\ got' = [got EXCEPT ![r] = g]
  BY <1>2, <1>3, GotStays DEF TypeOK
<1>7. CASE c[k].reply.ok
  <2> DEFINE t == Filled(s, c[k].reply)
             d == [c EXCEPT ![k] = woken]
  <2>1. ReaderTyped(t, d, g) /\ ReaderInv(n, engine, r, t, d, g, mishaps[r])
    BY <1>1, <1>2, <1>7, ReceiveKeeps
  <2>2. sdk' = [sdk EXCEPT ![r] = t] /\ calls' = [calls EXCEPT ![r] = d] /\ state' = state
    BY <1>3, <1>7, OneCall DEF Receive
  <2>3. s.started
    BY <1>1, <1>2, IdleIs DEF ReaderInv, FreshInv
  <2>4. t.started = s.started
    BY DEF Filled
  <2>5. /\ state' = [state EXCEPT ![r] = state[r]] /\ state[r] \in States
        /\ state[r] = "unread" => ~t.started
    BY <1>3, <2>2, <2>3, <2>4, GotStays, ReaderAt DEF TypeOK
  <2> HIDE DEF t, d, n
  <2> QED BY <1>1, <1>4, <1>5, <1>6, <2>1, <2>2, <2>5, ReaderMoves DEF n
<1>8. CASE ~c[k].reply.ok
  <2> DEFINE d == [c EXCEPT ![k] = Idle]
  <2>1. ReaderTyped(s, d, g) /\ ReaderInv(n, engine, r, s, d, g, mishaps[r])
    BY <1>1, <1>8, EndKeeps
  <2>2. /\ sdk' = [sdk EXCEPT ![r] = s] /\ calls' = [calls EXCEPT ![r] = d]
        /\ state' = [state EXCEPT ![r] = "failed"]
    BY <1>3, <1>8, OneCall, GotStays DEF Receive
  <2> HIDE DEF d, n
  <2> QED BY <1>1, <1>3, <1>4, <1>5, <1>6, <2>1, <2>2, ReaderMoves DEF n
<1> QED BY <1>7, <1>8

(* A lost request or answer ends the call, and its documents with it. *)
LEMMA LoseKeeps ==
  ASSUME CursorInv, NEW r \in Readers, NEW k \in Calls, Lose(r, k)
  PROVE  CursorInv'
<1> DEFINE s == sdk[r]
           c == calls[r]
           g == got[r]
           n == NamespaceOf
           d == [c EXCEPT ![k] = Idle]
           m == mishaps[r] \cup {"lost"}
<1>1. /\ calls' = [calls EXCEPT ![r][k] = Idle] /\ state' = [state EXCEPT ![r] = "failed"]
      /\ UNCHANGED <<engine, sdk, got, length>>
  BY DEF Lose
<1>2. TypeOK /\ "failed" \in States /\ "failed" # "unread"
  BY DEF CursorInv, States
<1>3. /\ mishaps' = [mishaps EXCEPT ![r] = m]
      /\ mishaps' \in [Readers -> SUBSET Mishaps] /\ troubles' \in Nat
  <2>1. mishaps' = [mishaps EXCEPT ![r] = @ \cup {"lost"}] /\ Trouble
    BY DEF Lose
  <2>2. "lost" \in Mishaps
    BY DEF Mishaps
  <2> QED BY <2>1, <2>2, MishapAdded
<1>4. /\ IsEngine(engine) /\ EngineInv(n, engine) /\ ReaderTyped(s, c, g)
      /\ ReaderInv(n, engine, r, s, c, g, mishaps[r])
  BY ReaderAt
<1>5. ReaderInv(n, engine, r, s, c, g, m)
  <2>1. mishaps[r] \subseteq m
    OBVIOUS
  <2> HIDE DEF s, c, g, n, m
  <2> QED BY <1>4, <2>1, MishapsGrow
<1>6. ReaderTyped(s, d, g) /\ ReaderInv(n, engine, r, s, d, g, m)
  BY <1>4, <1>5, EndKeeps
<1>7. EngineStep(engine, engine, {r})
  BY <1>4, EngineParts DEF EngineStep, Iterators
<1>8. /\ engine' = engine /\ length' \in [Readers -> Int] /\ got' = [got EXCEPT ![r] = g]
      /\ sdk' = [sdk EXCEPT ![r] = s] /\ calls' = [calls EXCEPT ![r] = d]
      /\ state' = [state EXCEPT ![r] = "failed"]
  BY <1>1, <1>2, OneCall, GotStays DEF TypeOK
<1> HIDE DEF d, n, m
<1> QED BY <1>2, <1>3, <1>4, <1>6, <1>7, <1>8, ReaderMoves DEF n

(* A step of the engine that leaves the readers alone. *)
LEMMA EngineMoves ==
  ASSUME CursorInv, NEW e, IsEngine(e), EngineStep(engine, e, {}),
         engine' = e, UNCHANGED <<sdk, calls, state, got, mishaps>>,
         length' \in [Readers -> Int], troubles' \in Nat
  PROVE  CursorInv'
<1>1. EngineInv(NamespaceOf, e)
  BY DEF CursorInv, EngineInv, EngineStep
<1>2. TypeOK'
  BY DEF CursorInv, TypeOK
<1>3. NamespaceOf' = NamespaceOf
  BY DEF NamespaceOf
<1>4. ASSUME NEW r \in Readers
      PROVE  ReaderInv(NamespaceOf, e, r, sdk[r], calls[r], got[r], mishaps[r])
  BY ReaderAt, OthersKeep DEF ReaderTyped
<1> QED BY <1>1, <1>2, <1>3, <1>4 DEF CursorInv, EngineInv

(* A killed cursor is an entry less. *)
LEMMA KillKeeps ==
  ASSUME CursorInv, NEW i, Kill(i)
  PROVE  CursorInv'
<1> DEFINE f == Without(engine, {i})
<1>1. /\ engine' = f /\ Trouble /\ UNCHANGED <<sdk, calls, state, got, length, mishaps>>
  BY DEF Kill, KillCursors
<1>2. IsEngine(engine) /\ length \in [Readers -> Int] /\ troubles \in Nat
  BY DEF CursorInv, TypeOK
<1>3. /\ IsEngine(f) /\ f.nextId = engine.nextId
      /\ DOMAIN f.open = DOMAIN engine.open \ {i}
      /\ \A j \in DOMAIN f.open : f.open[j] = engine.open[j]
  BY <1>2, WithoutIs
<1> HIDE DEF f
<1>4. EngineStep(engine, f, {})
  BY <1>2, <1>3, EngineParts DEF EngineStep, Iterators
<1> QED BY <1>1, <1>2, <1>3, <1>4, EngineMoves DEF Trouble

(* A deletion takes from the end of an iterator. *)
LEMMA ShrinkKeeps ==
  ASSUME CursorInv, NEW i, Shrink(i)
  PROVE  CursorInv'
<1> DEFINE old == engine.open[i].iter
           it == [old EXCEPT !.end = @ - 1]
           f == [engine EXCEPT !.open[i].iter = it]
<1>1. /\ i \in DOMAIN engine.open /\ HasNext(old)
      /\ engine' = [engine EXCEPT !.open[i].iter.end = @ - 1]
      /\ length' = [length EXCEPT ![old.of] = @ - 1]
      /\ Trouble /\ UNCHANGED <<sdk, calls, state, got, mishaps>>
  BY DEF Shrink
<1>2. IsEngine(engine) /\ length \in [Readers -> Int] /\ troubles \in Nat
  BY DEF CursorInv, TypeOK
<1>3. old \in Iterators
  BY <1>1, <1>2, EngineParts
<1>4. it \in Iterators /\ it.of = old.of /\ it.at = old.at /\ it.at <= it.end + 1
  BY <1>1, <1>3 DEF HasNext, Iterators
<1>5. engine' = f
  BY <1>1, <1>2, EngineParts
<1> HIDE DEF it
<1>6. /\ IsEngine(f) /\ f.nextId = engine.nextId
      /\ DOMAIN f.open = DOMAIN engine.open
      /\ \A j \in DOMAIN engine.open : j # i => f.open[j] = engine.open[j]
      /\ f.open[i].ns = engine.open[i].ns /\ f.open[i].iter = it
  BY <1>1, <1>2, <1>4, ChangedIs
<1> HIDE DEF f
<1>7. EngineStep(engine, f, {})
  BY <1>1, <1>2, <1>4, <1>6, EngineParts DEF EngineStep, Iterators
<1>8. length' \in [Readers -> Int]
  BY <1>1, <1>2, <1>3 DEF Iterators
<1> QED BY <1>1, <1>2, <1>5, <1>6, <1>7, <1>8, EngineMoves DEF Trouble

(* A new engine, which no reader or every reader that was started knows of. *)
LEMMA NewEngineIs ==
  ASSUME NEW config \in Configs \cup {FromEnvironment}
  PROVE  LET e == NewEngine(config)
         IN  /\ IsEngine(e) /\ e.config = config /\ e.nextId = FirstId
             /\ DOMAIN e.open = {}
BY DEF NewEngine, IsEngine, NoCursors, FirstId, Exhausted

(* With a new engine every reader that was started has the mishap. *)
LEMMA ReplacementKeeps ==
  ASSUME CursorInv, NEW config \in Configs \cup {FromEnvironment},
         engine' = NewEngine(config), Replaced, Trouble,
         calls' \in [Readers -> [Calls -> CallRecords]],
         \A r \in Readers, k \in Calls : calls'[r][k] = calls[r][k] \/ calls'[r][k] = Idle,
         state' \in [Readers -> States],
         \A r \in Readers : state'[r] = "unread" => state[r] = "unread",
         UNCHANGED <<sdk, got, length>>
  PROVE  CursorInv'
<1> DEFINE f == NewEngine(config)
<1>1. IsEngine(f) /\ f.nextId = FirstId /\ DOMAIN f.open = {}
  BY NewEngineIs
<1>2. engine' = f
  OBVIOUS
<1> HIDE DEF f
<1>3. \A r \in Readers :
        \/ mishaps'[r] = mishaps[r] /\ ~sdk[r].started
        \/ mishaps'[r] = mishaps[r] \cup {"replaced"}
  BY ReaderAt DEF Replaced
<1>4. mishaps' \in [Readers -> SUBSET Mishaps]
  BY ReaderAt DEF Replaced, Mishaps
<1>5. TypeOK'
  <2>1. IsEngine(engine')
    BY <1>1, <1>2
  <2>2. troubles' \in Nat /\ UNCHANGED <<sdk, got, length>>
    BY DEF Trouble, CursorInv, TypeOK
  <2> QED BY <1>4, <2>1, <2>2 DEF CursorInv, TypeOK, IsEngine, CallRecords, Replies
<1>6. NamespaceOf' = NamespaceOf
  BY DEF NamespaceOf
<1>7. EngineInv(NamespaceOf, f)
  BY <1>1 DEF EngineInv
<1>8. ASSUME NEW r \in Readers
      PROVE  ReaderInv(NamespaceOf, f, r, sdk[r], calls'[r], got[r], mishaps'[r])
  <2>1. calls'[r] \in [Calls -> CallRecords]
    OBVIOUS
  <2>2. \A k \in Calls : calls'[r][k] = calls[r][k] \/ calls'[r][k] = Idle
    OBVIOUS
  <2>3. \/ ~sdk[r].started /\ mishaps[r] = mishaps'[r]
        \/ mishaps'[r] = mishaps[r] \cup {"replaced"}
    BY <1>3
  <2>4. /\ ReaderTyped(sdk[r], calls[r], got[r])
        /\ ReaderInv(NamespaceOf, engine, r, sdk[r], calls[r], got[r], mishaps[r])
    BY ReaderAt
  <2> QED BY <1>1, <2>1, <2>2, <2>3, <2>4, ReplacedKeeps
<1> QED BY <1>2, <1>5, <1>6, <1>7, <1>8 DEF CursorInv, EngineInv

(* Another configuration replaces the engine. *)
LEMMA ConstructKeeps ==
  ASSUME CursorInv, NEW config \in Configs, Construct(config)
  PROVE  CursorInv'
<1>1. /\ engine' = NewEngine(config) /\ Replaced /\ Trouble
      /\ UNCHANGED <<sdk, calls, state, got, length>>
  BY DEF Construct, Configure
<1>2. calls \in [Readers -> [Calls -> CallRecords]] /\ state \in [Readers -> States]
  BY DEF CursorInv, TypeOK, CallRecords, Replies
<1> QED BY <1>1, <1>2, ReplacementKeeps

(* A restart replaces the engine and ends the calls of its process. *)
LEMMA RestartKeeps ==
  ASSUME CursorInv, Restart
  PROVE  CursorInv'
<1>1. /\ engine' = NewEngine(FromEnvironment) /\ Replaced /\ Trouble
      /\ calls' = [r \in Readers |-> IF r \in Local THEN [k \in Calls |-> Idle] ELSE calls[r]]
      /\ state' = [r \in Readers |-> IF r \in Local THEN "left" ELSE state[r]]
      /\ UNCHANGED <<sdk, got, length>>
  BY DEF Restart
<1>2. calls \in [Readers -> [Calls -> CallRecords]] /\ state \in [Readers -> States]
  BY DEF CursorInv, TypeOK, CallRecords, Replies
<1>3. Idle \in CallRecords /\ "left" \in States /\ "left" # "unread"
  BY IdleIs DEF States
<1>4. /\ calls' \in [Readers -> [Calls -> CallRecords]]
      /\ \A r \in Readers, k \in Calls : calls'[r][k] = calls[r][k] \/ calls'[r][k] = Idle
  BY <1>1, <1>2, <1>3
<1>5. /\ state' \in [Readers -> States]
      /\ \A r \in Readers : state'[r] = "unread" => state[r] = "unread"
  BY <1>1, <1>2, <1>3
<1> QED BY <1>1, <1>4, <1>5, ReplacementKeeps

-----------------------------------------------------------------------------
(* The theorems.                                                            *)

(* No reader was started and nothing is registered. *)
LEMMA CursorInvInit ==
  ASSUME Init
  PROVE  CursorInv
<1>1. PICK setup \in Setups : sdk = [r \in Readers |-> Fresh(setup[r])]
  BY DEF Init
<1>2. /\ engine = NewEngine(FromEnvironment)
      /\ calls = [r \in Readers |-> [k \in Calls |-> Idle]]
      /\ state = [r \in Readers |-> "unread"]
      /\ got = [r \in Readers |-> <<>>] /\ length = [r \in Readers |-> Unknown]
      /\ mishaps = [r \in Readers |-> {}] /\ troubles = 0
  BY DEF Init
<1>3. /\ IsEngine(engine) /\ engine.nextId = FirstId /\ DOMAIN engine.open = {}
  BY <1>2, NewEngineIs
<1>4. ASSUME NEW r \in Readers
      PROVE  /\ sdk[r] \in Cursors /\ sdk[r].started = FALSE /\ sdk[r].id = Exhausted
             /\ sdk[r].buffer = <<>> /\ sdk[r].index = 0
  <2>1. setup[r] \in [ns : Namespaces, batch : Nat]
    BY ReaderAssumption
  <2>2. <<>> \in Seq(Documents)
    OBVIOUS
  <2> QED BY <1>1, <2>1, <2>2 DEF Fresh, Cursors, Ids, Exhausted
<1>5. TypeOK
  <2>1. sdk \in [Readers -> Cursors]
    BY <1>1, <1>4
  <2>2. calls \in [Readers -> [Calls -> CallRecords]]
    BY <1>2, IdleIs
  <2>3. <<>> \in Seq(Documents) /\ Unknown \in Int
    BY DEF Unknown
  <2> QED BY <1>2, <1>3, <2>1, <2>2, <2>3
          DEF TypeOK, Cursors, CallRecords, Replies, States
<1>6. EngineInv(NamespaceOf, engine)
  BY <1>3 DEF EngineInv
<1>7. ASSUME NEW r \in Readers
      PROVE  ReaderInv(NamespaceOf, engine, r, sdk[r], calls[r], got[r], mishaps[r])
  <2> DEFINE s == sdk[r]
             c == calls[r]
             g == got[r]
             n == NamespaceOf
  <2>1. /\ s.id = Exhausted /\ s.buffer = <<>> /\ s.ns = n[r]
        /\ g = <<>> /\ mishaps[r] = {} /\ \A k \in Calls : c[k] = Idle
    BY <1>2, <1>4 DEF NamespaceOf
  <2>2. Entries(engine, r) = {}
    BY <1>3 DEF Entries
  <2>3. \A i : Names(s, c, i) => i = Exhausted
    BY <2>1, IdleIs DEF Names
  <2> HIDE DEF s, c, g, n
  <2>4. FreshInv(engine, r, s, c, g) /\ CallsInv(c) /\ FindingInv(engine, r, s, c, g)
    BY <2>1, <2>2, IdleIs DEF FreshInv, CallsInv, FindingInv, Busy
  <2>5. EntryInv(engine, r, s, c) /\ HeldInv(engine, r, s, c, mishaps[r])
    BY <2>2 DEF EntryInv, HeldInv
  <2>6. NamespaceInv(n, r, s, c, g)
    BY <2>1, IdleIs DEF NamespaceInv, Among
  <2>7. IdsInv(engine, r, s, c)
    BY <1>3, <2>3 DEF IdsInv, FirstId, Exhausted
  <2>8. OnceInv(engine, r, s, c, g)
    BY <2>1, IdleIs DEF OnceInv, Own, Ascending, Distinct, Apart
  <2>9. AloneInv(s, c) /\ OrderInv(s, c, g)
    BY <2>1, IdleIs DEF AloneInv, OrderInv, Ascending, Before, Busy
  <2> QED BY <2>4, <2>5, <2>6, <2>7, <2>8, <2>9 DEF ReaderInv, s, c, g, n
<1> QED BY <1>4, <1>5, <1>6, <1>7 DEF CursorInv

(* One step per action. *)
LEMMA CursorInvNext ==
  ASSUME CursorInv, [Next]_vars
  PROVE  CursorInv'
<1>1. ASSUME NEW r \in Readers, NEW k \in Calls,
             \/ NextCall(r, k) \/ FirstCall(r, k) \/ OverlappingCall(r, k) \/ Resume(r, k)
             \/ Serve(r, k) \/ Receive(r, k) \/ Lose(r, k)
      PROVE  CursorInv'
  BY <1>1, NextCallKeeps, OverlappingCallKeeps, ResumeKeeps, ServeKeeps, ReceiveMoves, LoseKeeps
<1>2. ASSUME NEW r \in Readers, Leave(r)
      PROVE  CursorInv'
  BY <1>2, LeaveKeeps
<1>3. ASSUME NEW i \in DOMAIN engine.open, Kill(i) \/ Shrink(i)
      PROVE  CursorInv'
  BY <1>3, KillKeeps, ShrinkKeeps
<1>4. ASSUME NEW config \in Configs, Construct(config)
      PROVE  CursorInv'
  BY <1>4, ConstructKeeps
<1>5. CASE Restart
  BY <1>5, RestartKeeps
<1>6. CASE UNCHANGED vars
  <2>1. UNCHANGED <<engine, sdk, calls, state, got, length, mishaps, troubles>>
    BY <1>6 DEF vars
  <2> QED BY <2>1 DEF CursorInv, TypeOK, NamespaceOf, EngineInv
<1> QED BY <1>1, <1>2, <1>3, <1>4, <1>5, <1>6 DEF Next

(* The inductive invariant holds in every state of the service, whatever the *)
(* readers, their results and batch sizes, and however many mishaps there are. *)
THEOREM CursorInvariantHolds == Spec => []CursorInv
<1>1. Init => CursorInv
  BY CursorInvInit
<1>2. CursorInv /\ [Next]_vars => CursorInv'
  BY CursorInvNext
<1> QED BY <1>1, <1>2, PTL DEF Spec

(* The variables keep the shape the code gives them; the engine's cursors    *)
(* have ids that were handed out, and none was read past its end.            *)
THEOREM CursorTypeCorrect == Spec => []TypeOK
<1>1. CursorInv => TypeOK
  BY DEF CursorInv
<1> QED BY <1>1, CursorInvariantHolds, PTL

(* A reader gets documents of its own namespace only, also with the id of an *)
(* engine that was replaced: getMore's borrow() compares the namespace, and  *)
(* every registered iterator belongs to a reader of its entry's namespace.   *)
THEOREM ReadersKeepTheirNamespace == Spec => []OwnNamespace
<1>1. CursorInv => OwnNamespace
  <2>1. SUFFICES ASSUME CursorInv, NEW r \in Readers, NEW i \in DOMAIN got[r]
                 PROVE  sdk[got[r][i][1]].ns = sdk[r].ns
    BY DEF OwnNamespace
  <2>2. NamespaceOf[got[r][i][1]] = NamespaceOf[r]
    BY <2>1, ReaderAt DEF ReaderInv, NamespaceInv, Among
  <2>3. got[r][i][1] \in Readers
    BY <2>1, ReaderAt DEF ReaderTyped, Documents
  <2> QED BY <2>1, <2>2, <2>3 DEF NamespaceOf
<1> QED BY <1>1, CursorInvariantHolds, PTL

(* Until its engine is replaced a reader gets documents of its own result,   *)
(* each once, and in order while its next() calls do not overlap: a document *)
(* is in the iterator, in one answer under way, ahead in the buffer or got,  *)
(* and never in two of these places.                                         *)
THEOREM DocumentsComeOnce == Spec => []OwnDocumentsOnce
<1>1. CursorInv => OwnDocumentsOnce
  <2>1. SUFFICES ASSUME CursorInv, NEW r \in Readers, "replaced" \notin mishaps[r],
                        NEW i \in DOMAIN got[r], NEW j \in DOMAIN got[r]
                 PROVE  /\ got[r][i][1] = r
                        /\ got[r][i] = got[r][j] => i = j
                        /\ "overlap" \notin mishaps[r] /\ i < j => got[r][i][2] < got[r][j][2]
    BY DEF OwnDocumentsOnce
  <2>2. ReaderInv(NamespaceOf, engine, r, sdk[r], calls[r], got[r], mishaps[r])
    BY <2>1, ReaderAt
  <2>3. got[r][i][1] = r /\ (got[r][i] = got[r][j] => i = j)
    BY <2>1, <2>2 DEF ReaderInv, OnceInv, Own, Distinct
  <2>4. ASSUME "overlap" \notin mishaps[r], i < j
        PROVE  got[r][i][2] < got[r][j][2]
    BY <2>1, <2>2, <2>4 DEF ReaderInv, OrderInv, Ascending
  <2> QED BY <2>3, <2>4
<1> QED BY <1>1, CursorInvariantHolds, PTL

(* The registry holds no cursor whose reader neither has its id nor is about *)
(* to get it, save after a lost answer: find registers only what has more,   *)
(* and getMore erases the entry in the step that returns the last batch.     *)
THEOREM NoForgottenCursor == Spec => []EntriesAreHeld
<1>1. CursorInv => EntriesAreHeld
  <2>1. SUFFICES ASSUME CursorInv, NEW i \in DOMAIN engine.open
                 PROVE  LET r == engine.open[i].iter.of
                        IN  \/ sdk[r].id = i
                            \/ \E k \in Calls : calls[r][k].at = "answered" /\ calls[r][k].reply.id = i
                            \/ "lost" \in mishaps[r]
    BY DEF EntriesAreHeld
  <2> DEFINE r == engine.open[i].iter.of
  <2>2. r \in Readers /\ i \in Entries(engine, r)
    BY <2>1, EngineParts DEF CursorInv, TypeOK, Entries, Iterators
  <2>3. ReaderInv(NamespaceOf, engine, r, sdk[r], calls[r], got[r], mishaps[r])
    BY <2>1, <2>2, ReaderAt
  <2> HIDE DEF r
  <2>4. HeldInv(engine, r, sdk[r], calls[r], mishaps[r])
    BY <2>3 DEF ReaderInv
  <2> QED BY <2>2, <2>4 DEF HeldInv, r
<1> QED BY <1>1, CursorInvariantHolds, PTL
-----------------------------------------------------------------------------
(* Null means all.  A reader that had no mishap is given its result piece   *)
(* by piece: what it got, what its buffer has ahead, an answer under way    *)
(* and what the registered iterator has left are the documents 1 .. length. *)

Behind(docs, r, from) == \A j \in DOMAIN docs : docs[j] = <<r, from + j>>

(* n documents are the whole result; a find that the engine refused has none. *)
Complete(n, len) == n = len \/ (n = 0 /\ len = Unknown)

(* Behind n documents comes what the iterator has left, or nothing.         *)
RestInv(e, r, id, n, len) ==
  /\ \A i \in Entries(e, r) : e.open[i].iter.at = n + 1 /\ e.open[i].iter.end = len
  /\ id = Exhausted => Complete(n, len)

IsFind(call) == call.at = "asked" /\ call.for = "find"
Brings(call) == call.at = "answered" /\ call.reply.ok

WholeInv(e, r, s, c, g, len) ==
  /\ Behind(g, r, 0)
  /\ s.index <= Len(s.buffer) /\ Behind(s.buffer, r, Len(g) - s.index)
  /\ s.started /\ (\A k \in Calls : ~IsFind(c[k]) /\ ~Brings(c[k])) =>
       RestInv(e, r, s.id, Len(g) + Len(s.buffer) - s.index, len)
  /\ \A k \in Calls : Brings(c[k]) =>
       /\ Behind(c[k].reply.docs, r, Len(g))
       /\ RestInv(e, r, c[k].reply.id, Len(g) + Len(c[k].reply.docs), len)
       /\ c[k].reply.id # Exhausted => c[k].reply.docs # <<>>
  /\ \A k \in Calls : c[k].at = "woken" /\ s.id # Exhausted => s.index < Len(s.buffer)

EndedInv(s, c, st) ==
  st = "ended" =>
    /\ s.started /\ s.id = Exhausted /\ s.index = Len(s.buffer)
    /\ \A k \in Calls : c[k] = Idle

(* The readers that NullMeansAll is about. *)
Calm(r) == mishaps[r] = {} /\ ~StaleIds(sdk[r].ns) /\ sdk[r].batch > 0

ResultOf(r) ==
  /\ WholeInv(engine, r, sdk[r], calls[r], got[r], length[r])
  /\ EndedInv(sdk[r], calls[r], state[r])

ResultInv == \A r \in Readers : Calm(r) => ResultOf(r)

(* A batch is what comes next, and all of it if nothing is left. *)
LEMMA BatchIsNext ==
  ASSUME NEW it \in Iterators, it.at <= it.end + 1, NEW batch \in Nat
  PROVE  LET docs == Batch(it, batch)
             rest == Drained(it, batch)
         IN  /\ Len(docs) \in Nat /\ Behind(docs, it.of, it.at - 1)
             /\ rest.of = it.of /\ rest.at = it.at + Len(docs) /\ rest.end = it.end
             /\ batch > 0 /\ HasNext(rest) => docs # <<>>
             /\ ~HasNext(rest) => Len(docs) = it.end - it.at + 1
<1> DEFINE n == BatchLength(it, batch)
           docs == Batch(it, batch)
           rest == Drained(it, batch)
<1>1. /\ n \in Nat /\ n <= it.end - it.at + 1
      /\ n = batch \/ n = it.end - it.at + 1
  BY DEF BatchLength, Least, Iterators
<1>2. docs = [i \in 1 .. n |-> <<it.of, it.at + i - 1>>]
  BY DEF Batch
<1>3. rest = [of |-> it.of, at |-> it.at + n, end |-> it.end]
  BY <1>1 DEF Drained, Iterators
<1> HIDE DEF n, docs, rest
<1>4. DOMAIN docs = 1 .. n /\ Len(docs) = n
  <2>1. docs \in Seq(Documents)
    BY BatchIs DEF docs
  <2>2. DOMAIN docs = 1 .. n
    BY <1>2
  <2> QED BY <1>1, <2>1, <2>2
<1>5. Behind(docs, it.of, it.at - 1)
  BY <1>1, <1>2, <1>4 DEF Behind, Iterators
<1>6. batch > 0 /\ HasNext(rest) => n > 0
  BY <1>1, <1>3 DEF HasNext, Iterators
<1>7. n > 0 => docs # <<>>
  BY <1>1, <1>4
<1>8. ~HasNext(rest) => n = it.end - it.at + 1
  BY <1>1, <1>3 DEF HasNext, Iterators
<1> QED BY <1>1, <1>3, <1>4, <1>5, <1>6, <1>7, <1>8 DEF docs, rest

(* The first batch of a result. *)
LEMMA FindIsWhole ==
  ASSUME NEW e, IsEngine(e), NEW r \in Readers, Entries(e, r) = {}, NEW len \in Nat,
         NEW ns \in Namespaces, NEW batch \in Nat, batch > 0
  PROVE  LET o == Find(e, Iterator(r, 1, len), ns, batch)
         IN  /\ Behind(o.reply.docs, r, 0)
             /\ RestInv(o.engine, r, o.reply.id, Len(o.reply.docs), len)
             /\ o.reply.id # Exhausted => o.reply.docs # <<>>
<1> DEFINE it == Iterator(r, 1, len)
           docs == Batch(it, batch)
           rest == Drained(it, batch)
           o == Find(e, it, ns, batch)
<1>1. it \in Iterators /\ it.of = r /\ it.at = 1 /\ it.end = len /\ it.at <= it.end + 1
  BY DEF Iterator, Iterators
<1>2. /\ Len(docs) \in Nat /\ Behind(docs, r, 0)
      /\ rest.of = r /\ rest.at = Len(docs) + 1 /\ rest.end = len
      /\ HasNext(rest) => docs # <<>>
      /\ ~HasNext(rest) => Len(docs) = len
  <2>1. 1 - 1 = 0 /\ len - 1 + 1 = len
    OBVIOUS
  <2> HIDE DEF it, docs, rest
  <2>2. /\ Len(docs) \in Nat /\ Behind(docs, it.of, it.at - 1)
        /\ rest.of = it.of /\ rest.at = it.at + Len(docs) /\ rest.end = it.end
        /\ batch > 0 /\ HasNext(rest) => docs # <<>>
        /\ ~HasNext(rest) => Len(docs) = it.end - it.at + 1
    BY <1>1, BatchIsNext DEF docs, rest
  <2> QED BY <1>1, <2>1, <2>2
<1>3. rest \in Iterators /\ rest.at <= rest.end + 1
  BY <1>1, BatchIs
<1>4. CASE HasNext(rest)
  <2>1. o = [engine |-> Register(e, rest, ns), reply |-> Reply(docs, e.nextId)]
    BY <1>4 DEF Find
  <2> HIDE DEF it, docs, rest, o
  <2>2. o.engine = Register(e, rest, ns) /\ o.reply.docs = docs /\ o.reply.id = e.nextId
    BY <2>1 DEF Reply
  <2>3. /\ DOMAIN o.engine.open = DOMAIN e.open \cup {e.nextId}
        /\ \A i \in DOMAIN e.open : o.engine.open[i] = e.open[i]
        /\ o.engine.open[e.nextId] = [iter |-> rest, ns |-> ns]
    BY <2>2, <1>3, RegisterOpens
  <2>4. e.nextId # Exhausted
    BY EngineParts
  <2>5. \A i \in Entries(o.engine, r) : i = e.nextId
    BY <2>3 DEF Entries
  <2>6. RestInv(o.engine, r, o.reply.id, Len(docs), len)
    BY <1>2, <2>2, <2>3, <2>4, <2>5 DEF RestInv
  <2> QED BY <1>2, <1>4, <2>2, <2>6 DEF o, it
<1>5. CASE ~HasNext(rest)
  <2>1. o = [engine |-> e, reply |-> Reply(docs, Exhausted)]
    BY <1>5 DEF Find
  <2> HIDE DEF it, docs, rest, o
  <2>2. o.engine = e /\ o.reply.docs = docs /\ o.reply.id = Exhausted
    BY <2>1 DEF Reply
  <2>3. RestInv(o.engine, r, o.reply.id, Len(docs), len)
    BY <1>2, <1>5, <2>2 DEF RestInv, Complete
  <2> QED BY <1>2, <2>2, <2>3 DEF o, it
<1> QED BY <1>4, <1>5

(* Any further batch. *)
LEMMA GetMoreIsWhole ==
  ASSUME NEW e, IsEngine(e), NEW r \in Readers, NEW id, Entries(e, r) = {id},
         NEW n \in Nat, NEW len, RestInv(e, r, id, n, len),
         NEW ns \in Namespaces, Borrows(e, id, ns), NEW batch \in Nat, batch > 0
  PROVE  LET o == GetMore(e, id, ns, batch)
         IN  /\ Behind(o.reply.docs, r, n)
             /\ RestInv(o.engine, r, o.reply.id, n + Len(o.reply.docs), len)
             /\ o.reply.id # Exhausted => o.reply.docs # <<>>
<1> DEFINE it == e.open[id].iter
           docs == Batch(it, batch)
           rest == Drained(it, batch)
           o == GetMore(e, id, ns, batch)
<1>1. /\ id \in DOMAIN e.open /\ it \in Iterators /\ it.of = r
      /\ it.at = n + 1 /\ it.end = len /\ it.at <= it.end + 1
  BY EngineParts DEF Entries, RestInv
<1>2. /\ Len(docs) \in Nat /\ Behind(docs, r, n)
      /\ rest.of = r /\ rest.at = n + Len(docs) + 1 /\ rest.end = len
      /\ HasNext(rest) => docs # <<>>
      /\ ~HasNext(rest) => n + Len(docs) = len
  <2> HIDE DEF it, docs, rest
  <2>1. /\ Len(docs) \in Nat /\ Behind(docs, it.of, it.at - 1)
        /\ rest.of = it.of /\ rest.at = it.at + Len(docs) /\ rest.end = it.end
        /\ batch > 0 /\ HasNext(rest) => docs # <<>>
        /\ ~HasNext(rest) => Len(docs) = it.end - it.at + 1
    BY <1>1, BatchIsNext DEF docs, rest
  <2>2. it.at - 1 = n /\ it.end \in Nat
    BY <1>1 DEF Iterators
  <2> QED BY <1>1, <2>1, <2>2
<1>3. rest \in Iterators /\ rest.at <= rest.end + 1
  BY <1>1, BatchIs
<1>4. CASE HasNext(rest)
  <2>1. o = [engine |-> [e EXCEPT !.open[id].iter = rest], reply |-> Reply(docs, id)]
    BY <1>4 DEF GetMore
  <2> HIDE DEF it, docs, rest, o
  <2>2. /\ o.engine = [e EXCEPT !.open[id].iter = rest]
        /\ o.reply.docs = docs /\ o.reply.id = id
    BY <2>1 DEF Reply
  <2>3. /\ DOMAIN o.engine.open = DOMAIN e.open
        /\ \A i \in DOMAIN e.open : i # id => o.engine.open[i] = e.open[i]
        /\ o.engine.open[id].iter = rest
    BY <1>1, <1>2, <1>3, <2>2, ChangedIs DEF it
  <2>4. id # Exhausted
    BY <1>1, EngineParts
  <2>5. \A i \in Entries(o.engine, r) : i = id
    BY <2>3 DEF Entries
  <2>6. RestInv(o.engine, r, o.reply.id, n + Len(docs), len)
    BY <1>2, <2>2, <2>3, <2>4, <2>5 DEF RestInv
  <2> QED BY <1>2, <1>4, <2>2, <2>6 DEF o
<1>5. CASE ~HasNext(rest)
  <2>1. o = [engine |-> Without(e, {id}), reply |-> Reply(docs, Exhausted)]
    BY <1>5 DEF GetMore
  <2> HIDE DEF it, docs, rest, o
  <2>2. o.engine = Without(e, {id}) /\ o.reply.docs = docs /\ o.reply.id = Exhausted
    BY <2>1 DEF Reply
  <2>3. /\ DOMAIN o.engine.open = DOMAIN e.open \ {id}
        /\ \A i \in DOMAIN o.engine.open : o.engine.open[i] = e.open[i]
    BY <2>2, WithoutIs
  <2>4. Entries(o.engine, r) = {}
    BY <2>3 DEF Entries
  <2>5. RestInv(o.engine, r, o.reply.id, n + Len(docs), len)
    BY <1>2, <1>5, <2>4 DEF RestInv, Complete
  <2> QED BY <1>2, <2>2, <2>5 DEF o
<1> QED BY <1>4, <1>5

(* What the engine may do with a request, and the length of the result then. *)
Result(e, r, s, for, id, len, o, new) ==
  \/ for = "find" /\ new \in Nat /\ o = Find(e, Iterator(r, 1, new), s.ns, s.batch)
  \/ for = "find" /\ new = Unknown /\ o = [engine |-> e, reply |-> Refusal]
  \/ for = "getMore" /\ new = len /\ o = GetMore(e, id, s.ns, s.batch)

(* A call asks when nothing is ahead in the buffer. *)
LEMMA AskIsWhole ==
  ASSUME NEW n, NEW e, NEW r, NEW s, NEW c, NEW g, NEW k, NEW for, NEW len,
         MayAsk(n, e, r, s, c, g, {}, k, for), s.index >= Len(s.buffer),
         WholeInv(e, r, s, c, g, len)
  PROVE  WholeInv(e, r, Emptied(s), [c EXCEPT ![k] = Asked(for, s.id)], g, len)
<1> DEFINE t == Emptied(s)
           d == [c EXCEPT ![k] = Asked(for, s.id)]
<1>1. /\ ReaderTyped(s, c, g) /\ k \in Calls /\ ~Busy(c[k])
      /\ \A l \in Calls : l # k => c[l] = Idle
      /\ for = "find" \/ (for = "getMore" /\ s.started)
  BY DEF MayAsk, Due
<1>2. t.id = s.id /\ t.started /\ t.buffer = <<>> /\ t.index = 0
  BY DEF Emptied
<1>3. /\ d[k] = Asked(for, s.id) /\ d[k].at = "asked" /\ d[k].for = for
      /\ \A l \in Calls : l # k => d[l] = Idle
  BY <1>1 DEF Asked, ReaderTyped
<1>4. s.index \in Nat /\ s.buffer \in Seq(Documents) /\ Len(g) \in Nat /\ Len(s.buffer) \in Nat
  BY <1>1 DEF ReaderTyped, Cursors
<1>5. s.index = Len(s.buffer) /\ Len(g) + Len(s.buffer) - s.index = Len(g)
  BY <1>4 DEF WholeInv
<1> HIDE DEF t, d
<1>6. \A l \in Calls : ~IsFind(c[l]) /\ ~Brings(c[l])
  BY <1>1, IdleIs DEF IsFind, Brings, Busy
<1>7. \A l \in Calls : ~Brings(d[l]) /\ d[l].at # "woken"
  BY <1>3, IdleIs DEF Brings
<1>8. Behind(g, r, 0) /\ t.index <= Len(t.buffer) /\ Behind(t.buffer, r, Len(g) - t.index)
  BY <1>2 DEF WholeInv, Behind
<1>9. ASSUME \A l \in Calls : ~IsFind(d[l])
      PROVE  RestInv(e, r, t.id, Len(g) + Len(t.buffer) - t.index, len)
  <2>1. s.started
    BY <1>1, <1>3, <1>9 DEF IsFind
  <2>2. RestInv(e, r, s.id, Len(g), len)
    BY <1>5, <1>6, <2>1 DEF WholeInv
  <2>3. Len(g) + Len(t.buffer) - t.index = Len(g)
    BY <1>2, <1>4
  <2> QED BY <1>2, <2>2, <2>3
<1> QED BY <1>7, <1>8, <1>9 DEF WholeInv, t, d

(* The engine answers. *)
LEMMA AnswerIsWhole ==
  ASSUME NEW n, NEW e, IsEngine(e), NEW r \in Readers, NEW s, NEW c, NEW g, NEW len,
         ReaderTyped(s, c, g), ReaderInv(n, e, r, s, c, g, {}), WholeInv(e, r, s, c, g, len),
         NEW k \in Calls, c[k].at = "asked", s.batch > 0,
         NEW o, NEW new, Result(e, r, s, c[k].for, c[k].id, len, o, new)
  PROVE  WholeInv(o.engine, r, s, [c EXCEPT ![k].at = "answered", ![k].reply = o.reply], g, new)
<1> DEFINE d == [c EXCEPT ![k].at = "answered", ![k].reply = o.reply]
           f == o.engine
           docs == o.reply.docs
<1>1. /\ s.index \in Nat /\ s.batch \in Nat /\ s.ns \in Namespaces /\ Len(g) \in Nat
      /\ c \in [Calls -> CallRecords]
  BY DEF ReaderTyped, Cursors
<1>2. Busy(c[k]) /\ c[k] # Idle
  BY IdleIs DEF Busy
<1>3. s.buffer = <<>> /\ s.started /\ \A l \in Calls : l # k => c[l] = Idle
  BY <1>2, IdleIs DEF ReaderInv, AloneInv, FreshInv
<1>4. s.index = 0 /\ Len(s.buffer) = 0 /\ Len(g) + Len(s.buffer) - s.index = Len(g)
  BY <1>1, <1>3 DEF WholeInv
<1>5. /\ d[k].at = "answered" /\ d[k].reply = o.reply
      /\ \A l \in Calls : l # k => d[l] = Idle
  BY <1>1, <1>3 DEF CallRecords
<1> HIDE DEF d
<1>6. \A l \in Calls : ~IsFind(d[l]) /\ d[l].at # "woken" /\ (l # k => ~Brings(d[l]))
  BY <1>5, IdleIs DEF IsFind, Brings
<1>7. CASE /\ Behind(docs, r, Len(g)) /\ RestInv(f, r, o.reply.id, Len(g) + Len(docs), new)
           /\ o.reply.id # Exhausted => docs # <<>>
           /\ ~o.reply.ok => RestInv(f, r, s.id, Len(g), new)
  BY <1>4, <1>5, <1>6, <1>7 DEF WholeInv, Brings, d
<1>8. ASSUME o.engine = e, o.reply = Refusal, RestInv(e, r, s.id, Len(g), new)
      PROVE  WholeInv(f, r, s, d, g, new)
  <2>1. ~Brings(d[k])
    BY <1>5, <1>8, IdleIs DEF Brings
  <2> QED BY <1>4, <1>6, <1>8, <2>1 DEF WholeInv
<1>9. CASE c[k].for = "find"
  <2>1. s.id = Exhausted /\ g = <<>> /\ Len(g) = 0 /\ Entries(e, r) = {}
    BY <1>2, <1>9 DEF ReaderInv, FindingInv
  <2>2. CASE new \in Nat /\ o = Find(e, Iterator(r, 1, new), s.ns, s.batch)
    <3>1. /\ Behind(docs, r, 0) /\ RestInv(f, r, o.reply.id, Len(docs), new)
          /\ o.reply.id # Exhausted => docs # <<>>
      BY <1>1, <2>1, <2>2, FindIsWhole
    <3>2. Len(g) + Len(docs) = Len(docs) /\ o.reply.ok
      <4>1. Answer(e, f, r, s.ns, "find", c[k].id, o.reply)
        BY <1>1, <2>2, FindAnswers
      <4>2. docs \in Seq(Documents)
        BY <4>1 DEF Answer, Replies
      <4>3. o.reply.ok = TRUE
        BY <2>2 DEF Find, Reply
      <4> QED BY <2>1, <4>2, <4>3
    <3> QED BY <1>7, <2>1, <3>1, <3>2
  <2>3. CASE new = Unknown /\ o = [engine |-> e, reply |-> Refusal]
    <3>1. RestInv(e, r, s.id, Len(g), new)
      BY <2>1, <2>3 DEF RestInv, Complete
    <3> QED BY <1>8, <2>3, <3>1 DEF d
  <2> QED BY <1>9, <2>2, <2>3 DEF Result
<1>10. CASE c[k].for = "getMore"
  <2>1. new = len /\ o = GetMore(e, c[k].id, s.ns, s.batch)
    BY <1>10 DEF Result
  <2>2. RestInv(e, r, s.id, Len(g), len)
    <3>1. \A l \in Calls : ~IsFind(c[l]) /\ ~Brings(c[l])
      BY <1>3, <1>10, IdleIs DEF IsFind, Brings
    <3> QED BY <1>3, <1>4, <3>1 DEF WholeInv
  <2>3. CASE Borrows(e, c[k].id, s.ns)
    <3>1. c[k].id \in DOMAIN e.open /\ c[k].id \in Ids
      BY <1>1, <2>3 DEF Borrows, CallRecords
    <3>2. c[k].id \in Entries(e, r)
      BY <3>1 DEF ReaderInv, IdsInv, Names
    <3>3. Entries(e, r) = {c[k].id}
      BY <3>2 DEF ReaderInv, EntryInv
    <3>4. RestInv(e, r, c[k].id, Len(g), len)
      BY <2>2, <3>1, EngineParts DEF RestInv
    <3>5. /\ Behind(docs, r, Len(g)) /\ RestInv(f, r, o.reply.id, Len(g) + Len(docs), new)
          /\ o.reply.id # Exhausted => docs # <<>>
      <4> HIDE DEF d
      <4> QED BY <1>1, <2>1, <2>3, <3>3, <3>4, GetMoreIsWhole
    <3>6. o.reply.ok = TRUE
      BY <2>1, <2>3 DEF GetMore, Reply
    <3> QED BY <1>7, <3>5, <3>6
  <2>4. CASE ~Borrows(e, c[k].id, s.ns)
    <3>1. o.engine = e /\ o.reply = Refusal
      BY <2>1, <2>4 DEF GetMore
    <3> QED BY <1>8, <2>1, <2>2, <3>1 DEF d
  <2> QED BY <2>3, <2>4
<1> QED BY <1>9, <1>10 DEF Result

(* The answer becomes the buffer. *)
LEMMA ReceiveIsWhole ==
  ASSUME NEW n, NEW e, NEW r, NEW s, NEW c, NEW g, NEW len,
         ReaderTyped(s, c, g), ReaderInv(n, e, r, s, c, g, {}), WholeInv(e, r, s, c, g, len),
         NEW k \in Calls, Brings(c[k])
  PROVE  LET t == Filled(s, c[k].reply)
             d == [c EXCEPT ![k] = [Idle EXCEPT !.at = "woken", !.for = c[k].for]]
         IN  WholeInv(e, r, t, d, g, len)
<1> DEFINE woken == [Idle EXCEPT !.at = "woken", !.for = c[k].for]
           t == Filled(s, c[k].reply)
           d == [c EXCEPT ![k] = woken]
           docs == c[k].reply.docs
<1>1. woken.at = "woken"
  BY DEF Idle
<1>2. /\ s.index \in Nat /\ Len(g) \in Nat /\ c[k].reply \in Replies
      /\ docs \in Seq(Documents) /\ Len(docs) \in Nat /\ s \in Cursors
  BY DEF ReaderTyped, Cursors, CallRecords, Replies
<1>3. Busy(c[k]) /\ c[k].at = "answered"
  BY DEF Brings, Busy
<1>4. s.buffer = <<>> /\ \A l \in Calls : l # k => c[l] = Idle
  BY <1>3, IdleIs DEF ReaderInv, AloneInv
<1>5. s.index = 0
  BY <1>2, <1>4 DEF WholeInv
<1>6. t.id = c[k].reply.id /\ t.buffer = docs /\ t.index = 0
  BY <1>2, <1>5 DEF Filled, Cursors
<1> HIDE DEF woken, t
<1>7. d[k].at = "woken" /\ \A l \in Calls : l # k => d[l] = Idle
  BY <1>1, <1>4 DEF ReaderTyped
<1> HIDE DEF d
<1>8. \A l \in Calls : ~IsFind(d[l]) /\ ~Brings(d[l])
  BY <1>7, IdleIs DEF IsFind, Brings
<1>9. /\ Behind(g, r, 0) /\ Behind(docs, r, Len(g))
      /\ RestInv(e, r, c[k].reply.id, Len(g) + Len(docs), len)
      /\ c[k].reply.id # Exhausted => docs # <<>>
  BY DEF WholeInv
<1> HIDE DEF docs
<1>10. Len(g) - 0 = Len(g) /\ Len(g) + Len(docs) - 0 = Len(g) + Len(docs) /\ 0 <= Len(docs)
  BY <1>2
<1>11. docs # <<>> => 0 < Len(docs)
  BY <1>2
<1> QED BY <1>6, <1>8, <1>9, <1>10, <1>11 DEF WholeInv, t, d, woken

(* A call ends that brings nothing. *)
LEMMA EndIsWhole ==
  ASSUME NEW e, NEW r, NEW s, NEW c, NEW g, NEW len,
         ReaderTyped(s, c, g), WholeInv(e, r, s, c, g, len),
         NEW k \in Calls, ~IsFind(c[k]), ~Brings(c[k])
  PROVE  WholeInv(e, r, s, [c EXCEPT ![k] = Idle], g, len)
<1> DEFINE d == [c EXCEPT ![k] = Idle]
<1>1. d[k] = Idle /\ \A l \in Calls : l # k => d[l] = c[l]
  BY DEF ReaderTyped
<1> HIDE DEF d
<1>2. /\ (\A l \in Calls : ~IsFind(d[l]) /\ ~Brings(d[l]))
           => (\A l \in Calls : ~IsFind(c[l]) /\ ~Brings(c[l]))
      /\ \A l \in Calls : Brings(d[l]) => Brings(c[l]) /\ d[l] = c[l]
      /\ \A l \in Calls : d[l].at = "woken" => c[l].at = "woken"
  BY <1>1, IdleIs DEF Brings
<1> QED BY <1>2 DEF WholeInv, d

(* next() returns a document of the buffer. *)
LEMMA TakeIsWhole ==
  ASSUME NEW e, NEW r, NEW s, NEW c, NEW g, NEW len,
         ReaderTyped(s, c, g), WholeInv(e, r, s, c, g, len),
         \A k \in Calls : c[k] = Idle, s.index < Len(s.buffer)
  PROVE  WholeInv(e, r, [s EXCEPT !.index = @ + 1], c, Append(g, s.buffer[s.index + 1]), len)
<1> DEFINE t == [s EXCEPT !.index = @ + 1]
           doc == s.buffer[s.index + 1]
           h == Append(g, doc)
<1>1. /\ s.index \in Nat /\ s.buffer \in Seq(Documents) /\ g \in Seq(Documents)
      /\ Len(s.buffer) \in Nat /\ Len(g) \in Nat
      /\ s.index + 1 \in DOMAIN s.buffer /\ doc \in Documents
  BY DEF ReaderTyped, Cursors
<1>2. /\ t.id = s.id /\ t.started = s.started
      /\ t.buffer = s.buffer /\ t.index = s.index + 1
  BY <1>1 DEF ReaderTyped, Cursors
<1>3. \A k \in Calls : ~IsFind(c[k]) /\ ~Brings(c[k]) /\ c[k].at # "woken"
  BY IdleIs DEF IsFind, Brings
<1>4. doc = <<r, Len(g) + 1>>
  <2>1. doc = <<r, Len(g) - s.index + (s.index + 1)>>
    BY <1>1 DEF WholeInv, Behind
  <2>2. Len(g) - s.index + (s.index + 1) = Len(g) + 1
    BY <1>1
  <2> QED BY <2>1, <2>2
<1> HIDE DEF t, doc
<1>5. /\ h \in Seq(Documents) /\ Len(h) = Len(g) + 1
      /\ DOMAIN h = 1 .. Len(g) + 1 /\ DOMAIN g = 1 .. Len(g)
      /\ h[Len(g) + 1] = doc /\ \A i \in 1 .. Len(g) : h[i] = g[i]
  BY <1>1
<1> HIDE DEF h
<1>6. Behind(h, r, 0)
  <2>1. \A j \in 1 .. Len(g) : g[j] = <<r, 0 + j>>
    BY <1>1 DEF WholeInv, Behind
  <2>2. 0 + (Len(g) + 1) = Len(g) + 1
    BY <1>1
  <2>3. \A j \in 1 .. Len(g) + 1 : j \in 1 .. Len(g) \/ j = Len(g) + 1
    BY <1>1
  <2> QED BY <1>4, <1>5, <2>1, <2>2, <2>3 DEF Behind
<1>7. /\ Len(h) - t.index = Len(g) - s.index /\ t.index <= Len(t.buffer)
      /\ Len(h) + Len(t.buffer) - t.index = Len(g) + Len(s.buffer) - s.index
  <2>1. \A a, b, i \in Nat :
          i < b => /\ (a + 1) - (i + 1) = a - i /\ i + 1 <= b
                   /\ (a + 1) + b - (i + 1) = a + b - i
    OBVIOUS
  <2>2. Len(t.buffer) = Len(s.buffer)
    BY <1>2
  <2>3. /\ (Len(g) + 1) - (s.index + 1) = Len(g) - s.index /\ s.index + 1 <= Len(s.buffer)
        /\ (Len(g) + 1) + Len(s.buffer) - (s.index + 1) = Len(g) + Len(s.buffer) - s.index
    BY <1>1, <2>1
  <2>4. Len(h) = Len(g) + 1 /\ t.index = s.index + 1
    BY <1>2, <1>5
  <2> QED BY <2>2, <2>3, <2>4
<1> QED BY <1>2, <1>3, <1>6, <1>7 DEF WholeInv, t, h, doc

(* A call in the engine's process: ask, answer and receive at once. *)
LEMMA AskLocallyIsWhole ==
  ASSUME NEW n, NEW e, NEW r \in Readers, NEW s, NEW c, NEW g, NEW k, NEW for, NEW len,
         EngineInv(n, e), MayAsk(n, e, r, s, c, g, {}, k, for),
         s.index >= Len(s.buffer), s.batch > 0, WholeInv(e, r, s, c, g, len),
         NEW o, NEW new, Result(e, r, s, for, s.id, len, o, new),
         Answer(e, o.engine, r, s.ns, for, s.id, o.reply)
  PROVE  LET t == IF o.reply.ok THEN Filled(Emptied(s), o.reply) ELSE Emptied(s)
             woken == [Idle EXCEPT !.at = "woken", !.for = for]
             d == [c EXCEPT ![k] = IF o.reply.ok THEN woken ELSE Idle]
         IN  WholeInv(o.engine, r, t, d, g, new)
<1> DEFINE t == Emptied(s)
           asked == [c EXCEPT ![k] = Asked(for, s.id)]
           answered == [asked EXCEPT ![k].at = "answered", ![k].reply = o.reply]
           woken == [Idle EXCEPT !.at = "woken", !.for = for]
<1>1. IsEngine(e) /\ ReaderTyped(s, c, g) /\ k \in Calls
  BY DEF MayAsk
<1>2. /\ ReaderTyped(t, asked, g) /\ ReaderInv(n, e, r, t, asked, g, {})
      /\ WholeInv(e, r, t, asked, g, len)
  BY AskKeeps, AskIsWhole
<1>3. asked[k] = Asked(for, s.id) /\ \A l \in Calls : l # k => asked[l] = c[l]
  BY <1>1 DEF ReaderTyped
<1>4. asked[k].at = "asked" /\ asked[k].for = for /\ asked[k].id = s.id
  BY <1>3 DEF Asked
<1>5. t.ns = s.ns /\ t.batch = s.batch
  BY DEF Emptied
<1> HIDE DEF asked, t
<1>6. Result(e, r, t, asked[k].for, asked[k].id, len, o, new)
  BY <1>4, <1>5 DEF Result
<1>7. /\ ReaderTyped(t, answered, g) /\ ReaderInv(n, o.engine, r, t, answered, g, {})
      /\ WholeInv(o.engine, r, t, answered, g, new)
  BY <1>1, <1>2, <1>4, <1>5, <1>6, AnswerKeeps, AnswerIsWhole
<1>8. answered[k].at = "answered" /\ answered[k].reply = o.reply /\ answered[k].for = for
  BY <1>1, <1>2, <1>4 DEF ReaderTyped, CallRecords
<1>9. \A x : [answered EXCEPT ![k] = x] = [c EXCEPT ![k] = x]
  BY <1>1, <1>2, <1>3 DEF ReaderTyped
<1> HIDE DEF answered
<1>10. CASE o.reply.ok
  <2>1. Brings(answered[k])
    BY <1>8, <1>10 DEF Brings
  <2>2. WholeInv(o.engine, r, Filled(t, answered[k].reply),
                 [answered EXCEPT ![k] = [Idle EXCEPT !.at = "woken", !.for = answered[k].for]], g, new)
    BY <1>1, <1>7, <2>1, ReceiveIsWhole
  <2>3. WholeInv(o.engine, r, Filled(t, o.reply), [c EXCEPT ![k] = woken], g, new)
    BY <1>8, <1>9, <2>2
  <2> QED BY <1>10, <2>3 DEF t
<1>11. CASE ~o.reply.ok
  <2>1. ~IsFind(answered[k]) /\ ~Brings(answered[k])
    BY <1>8, <1>11 DEF IsFind, Brings
  <2>2. WholeInv(o.engine, r, t, [answered EXCEPT ![k] = Idle], g, new)
    BY <1>1, <1>7, <2>1, EndIsWhole
  <2> QED BY <1>9, <1>11, <2>2 DEF t
<1> QED BY <1>10, <1>11

(* The outcomes the engine may have are results. *)
LEMMA OutcomesAreResults ==
  ASSUME NEW r \in Readers, NEW for \in {"find", "getMore"}, NEW id, NEW o \in Outcomes(r, for, id)
  PROVE  Result(engine, r, sdk[r], for, id, length[r], o.result, o.length)
<1>1. MaxLength \in Nat
  BY ReaderAssumption
<1>2. CASE for = "find"
  <2>1. CASE \E len \in 0 .. MaxLength :
               o = [result |-> Find(engine, Iterator(r, 1, len), sdk[r].ns, sdk[r].batch), length |-> len]
    <3>1. PICK len \in 0 .. MaxLength :
               o = [result |-> Find(engine, Iterator(r, 1, len), sdk[r].ns, sdk[r].batch), length |-> len]
      BY <2>1
    <3>2. o.result = Find(engine, Iterator(r, 1, len), sdk[r].ns, sdk[r].batch) /\ o.length = len
      BY <3>1
    <3>3. len \in Nat
      BY <1>1
    <3> QED BY <1>2, <3>2, <3>3 DEF Result
  <2>2. CASE o = [result |-> [engine |-> engine, reply |-> Refusal], length |-> Unknown]
    BY <1>2, <2>2 DEF Result
  <2> QED BY <1>2, <2>1, <2>2 DEF Outcomes
<1>3. CASE for = "getMore"
  BY <1>3 DEF Outcomes, Result
<1> QED BY <1>2, <1>3

-----------------------------------------------------------------------------
(* What the steps of others leave of a calm reader.                         *)

(* The entries of r stay what they are, or go. *)
Untouched(e, f, r) ==
  \A i \in Entries(f, r) : i \in Entries(e, r) /\ f.open[i].iter = e.open[i].iter

(* A step that leaves a reader, its entries and its result alone. *)
LEMMA LeftAlone ==
  ASSUME CursorInv, NEW r \in Readers, ResultOf(r),
         sdk'[r] = sdk[r], calls'[r] = calls[r], got'[r] = got[r], length'[r] = length[r],
         state'[r] \in {state[r], "left"},
         engine' = engine \/ Untouched(engine, engine', r)
  PROVE  ResultOf(r)'
<1>1. ASSUME NEW id, NEW n, NEW len, RestInv(engine, r, id, n, len)
      PROVE  RestInv(engine', r, id, n, len)
  BY <1>1 DEF RestInv, Untouched
<1> DEFINE s == sdk[r]
           c == calls[r]
<1>2. WholeInv(engine, r, s, c, got[r], length[r])
  BY DEF ResultOf
<1>3. WholeInv(engine', r, s, c, got[r], length[r])
  <2> HIDE DEF s, c
  <2> QED BY <1>1, <1>2 DEF WholeInv
<1>4. EndedInv(sdk'[r], calls'[r], state'[r])
  BY DEF ResultOf, EndedInv
<1> QED BY <1>3, <1>4 DEF ResultOf

(* The requests of another reader leave the entries of a calm one alone:     *)
(* the ids it knows are not theirs, and an id of an engine before is of      *)
(* another namespace.                                                        *)
LEMMA OtherAnswers ==
  ASSUME CursorInv, NEW r \in Readers, Calm(r), NEW q \in Readers, q # r,
         NEW for, NEW id \in Ids, Names(sdk[q], calls[q], id), NEW f, NEW reply,
         Answer(engine, f, q, sdk[q].ns, for, id, reply)
  PROVE  Untouched(engine, f, r)
<1>1. /\ IsEngine(engine) /\ EngineInv(NamespaceOf, engine)
      /\ ReaderInv(NamespaceOf, engine, q, sdk[q], calls[q], got[q], mishaps[q])
  BY ReaderAt
<1>2. CASE f = engine
  BY <1>2 DEF Untouched
<1>3. CASE Opened(engine, f, q, sdk[q].ns, reply)
  BY <1>3 DEF Opened, Entries, Untouched
<1>4. CASE Continued(engine, f, id, sdk[q].ns, reply)
  <2>1. id \in DOMAIN engine.open /\ engine.open[id].ns = sdk[q].ns
    BY <1>4 DEF Continued
  <2>2. id \notin Entries(engine, r)
    <3>1. CASE "replaced" \notin mishaps[q]
      <4>1. id \in Entries(engine, q)
        BY <1>1, <2>1, <3>1 DEF ReaderInv, IdsInv
      <4> QED BY <4>1 DEF Entries
    <3>2. CASE "replaced" \in mishaps[q]
      <4>1. sdk[q].ns # sdk[r].ns
        BY <3>2 DEF Calm, StaleIds
      <4>2. NamespaceOf[engine.open[id].iter.of] = sdk[q].ns
        BY <1>1, <2>1 DEF EngineInv
      <4> QED BY <4>1, <4>2 DEF Entries, NamespaceOf
    <3> QED BY <3>1, <3>2
  <2>3. \A i \in DOMAIN f.open : i # id => i \in DOMAIN engine.open /\ f.open[i] = engine.open[i]
    BY <1>4 DEF Continued, Moved, Finished
  <2>4. id \in DOMAIN f.open => f.open[id].iter.of = engine.open[id].iter.of
    BY <1>4 DEF Continued, Moved, Finished
  <2> QED BY <2>1, <2>2, <2>3, <2>4 DEF Entries, Untouched
<1> QED BY <1>2, <1>3, <1>4 DEF Answer, AllAtOnce

LEMMA OtherOutcomes ==
  ASSUME CursorInv, NEW r \in Readers, Calm(r), NEW q \in Readers, q # r,
         NEW for \in {"find", "getMore"}, NEW id \in Ids, Names(sdk[q], calls[q], id),
         NEW o \in Outcomes(q, for, id)
  PROVE  Untouched(engine, o.result.engine, r)
<1> DEFINE f == o.result.engine
           reply == o.result.reply
<1>1. Answer(engine, f, q, sdk[q].ns, for, id, reply)
  BY OutcomesAnswer
<1> HIDE DEF f, reply
<1>2. Untouched(engine, f, r)
  BY <1>1, OtherAnswers
<1> QED BY <1>2 DEF f

(* So do they where they are made. *)
LEMMA OtherAsks ==
  ASSUME CursorInv, NEW r \in Readers, Calm(r), ResultOf(r), NEW q \in Readers, q # r,
         NEW k \in Calls, NEW for \in {"find", "getMore"}, Ask(q, k, for)
  PROVE  ResultOf(r)'
<1>1. TypeOK
  BY DEF CursorInv
<1>2. /\ sdk'[r] = sdk[r] /\ calls'[r] = calls[r] /\ state'[r] = state[r] /\ got'[r] = got[r]
  BY <1>1 DEF Ask, Served, TypeOK
<1>3. CASE q \in Local
  <2>1. PICK o \in Outcomes(q, for, sdk[q].id) : Served(q, o)
    BY <1>3 DEF Ask, Emptied
  <2>2. engine' = o.result.engine /\ length'[r] = length[r]
    BY <1>1, <2>1 DEF Served, TypeOK
  <2>3. sdk[q].id \in Ids /\ Names(sdk[q], calls[q], sdk[q].id)
    BY ReaderAt DEF Names
  <2>4. Untouched(engine, engine', r)
    BY <2>1, <2>2, <2>3, OtherOutcomes
  <2> QED BY <1>2, <2>2, <2>4, LeftAlone
<1>4. CASE q \notin Local
  <2>1. engine' = engine /\ length' = length
    BY <1>4 DEF Ask
  <2> QED BY <1>2, <2>1, LeftAlone
<1> QED BY <1>3, <1>4

LEMMA OtherProceeds ==
  ASSUME CursorInv, NEW r \in Readers, Calm(r), ResultOf(r), NEW q \in Readers, q # r,
         NEW k \in Calls, NEW mayAsk, Proceed(q, k, mayAsk)
  PROVE  ResultOf(r)'
<1>1. TypeOK
  BY DEF CursorInv
<1>2. CASE Ask(q, k, "getMore")
  BY <1>2, OtherAsks
<1>3. CASE /\ engine' = engine /\ length' = length
           /\ sdk'[r] = sdk[r] /\ calls'[r] = calls[r] /\ state'[r] = state[r] /\ got'[r] = got[r]
  BY <1>3, LeftAlone
<1> QED BY <1>1, <1>2, <1>3 DEF Proceed, TypeOK

LEMMA OtherCalls ==
  ASSUME CursorInv, NEW r \in Readers, Calm(r), ResultOf(r), NEW q \in Readers, q # r,
         NEW k \in Calls, Call(q, k)
  PROVE  ResultOf(r)'
BY OtherAsks, OtherProceeds DEF Call

LEMMA OtherServed ==
  ASSUME CursorInv, NEW r \in Readers, Calm(r), ResultOf(r), NEW q \in Readers, q # r,
         NEW k \in Calls, Serve(q, k)
  PROVE  ResultOf(r)'
<1>1. TypeOK
  BY DEF CursorInv
<1>2. /\ calls[q][k].at = "asked" /\ UNCHANGED <<sdk, state, got>>
      /\ calls'[r] = calls[r]
  BY <1>1 DEF Serve, TypeOK
<1>3. PICK o \in Outcomes(q, calls[q][k].for, calls[q][k].id) : Served(q, o)
  BY DEF Serve
<1>4. calls[q][k].for \in {"find", "getMore"}
  BY <1>2, ReaderAt DEF ReaderInv, ReaderTyped, CallsInv, CallRecords, Busy
<1>5. engine' = o.result.engine /\ length'[r] = length[r]
  BY <1>1, <1>3 DEF Served, TypeOK
<1>6. calls[q][k].id \in Ids /\ Names(sdk[q], calls[q], calls[q][k].id)
  BY ReaderAt DEF Names
<1>7. Untouched(engine, engine', r)
  BY <1>4, <1>5, <1>6, OtherOutcomes
<1> QED BY <1>2, <1>5, <1>7, LeftAlone

LEMMA OtherMoves ==
  ASSUME CursorInv, NEW r \in Readers, Calm(r), ResultOf(r), NEW q \in Readers, q # r,
         NEW k \in Calls,
         \/ NextCall(q, k) \/ FirstCall(q, k) \/ OverlappingCall(q, k) \/ Resume(q, k)
         \/ Serve(q, k) \/ Receive(q, k) \/ Lose(q, k) \/ Leave(q)
  PROVE  ResultOf(r)'
<1>1. CASE NextCall(q, k) \/ FirstCall(q, k) \/ OverlappingCall(q, k)
  BY <1>1, OtherCalls DEF NextCall, FirstCall, OverlappingCall
<1>2. CASE Resume(q, k)
  BY <1>2, OtherProceeds DEF Resume
<1>3. CASE Serve(q, k)
  BY <1>3, OtherServed
<1>4. CASE Receive(q, k) \/ Lose(q, k) \/ Leave(q)
  <2>1. /\ UNCHANGED <<engine, got, length>>
        /\ sdk'[r] = sdk[r] /\ calls'[r] = calls[r] /\ state'[r] = state[r]
    BY <1>4 DEF Receive, Lose, Leave, CursorInv, TypeOK
  <2> QED BY <2>1, LeftAlone
<1> QED BY <1>1, <1>2, <1>3, <1>4

-----------------------------------------------------------------------------
(* What a calm reader's own steps do.                                       *)

LEMMA AskOwn ==
  ASSUME CursorInv, NEW r \in Readers, Calm(r), ResultOf(r), NEW k \in Calls,
         ~Busy(calls[r][k]), \A l \in Calls : l # k => calls[r][l] = Idle,
         NEW for, Due(for, sdk[r]), sdk[r].index >= Len(sdk[r].buffer), Ask(r, k, for)
  PROVE  ResultOf(r)'
<1> DEFINE s == sdk[r]
           c == calls[r]
           g == got[r]
           len == length[r]
           t == Emptied(s)
           woken == [Idle EXCEPT !.at = "woken", !.for = for]
<1>1. /\ TypeOK /\ IsEngine(engine) /\ EngineInv(NamespaceOf, engine) /\ s.id \in Ids
      /\ for \in {"find", "getMore"} /\ t.id = s.id
  BY ReaderAt DEF CursorInv, Due, Emptied
<1>2. MayAsk(NamespaceOf, engine, r, s, c, g, {}, k, for)
  <2>1. mishaps[r] \subseteq {}
    BY DEF Calm
  <2> QED BY <2>1, MayAskAt DEF MayAskNow
<1>3. s.index >= Len(s.buffer) /\ s.batch > 0 /\ WholeInv(engine, r, s, c, g, len)
  BY DEF Calm, ResultOf
<1>4. CASE r \in Local
  <2>1. PICK o \in Outcomes(r, for, s.id) :
          /\ Served(r, o)
          /\ IF o.result.reply.ok
             THEN /\ sdk' = [sdk EXCEPT ![r] = Filled(t, o.result.reply)]
                  /\ calls' = [calls EXCEPT ![r][k] = woken]
                  /\ state' = [state EXCEPT ![r] = "reading"]
             ELSE /\ sdk' = [sdk EXCEPT ![r] = t]
                  /\ calls' = [calls EXCEPT ![r][k] = Idle]
                  /\ state' = [state EXCEPT ![r] = "failed"]
          /\ UNCHANGED got
    BY <1>1, <1>4 DEF Ask
  <2> DEFINE out == o.result
             u == IF out.reply.ok THEN Filled(t, out.reply) ELSE t
             d == [c EXCEPT ![k] = IF out.reply.ok THEN woken ELSE Idle]
  <2>2. /\ Result(engine, r, s, for, s.id, len, out, o.length)
        /\ Answer(engine, out.engine, r, s.ns, for, s.id, out.reply)
    BY <1>1, OutcomesAreResults, OutcomesAnswer
  <2>3. WholeInv(out.engine, r, u, d, g, o.length)
    BY <1>1, <1>2, <1>3, <2>2, AskLocallyIsWhole
  <2>4. engine' = out.engine /\ length'[r] = o.length /\ got'[r] = g
    BY <1>1, <2>1 DEF Served, TypeOK
  <2>5. sdk'[r] = u /\ calls'[r] = d /\ state'[r] # "ended"
    BY <1>1, <2>1, OneCall DEF TypeOK
  <2> HIDE DEF u, d, out
  <2> QED BY <2>3, <2>4, <2>5 DEF ResultOf, EndedInv
<1>5. CASE r \notin Local
  <2> DEFINE d == [c EXCEPT ![k] = Asked(for, s.id)]
  <2>1. WholeInv(engine, r, t, d, g, len)
    BY <1>2, <1>3, AskIsWhole
  <2>2. /\ sdk'[r] = t /\ calls'[r] = d /\ state'[r] # "ended" /\ got'[r] = g
        /\ engine' = engine /\ length'[r] = len
    BY <1>1, <1>5, OneCall DEF Ask, TypeOK
  <2> HIDE DEF d, t
  <2> QED BY <2>1, <2>2 DEF ResultOf, EndedInv
<1> QED BY <1>4, <1>5

(* A cursor that was started goes on: behind a fetchMore() that found more   *)
(* there is a document in the buffer, so null comes at the end only.         *)
LEMMA ProceedOwn ==
  ASSUME CursorInv, NEW r \in Readers, Calm(r), ResultOf(r), NEW k \in Calls,
         ~Busy(calls[r][k]), \A l \in Calls : l # k => calls[r][l] = Idle,
         sdk[r].started, NEW mayAsk, ~mayAsk => calls[r][k].at = "woken",
         Proceed(r, k, mayAsk)
  PROVE  ResultOf(r)'
<1> DEFINE s == sdk[r]
           c == calls[r]
           g == got[r]
           len == length[r]
           d == [c EXCEPT ![k] = Idle]
<1>1. /\ TypeOK /\ ReaderTyped(s, c, g) /\ ReaderInv(NamespaceOf, engine, r, s, c, g, {})
      /\ WholeInv(engine, r, s, c, g, len)
  BY ReaderAt DEF CursorInv, Calm, ResultOf
<1>2. /\ s.index \in Nat /\ Len(s.buffer) \in Nat
      /\ \A l \in Calls : d[l] = Idle
  BY <1>1 DEF ReaderTyped, Cursors
<1>3. WholeInv(engine, r, s, d, g, len) /\ ReaderTyped(s, d, g)
  <2>1. ~IsFind(c[k]) /\ ~Brings(c[k])
    BY DEF IsFind, Brings, Busy
  <2>2. ReaderTyped(s, d, g)
    BY <1>1, IdleIs DEF ReaderTyped
  <2> QED BY <1>1, <2>1, <2>2, EndIsWhole
<1>4. CASE /\ s.index < Len(s.buffer)
           /\ got' = [got EXCEPT ![r] = Append(@, s.buffer[s.index + 1])]
           /\ sdk' = [sdk EXCEPT ![r].index = @ + 1]
           /\ calls' = [calls EXCEPT ![r][k] = Idle]
           /\ state' = [state EXCEPT ![r] = "reading"]
           /\ UNCHANGED <<engine, length>>
  <2> DEFINE t == [s EXCEPT !.index = @ + 1]
             h == Append(g, s.buffer[s.index + 1])
  <2>1. WholeInv(engine, r, t, d, h, len)
    <3> HIDE DEF s, c, g, d
    <3> QED BY <1>2, <1>3, <1>4, TakeIsWhole DEF s
  <2>2. /\ sdk'[r] = t /\ calls'[r] = d /\ state'[r] # "ended" /\ got'[r] = h
        /\ engine' = engine /\ length'[r] = len
    BY <1>1, <1>4, OneCall DEF TypeOK
  <2> HIDE DEF d, t, h
  <2> QED BY <2>1, <2>2 DEF ResultOf, EndedInv
<1>5. CASE s.index >= Len(s.buffer) /\ s.id # Exhausted /\ Ask(r, k, "getMore")
  <2>1. Due("getMore", s)
    BY <1>5 DEF Due
  <2> QED BY <1>5, <2>1, AskOwn
<1>6. CASE /\ s.index >= Len(s.buffer)
           /\ ~mayAsk \/ s.id = Exhausted
           /\ calls' = [calls EXCEPT ![r][k] = Idle]
           /\ state' = [state EXCEPT ![r] = "ended"]
           /\ UNCHANGED <<engine, sdk, length, got>>
  <2>1. s.id = Exhausted /\ s.index = Len(s.buffer)
    BY <1>1, <1>2, <1>6 DEF WholeInv
  <2>2. EndedInv(s, d, "ended")
    BY <1>2, <2>1 DEF EndedInv
  <2>3. /\ sdk'[r] = s /\ calls'[r] = d /\ state'[r] = "ended" /\ got'[r] = g
        /\ engine' = engine /\ length'[r] = len
    BY <1>1, <1>6, OneCall DEF TypeOK
  <2> HIDE DEF d, s, g
  <2> QED BY <1>3, <2>2, <2>3 DEF ResultOf
<1> QED BY <1>4, <1>5, <1>6 DEF Proceed

LEMMA CallOwn ==
  ASSUME CursorInv, NEW r \in Readers, Calm(r), ResultOf(r), NEW k \in Calls,
         Quiet(r), Call(r, k)
  PROVE  ResultOf(r)'
<1>1. ~Busy(calls[r][k]) /\ \A l \in Calls : l # k => calls[r][l] = Idle
  BY IdleIs DEF Quiet, Busy
<1>2. CASE sdk[r].started
  BY <1>1, <1>2, ProceedOwn DEF Call
<1>3. CASE ~sdk[r].started
  <2>1. sdk[r].buffer = <<>> /\ sdk[r].index \in Nat
    BY <1>3, ReaderAt DEF ReaderInv, FreshInv, ReaderTyped, Cursors
  <2>2. sdk[r].index >= Len(sdk[r].buffer) /\ Due("find", sdk[r])
    BY <1>3, <2>1 DEF Due
  <2> QED BY <1>1, <1>3, <2>2, AskOwn DEF Call
<1> QED BY <1>2, <1>3

LEMMA ServedOwn ==
  ASSUME CursorInv, NEW r \in Readers, Calm(r), ResultOf(r), NEW k \in Calls, Serve(r, k)
  PROVE  ResultOf(r)'
<1> DEFINE s == sdk[r]
           c == calls[r]
           g == got[r]
           len == length[r]
<1>1. /\ TypeOK /\ IsEngine(engine) /\ ReaderTyped(s, c, g)
      /\ ReaderInv(NamespaceOf, engine, r, s, c, g, {})
      /\ WholeInv(engine, r, s, c, g, len) /\ s.batch > 0 /\ EndedInv(s, c, state[r])
  BY ReaderAt DEF CursorInv, Calm, ResultOf
<1>2. c[k].at = "asked" /\ UNCHANGED <<sdk, state, got>>
  BY DEF Serve
<1>3. PICK o \in Outcomes(r, c[k].for, c[k].id) :
        /\ Served(r, o)
        /\ calls' = [calls EXCEPT ![r][k].at = "answered", ![r][k].reply = o.result.reply]
  BY DEF Serve
<1>4. c[k].for \in {"find", "getMore"}
  BY <1>1, <1>2 DEF ReaderInv, ReaderTyped, CallsInv, CallRecords, Busy
<1> DEFINE out == o.result
           d == [c EXCEPT ![k].at = "answered", ![k].reply = out.reply]
<1>5. Result(engine, r, s, c[k].for, c[k].id, len, out, o.length)
  BY <1>4, OutcomesAreResults
<1>6. WholeInv(out.engine, r, s, d, g, o.length)
  BY <1>1, <1>2, <1>5, AnswerIsWhole
<1>7. engine' = out.engine /\ length'[r] = o.length /\ calls'[r] = d
  BY <1>1, <1>3 DEF Served, TypeOK
<1>8. state'[r] # "ended"
  BY <1>1, <1>2, IdleIs DEF EndedInv
<1> HIDE DEF d, out
<1> QED BY <1>2, <1>6, <1>7, <1>8 DEF ResultOf, EndedInv

LEMMA ReceivedOwn ==
  ASSUME CursorInv, NEW r \in Readers, Calm(r), ResultOf(r), NEW k \in Calls, Receive(r, k)
  PROVE  ResultOf(r)'
<1> DEFINE s == sdk[r]
           c == calls[r]
           g == got[r]
           len == length[r]
<1>1. /\ TypeOK /\ ReaderTyped(s, c, g)
      /\ ReaderInv(NamespaceOf, engine, r, s, c, g, {})
      /\ WholeInv(engine, r, s, c, g, len) /\ EndedInv(s, c, state[r])
  BY ReaderAt DEF CursorInv, Calm, ResultOf
<1>2. c[k].at = "answered" /\ UNCHANGED <<engine, got, length>>
  BY DEF Receive
<1>3. state[r] # "ended"
  BY <1>1, <1>2, IdleIs DEF EndedInv
<1>4. CASE c[k].reply.ok
  <2> DEFINE t == Filled(s, c[k].reply)
             d == [c EXCEPT ![k] = [Idle EXCEPT !.at = "woken", !.for = c[k].for]]
  <2>1. Brings(c[k])
    BY <1>2, <1>4 DEF Brings
  <2>2. WholeInv(engine, r, t, d, g, len)
    BY <1>1, <2>1, ReceiveIsWhole
  <2>3. sdk'[r] = t /\ calls'[r] = d /\ state'[r] = state[r]
    BY <1>1, <1>4, OneCall DEF Receive, TypeOK
  <2> HIDE DEF t, d
  <2> QED BY <1>2, <1>3, <2>2, <2>3 DEF ResultOf, EndedInv
<1>5. CASE ~c[k].reply.ok
  <2> DEFINE d == [c EXCEPT ![k] = Idle]
  <2>1. ~IsFind(c[k]) /\ ~Brings(c[k])
    BY <1>2, <1>5 DEF IsFind, Brings
  <2>2. WholeInv(engine, r, s, d, g, len)
    BY <1>1, <2>1, EndIsWhole
  <2>3. sdk'[r] = s /\ calls'[r] = d /\ state'[r] # "ended"
    BY <1>1, <1>5, OneCall DEF Receive, TypeOK
  <2> HIDE DEF d
  <2> QED BY <1>2, <2>2, <2>3 DEF ResultOf, EndedInv
<1> QED BY <1>4, <1>5

(* What a reader was made with stays, and mishaps are not forgotten. *)
SameReader(r) == sdk'[r].ns = sdk[r].ns /\ sdk'[r].batch = sdk[r].batch /\ mishaps[r] \subseteq mishaps'[r]

LEMMA AskStays ==
  ASSUME TypeOK, NEW q \in Readers, NEW k \in Calls, NEW for, Ask(q, k, for), NEW r \in Readers
  PROVE  sdk'[r].ns = sdk[r].ns /\ sdk'[r].batch = sdk[r].batch
<1> DEFINE t == Emptied(sdk[q])
<1>1. PICK reply : sdk' = [sdk EXCEPT ![q] = t] \/ sdk' = [sdk EXCEPT ![q] = Filled(t, reply)]
  BY DEF Ask
<1>2. t.ns = sdk[q].ns /\ t.batch = sdk[q].batch
  BY DEF Emptied
<1>3. Filled(t, reply).ns = t.ns /\ Filled(t, reply).batch = t.batch
  BY DEF Filled, Emptied
<1> HIDE DEF t
<1> QED BY <1>1, <1>2, <1>3 DEF TypeOK

LEMMA ProceedStays ==
  ASSUME TypeOK, NEW q \in Readers, NEW k \in Calls, NEW mayAsk, Proceed(q, k, mayAsk), NEW r \in Readers
  PROVE  sdk'[r].ns = sdk[r].ns /\ sdk'[r].batch = sdk[r].batch
<1>1. CASE Ask(q, k, "getMore")
  BY <1>1, AskStays
<1>2. CASE sdk' = [sdk EXCEPT ![q].index = @ + 1] \/ sdk' = sdk
  <2>1. sdk \in [Readers -> Cursors]
    BY DEF TypeOK, Cursors
  <2>2. \A x : [sdk[q] EXCEPT !.index = x].ns = sdk[q].ns /\ [sdk[q] EXCEPT !.index = x].batch = sdk[q].batch
    BY <2>1 DEF Cursors
  <2>3. CASE sdk' = [sdk EXCEPT ![q].index = @ + 1]
    <3>1. PICK x : sdk' = [sdk EXCEPT ![q] = [sdk[q] EXCEPT !.index = x]]
      BY <2>1, <2>3
    <3> QED BY <2>1, <2>2, <3>1
  <2> QED BY <1>2, <2>3
<1> QED BY <1>1, <1>2 DEF Proceed

LEMMA ReadersStay ==
  ASSUME TypeOK, [Next]_vars, NEW r \in Readers
  PROVE  SameReader(r)
<1>1. ASSUME NEW q \in Readers, NEW k \in Calls,
             NextCall(q, k) \/ FirstCall(q, k) \/ OverlappingCall(q, k) \/ Resume(q, k)
      PROVE  SameReader(r)
  <2>1. sdk'[r].ns = sdk[r].ns /\ sdk'[r].batch = sdk[r].batch
    BY <1>1, AskStays, ProceedStays DEF NextCall, FirstCall, OverlappingCall, Resume, Call
  <2>2. mishaps' = mishaps \/ mishaps' = [mishaps EXCEPT ![q] = @ \cup {"overlap"}]
    BY <1>1 DEF NextCall, FirstCall, OverlappingCall, Resume
  <2> QED BY <2>1, <2>2 DEF TypeOK, SameReader
<1>2. ASSUME NEW q \in Readers, NEW k \in Calls,
             Serve(q, k) \/ Receive(q, k) \/ Lose(q, k)
      PROVE  SameReader(r)
  <2>1. mishaps' = mishaps \/ mishaps' = [mishaps EXCEPT ![q] = @ \cup {"lost"}]
    BY <1>2 DEF Serve, Receive, Lose
  <2>2. sdk' = sdk \/ sdk' = [sdk EXCEPT ![q] = Filled(@, calls[q][k].reply)]
    BY <1>2 DEF Serve, Receive, Lose
  <2>3. sdk \in [Readers -> Cursors]
    BY DEF TypeOK, Cursors
  <2>4. \A reply : Filled(sdk[q], reply).ns = sdk[q].ns /\ Filled(sdk[q], reply).batch = sdk[q].batch
    BY <2>3 DEF Filled, Cursors
  <2>5. sdk'[r].ns = sdk[r].ns /\ sdk'[r].batch = sdk[r].batch
    BY <2>2, <2>3, <2>4
  <2>6. mishaps[r] \subseteq mishaps'[r]
    BY <2>1 DEF TypeOK
  <2> QED BY <2>5, <2>6 DEF SameReader
<1>3. CASE \E q \in Readers : Leave(q)
  BY <1>3 DEF Leave, SameReader
<1>4. CASE \E i \in DOMAIN engine.open : Kill(i) \/ Shrink(i)
  BY <1>4 DEF Kill, Shrink, SameReader
<1>5. CASE (\E config \in Configs : Construct(config)) \/ Restart
  BY <1>5 DEF Construct, Restart, Replaced, SameReader
<1>6. CASE UNCHANGED vars
  BY <1>6 DEF vars, SameReader
<1> QED BY <1>1, <1>2, <1>3, <1>4, <1>5, <1>6 DEF Next

LEMMA CalmBefore ==
  ASSUME TypeOK, [Next]_vars, NEW r \in Readers, Calm(r)'
  PROVE  Calm(r)
<1>1. \A q \in Readers : SameReader(q)
  BY ReadersStay
<1>2. mishaps[r] = {} /\ sdk[r].batch > 0
  BY <1>1 DEF Calm, SameReader
<1>3. ~StaleIds(sdk[r].ns)
  BY <1>1 DEF Calm, SameReader, StaleIds
<1> QED BY <1>2, <1>3 DEF Calm

LEMMA OwnMoves ==
  ASSUME CursorInv, NEW r \in Readers, Calm(r), Calm(r)', ResultOf(r), NEW k \in Calls,
         \/ NextCall(r, k) \/ FirstCall(r, k) \/ OverlappingCall(r, k) \/ Resume(r, k)
         \/ Serve(r, k) \/ Receive(r, k) \/ Lose(r, k) \/ Leave(r)
  PROVE  ResultOf(r)'
<1>1. CASE NextCall(r, k) \/ FirstCall(r, k)
  BY <1>1, CallOwn DEF NextCall, FirstCall
<1>2. CASE OverlappingCall(r, k) \/ Lose(r, k)
  <2>1. mishaps'[r] # {}
    BY <1>2 DEF OverlappingCall, Lose, CursorInv, TypeOK
  <2> QED BY <2>1 DEF Calm
<1>3. CASE Resume(r, k)
  <2>1. calls[r][k].at = "woken" /\ Proceed(r, k, calls[r][k].for = "find")
    BY <1>3 DEF Resume
  <2>2. /\ ~Busy(calls[r][k]) /\ \A l \in Calls : l # k => calls[r][l] = Idle
        /\ sdk[r].started
    BY <2>1, ReaderAt, IdleIs DEF Busy, Calm, ReaderInv, FreshInv, AloneInv
  <2> QED BY <2>1, <2>2, ProceedOwn
<1>4. CASE Serve(r, k)
  BY <1>4, ServedOwn
<1>5. CASE Receive(r, k)
  BY <1>5, ReceivedOwn
<1>6. CASE Leave(r)
  <2>1. UNCHANGED <<engine, sdk, calls, got, length>> /\ state'[r] = "left"
    BY <1>6 DEF Leave, CursorInv, TypeOK
  <2> QED BY <2>1, LeftAlone
<1> QED BY <1>1, <1>2, <1>3, <1>4, <1>5, <1>6

-----------------------------------------------------------------------------
(* What others do to the engine.                                            *)

LEMMA KilledIsWhole ==
  ASSUME CursorInv, NEW r \in Readers, Calm(r), ResultOf(r), NEW i, Kill(i)
  PROVE  ResultOf(r)'
<1> DEFINE f == Without(engine, {i})
<1>1. engine' = f /\ UNCHANGED <<sdk, calls, state, got, length>>
  BY DEF Kill, KillCursors
<1>2. /\ DOMAIN f.open = DOMAIN engine.open \ {i}
      /\ \A j \in DOMAIN f.open : f.open[j] = engine.open[j]
  BY ReaderAt, WithoutIs
<1> HIDE DEF f
<1>3. Untouched(engine, f, r)
  BY <1>2 DEF Untouched, Entries
<1> QED BY <1>1, <1>3, LeftAlone

(* A document deleted from the result is no more in what the iterator has    *)
(* left, nor in what the reader is owed.                                     *)
LEMMA ShrunkIsWhole ==
  ASSUME CursorInv, NEW r \in Readers, Calm(r), ResultOf(r), NEW i, Shrink(i)
  PROVE  ResultOf(r)'
<1> DEFINE it == engine.open[i].iter
           less == [it EXCEPT !.end = @ - 1]
           f == [engine EXCEPT !.open[i].iter = less]
<1>1. /\ i \in DOMAIN engine.open /\ HasNext(it)
      /\ engine' = [engine EXCEPT !.open[i].iter.end = @ - 1]
      /\ length' = [length EXCEPT ![it.of] = @ - 1]
      /\ UNCHANGED <<sdk, calls, state, got>>
  BY DEF Shrink
<1>2. TypeOK /\ IsEngine(engine) /\ it \in Iterators /\ length \in [Readers -> Int]
  BY <1>1, EngineParts DEF CursorInv, TypeOK
<1>3. less \in Iterators /\ less.of = it.of /\ less.at = it.at /\ less.end = it.end - 1
      /\ less.at <= less.end + 1
  BY <1>1, <1>2 DEF HasNext, Iterators
<1>4. engine' = f
  BY <1>1, <1>2, EngineParts
<1> HIDE DEF less
<1>5. /\ DOMAIN f.open = DOMAIN engine.open
      /\ \A j \in DOMAIN engine.open : j # i => f.open[j] = engine.open[j]
      /\ f.open[i].iter = less
  BY <1>1, <1>2, <1>3, ChangedIs
<1> HIDE DEF f
<1>6. CASE it.of # r
  <2>1. Untouched(engine, f, r)
    BY <1>3, <1>5, <1>6 DEF Untouched, Entries
  <2>2. length'[r] = length[r]
    BY <1>1, <1>2, <1>6
  <2> QED BY <1>1, <1>4, <2>1, <2>2, LeftAlone
<1>7. CASE it.of = r
  <2> DEFINE s == sdk[r]
             c == calls[r]
             g == got[r]
             len == length[r]
  <2>1. /\ ReaderTyped(s, c, g) /\ ReaderInv(NamespaceOf, engine, r, s, c, g, {})
        /\ WholeInv(engine, r, s, c, g, len) /\ EndedInv(s, c, state[r])
    BY ReaderAt DEF Calm, ResultOf
  <2>2. i \in Entries(engine, r) /\ i \in Ids /\ i # Exhausted
    BY <1>1, <1>2, <1>7, EngineParts DEF Entries
  <2>3. Entries(f, r) = Entries(engine, r) /\ Entries(f, r) = {i}
    BY <1>3, <1>5, <1>7, <2>1, <2>2 DEF Entries, ReaderInv, EntryInv
  <2>4. ASSUME NEW id, id # Exhausted, NEW n, RestInv(engine, r, id, n, len)
        PROVE  RestInv(f, r, id, n, len - 1)
    <3>1. it.at = n + 1 /\ it.end = len
      BY <2>2, <2>4 DEF RestInv
    <3> QED BY <1>3, <1>5, <2>3, <2>4, <3>1 DEF RestInv
  <2>5. s.started
    BY <2>1, <2>2 DEF ReaderInv, FreshInv
  <2>6. s.id = i \/ \E k \in Calls : c[k].at = "answered" /\ c[k].reply.id = i
    BY <2>1, <2>2 DEF ReaderInv, HeldInv
  <2>7. \A k \in Calls : c[k].at = "answered" /\ c[k].reply.id = i => Brings(c[k])
    BY <2>1, <2>2, IdleIs DEF ReaderInv, CallsInv, Brings, Refusal
  <2>8. (\A k \in Calls : ~Brings(c[k])) => s.id = i
    BY <2>6, <2>7
  <2>9. \A k \in Calls : Brings(c[k]) => c[k].reply.id = i
    BY <2>1, <2>2 DEF ReaderInv, EntryInv, Brings
  <2> HIDE DEF s, c, g, len
  <2>10. WholeInv(f, r, s, c, g, len - 1)
    <3>1. (\A k \in Calls : ~IsFind(c[k]) /\ ~Brings(c[k])) =>
            RestInv(f, r, s.id, Len(g) + Len(s.buffer) - s.index, len - 1)
      BY <2>1, <2>2, <2>4, <2>5, <2>8 DEF WholeInv
    <3>2. ASSUME NEW k \in Calls, Brings(c[k])
          PROVE  RestInv(f, r, c[k].reply.id, Len(g) + Len(c[k].reply.docs), len - 1)
      BY <2>1, <2>2, <2>4, <2>9, <3>2 DEF WholeInv
    <3> QED BY <2>1, <3>1, <3>2 DEF WholeInv
  <2>11. length'[r] = len - 1
    BY <1>1, <1>2, <1>7 DEF len
  <2> QED BY <1>1, <1>4, <2>1, <2>10, <2>11 DEF ResultOf, s, c, g
<1> QED BY <1>6, <1>7

(* A calm reader was not reading when the engine was replaced. *)
LEMMA ReplacedIsWhole ==
  ASSUME CursorInv, NEW r \in Readers, Calm(r)', ResultOf(r), NEW config,
         engine' = NewEngine(config), Replaced, UNCHANGED <<sdk, got, length>>,
         calls'[r] \in {calls[r], [k \in Calls |-> Idle]}, state'[r] \in {state[r], "left"}
  PROVE  ResultOf(r)'
<1>1. mishaps'[r] = {}
  BY DEF Calm
<1>2. state[r] = "unread"
  BY <1>1 DEF Replaced
<1>3. ~sdk[r].started /\ \A k \in Calls : calls[r][k] = Idle
  BY <1>2, ReaderAt DEF ReaderInv, FreshInv
<1>4. calls[r] \in [Calls -> CallRecords]
  BY ReaderAt DEF ReaderTyped
<1>5. calls'[r] = calls[r]
  BY <1>3, <1>4
<1>6. Untouched(engine, engine', r)
  BY NewEngineIs DEF Untouched, Entries, NewEngine, NoCursors
<1> QED BY <1>5, <1>6, LeftAlone

-----------------------------------------------------------------------------
(* Null means all.                                                          *)

LEMMA ResultInvInit ==
  ASSUME Init
  PROVE  ResultInv
<1> SUFFICES ASSUME NEW r \in Readers
             PROVE  ResultOf(r)
  BY DEF ResultInv
<1>1. /\ state[r] = "unread" /\ got[r] = <<>> /\ \A k \in Calls : calls[r][k] = Idle
  BY DEF Init
<1>2. sdk[r].index = 0 /\ sdk[r].buffer = <<>> /\ ~sdk[r].started
  BY DEF Init, Fresh
<1> QED BY <1>1, <1>2, IdleIs DEF ResultOf, WholeInv, EndedInv, Behind, Brings

LEMMA ResultInvNext ==
  ASSUME CursorInv, ResultInv, [Next]_vars
  PROVE  ResultInv'
<1> SUFFICES ASSUME NEW r \in Readers, Calm(r)'
             PROVE  ResultOf(r)'
  BY DEF ResultInv
<1>1. Calm(r) /\ ResultOf(r)
  BY CalmBefore DEF ResultInv, CursorInv
<1>2. ASSUME NEW q \in Readers, NEW k \in Calls,
             \/ NextCall(q, k) \/ FirstCall(q, k) \/ OverlappingCall(q, k) \/ Resume(q, k)
             \/ Serve(q, k) \/ Receive(q, k) \/ Lose(q, k) \/ Leave(q)
      PROVE  ResultOf(r)'
  BY <1>1, <1>2, OwnMoves, OtherMoves
<1>3. ASSUME NEW q \in Readers, Leave(q)
      PROVE  ResultOf(r)'
  <2>1. UNCHANGED <<engine, sdk, calls, got, length>> /\ state'[r] \in {state[r], "left"}
    BY <1>3 DEF Leave, CursorInv, TypeOK
  <2> QED BY <1>1, <2>1, LeftAlone
<1>4. ASSUME NEW i \in DOMAIN engine.open, Kill(i) \/ Shrink(i)
      PROVE  ResultOf(r)'
  BY <1>1, <1>4, KilledIsWhole, ShrunkIsWhole
<1>5. ASSUME NEW config \in Configs, Construct(config)
      PROVE  ResultOf(r)'
  BY <1>1, <1>5, ReplacedIsWhole DEF Construct, Configure
<1>6. CASE Restart
  BY <1>1, <1>6, ReplacedIsWhole DEF Restart
<1>7. CASE UNCHANGED vars
  BY <1>1, <1>7, LeftAlone DEF vars
<1> QED BY <1>2, <1>3, <1>4, <1>5, <1>6, <1>7 DEF Next

(* A reader without mishap is always owed exactly what it did not get: its   *)
(* buffer, an answer under way and the registered iterator continue what it  *)
(* got, and an id of 0 says that they are the rest of the result.            *)
THEOREM ResultInvariantHolds == Spec => []ResultInv
<1>1. Init => ResultInv
  BY ResultInvInit
<1>2. CursorInv /\ ResultInv /\ [Next]_vars => ResultInv'
  BY ResultInvNext
<1> QED BY <1>1, <1>2, CursorInvariantHolds, PTL DEF Spec

(* next() returns null only after every document of the result, for any      *)
(* results and batch sizes, however the other readers' calls interleave and  *)
(* whichever cursors are killed or documents deleted meanwhile: a fetchMore()*)
(* that leaves an id brings a document, so next() does not end before the    *)
(* cursor is exhausted, and the registry erases the entry with the last one. *)
THEOREM NullIsTheEnd == Spec => []NullMeansAll
<1>1. CursorInv /\ ResultInv => NullMeansAll
  <2>1. SUFFICES ASSUME CursorInv, ResultInv, NEW r \in Readers, state[r] = "ended", Calm(r)
                 PROVE  got[r] = [i \in 1 .. length[r] |-> <<r, i>>]
    BY DEF NullMeansAll, Calm
  <2> DEFINE s == sdk[r]
             c == calls[r]
             g == got[r]
             len == length[r]
  <2>2. /\ WholeInv(engine, r, s, c, g, len) /\ ReaderTyped(s, c, g) /\ len \in Int
        /\ s.started /\ s.id = Exhausted /\ s.index = Len(s.buffer)
        /\ \A k \in Calls : c[k] = Idle
    BY <2>1, ReaderAt DEF ResultInv, ResultOf, EndedInv, CursorInv, TypeOK
  <2> HIDE DEF s, c, g, len
  <2>3. \A k \in Calls : ~IsFind(c[k]) /\ ~Brings(c[k])
    BY <2>2, IdleIs DEF IsFind, Brings
  <2>4. Len(g) + Len(s.buffer) - s.index = Len(g) /\ g \in Seq(Documents) /\ Len(g) \in Nat
    BY <2>2 DEF ReaderTyped, Cursors
  <2>5. Complete(Len(g), len)
    BY <2>2, <2>3, <2>4 DEF WholeInv, RestInv
  <2>6. 1 .. Len(g) = 1 .. len
    <3>1. CASE Len(g) = len
      BY <3>1
    <3>2. CASE Len(g) = 0 /\ len = Unknown
      BY <3>2 DEF Unknown
    <3> QED BY <2>5, <3>1, <3>2 DEF Complete
  <2>7. DOMAIN g = 1 .. len
    BY <2>4, <2>6
  <2>8. \A i \in 1 .. len : g[i] = <<r, i>>
    <3>1. \A i \in 1 .. len : g[i] = <<r, 0 + i>>
      BY <2>2, <2>7 DEF WholeInv, Behind
    <3> QED BY <2>2, <3>1
  <2>9. g = [i \in DOMAIN g |-> g[i]]
    BY <2>4
  <2>10. g = [i \in 1 .. len |-> <<r, i>>]
    BY <2>7, <2>8, <2>9
  <2> QED BY <2>10 DEF g, len
<1> QED BY <1>1, CursorInvariantHolds, ResultInvariantHolds, PTL
=============================================================================
