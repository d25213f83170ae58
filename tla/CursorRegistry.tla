--------------------------- MODULE CursorRegistry ---------------------------
(***************************************************************************)
(* The engine as its clients' cursors see it: the registry in which the    *)
(* binding keeps iterators between two batches, and the calls that read    *)
(* and change it (core/src/cursor_registry.cpp, binding/src/collection.cpp,*)
(* binding/src/addon.cpp).  Each call is an operator from an engine and    *)
(* arguments to the engine after the call and the reply.                   *)
(*                                                                         *)
(* An iterator is what is left of the result of one find or aggregate:     *)
(* the documents at .. end of the result that belongs to reader "of".      *)
(***************************************************************************)
EXTENDS Integers, Sequences, FiniteSets

Exhausted == 0   \* the cursor id of a reply that leaves no cursor open

(* Mutant: the ids begin with the one that means none. *)
FirstIdExhausted == Exhausted

FirstId == 1

(* The configuration of an engine nobody configured: the environment's. *)
FromEnvironment == "environment"

NoCursors == [i \in {} |-> i]
NewEngine(config) == [config |-> config, nextId |-> FirstId, open |-> NoCursors]

Iterator(reader, at, end) == [of |-> reader, at |-> at, end |-> end]

-----------------------------------------------------------------------------

Least(m, n) == IF m <= n THEN m ELSE n

(* drain_batch: up to batch documents; a batch size below 1 takes none. *)
BatchLength(iter, batch) == Least(batch, iter.end - iter.at + 1)
Batch(iter, batch) == [i \in 1 .. BatchLength(iter, batch) |-> <<iter.of, iter.at + i - 1>>]
Drained(iter, batch) == [iter EXCEPT !.at = @ + BatchLength(iter, batch)]

(* Mutant: off by one. *)
HasTwo(iter) == iter.at < iter.end

HasNext(iter) == iter.at <= iter.end

Reply(docs, id) == [ok |-> TRUE, docs |-> docs, id |-> id]
Refusal == [ok |-> FALSE, docs |-> <<>>, id |-> Exhausted]

(* register_cursor *)
Register(engine, iter, ns) ==
  [config |-> engine.config,
   nextId |-> engine.nextId + 1,
   open   |-> [i \in DOMAIN engine.open \cup {engine.nextId} |->
                 IF i = engine.nextId THEN [iter |-> iter, ns |-> ns] ELSE engine.open[i]]]

(* Mutant: the namespace of the call is not compared. *)
BorrowsAnyNamespace(engine, id, ns) == id \in DOMAIN engine.open

(* borrow *)
Borrows(engine, id, ns) == id \in DOMAIN engine.open /\ engine.open[id].ns = ns

Without(engine, ids) ==
  [engine EXCEPT !.open = [i \in DOMAIN @ \ ids |-> @[i]]]

-----------------------------------------------------------------------------

(* find and aggregate: only an iterator that has more is registered. *)
Find(engine, iter, ns, batch) ==
  LET rest == Drained(iter, batch)
  IN  [engine |-> IF HasNext(rest) THEN Register(engine, rest, ns) ELSE engine,
       reply  |-> Reply(Batch(iter, batch), IF HasNext(rest) THEN engine.nextId ELSE Exhausted)]

(* Mutant: an iterator with nothing left stays in the registry. *)
GetMoreKeepsCursor(engine, id, ns, batch) ==
  LET iter == engine.open[id].iter
      rest == Drained(iter, batch)
  IN  IF ~Borrows(engine, id, ns) THEN [engine |-> engine, reply |-> Refusal]
      ELSE [engine |-> [engine EXCEPT !.open[id].iter = rest],
            reply  |-> Reply(Batch(iter, batch), IF HasNext(rest) THEN id ELSE Exhausted)]

(* Mutant: the batch is read without moving the iterator. *)
GetMoreRereads(engine, id, ns, batch) ==
  LET iter == engine.open[id].iter
      rest == Drained(iter, batch)
  IN  IF ~Borrows(engine, id, ns) THEN [engine |-> engine, reply |-> Refusal]
      ELSE IF HasNext(rest)
      THEN [engine |-> engine, reply |-> Reply(Batch(iter, batch), id)]
      ELSE [engine |-> Without(engine, {id}), reply |-> Reply(Batch(iter, batch), Exhausted)]

(* getMore: the iterator moves on, and is dropped when nothing is left. *)
GetMore(engine, id, ns, batch) ==
  LET iter == engine.open[id].iter
      rest == Drained(iter, batch)
  IN  IF ~Borrows(engine, id, ns) THEN [engine |-> engine, reply |-> Refusal]
      ELSE IF HasNext(rest)
      THEN [engine |-> [engine EXCEPT !.open[id].iter = rest],
            reply  |-> Reply(Batch(iter, batch), id)]
      ELSE [engine |-> Without(engine, {id}), reply |-> Reply(Batch(iter, batch), Exhausted)]

(* killCursors asks for no namespace. *)
KillCursors(engine, ids) == Without(engine, ids)

(* configure: another configuration makes a new engine, whose ids start again. *)
Configure(engine, config) == IF engine.config = config THEN engine ELSE NewEngine(config)
=============================================================================
