# TLA+ model of SavannahDB

SavannahDB is an embedded document database: a C++ core (storage, indexes,
query engine), a Node binding over it, and a server and an SDK in TypeScript.
This directory holds a model of its durable storage ("Canopy"), of its
in-memory collection with indexes, query plans and cursors, of the cursors that
clients hold across batches, awaits and restarts, and of its query language; the
TLC runs that check them on small instances; and proofs of their main
properties for every value of the constants. References are to files under `src/`.

## 1. The system

| Component | State it keeps | Operations | What makes it correct |
|---|---|---|---|
| **Canopy collection** `core/src/storage/canopy_backend.cpp` | memory (`inner_`), `ops.bin`, `state.bin`, next sequence number, checkpoint number, log handle, bytes since the checkpoint | insert, update, erase, create_index, drop_index, checkpoint, reload, open/load, close | a restart shows exactly the logged writes; what was acknowledged survives what the sync policy says it survives; it always opens again |
| **Memory collection** `core/src/storage/memory.cpp` | slots with tombstones, next record id, indexes | the same calls, find, aggregate, iterators, snapshot, restore | index and scan agree; unique indexes hold; a cursor survives writes |
| **Index manager** `core/src/index/manager.cpp` | per index: a map from keys to record ids | create, drop, on_insert, on_erase, lookups | holds exactly the keys of the live documents |
| **Update engine** `core/src/query/update.cpp` | none | apply_update, seed_upsert | a failed update changes nothing; an `_id` stays; an upsert makes what its filter finds |
| **Planner** `core/src/query/planner.cpp` | none | plan_index_lookup, plan_index_sort | a plan returns what a scan returns |
| **Filter, values, expressions, sort, projection, pipeline** `core/src/query/` | none | pure functions on documents and streams of them | parts that are coded apart agree |
| **Engine, cursor registry** `core/src/engine.cpp`, `cursor_registry.cpp` | backend; open cursors by id | register, borrow, erase, reconfigure | an id never names another cursor; no cursor is forgotten |
| **Node binding** `binding/src/` | the global engine | one call per operation; getMore, killCursors | calls reach the engine in order |
| **Server, bridge** `server/src/server`, `server/src/engine` | none of its own | HTTP routes to bridge calls | a request has its effect at most once |
| **SDK** `server/src/sdk/index.ts` | per cursor: buffer, position, cursor id | next, toArray, collection calls | every document once, in order |
| Storage root, arena, BSON views, scripts | layout files; buffers | create directories; parse bytes | not modelled: no protocol in them |

**How they interact.** The SDK calls the bridge in process, or the server over
HTTP, which calls the bridge. The bridge calls the binding, which looks the
collection up in the engine on every call. With the Canopy backend the engine
returns a `CollectionProxy`; it takes `write_mutex_`, changes the memory
collection *first*, then appends a frame to the log, and takes a snapshot when
the log has grown enough. Reads go to the memory collection without the log. A
cursor is an iterator over the memory collection, kept in the registry between
batches while writes go on.

**What is hard.** A crash between any two of: memory changed, frame written,
frame fsynced, answer given, snapshot renamed, directory fsynced, log reset.
A system call that fails in any of them, in the load that recovers from such a
failure too. Calls that are logged as calls and may not repeat when replayed.
Cursors that outlive writes, reloads and reconfiguration. `next()` calls that
overlap across an await, and answers that get lost. A query language whose
comparison, arithmetic and joins are each coded in two or three places. `PROJECT.json` lists
each hazard with its line.

## 2. The modules

| Module | What it is |
|---|---|
| `MemoryCollection` | the value of an in-memory collection and each operation as an operator on it (`memory.cpp`, the unique checks of `index/manager.cpp`) |
| `CanopyCollection` | one durable collection as a state machine, on top of `MemoryCollection` |
| `DurableCollection` | the contract: a growing sequence of committed states, the last of which is visible |
| `CanopyInvariant` | the inductive invariant and the conditions it needs |
| `Documents` | documents, filters, sort orders and index keys as the query engine sees them (`filter.cpp`, `value.cpp`, `sort.cpp`, `key_order.cpp`, the key expansion of `index/manager.cpp`) |
| `IndexPlanner` | index lookups and query plans (`index/manager.cpp`, `planner.cpp`) |
| `MemoryStore` | the inside of a memory collection as a state machine: slots, indexes, write loops, cursors (`memory.cpp`, `index/manager.cpp`, `vector_iterator.h`) |
| `CursorRegistry` | the engine as cursors see it: registry, `find`, `getMore`, `killCursors`, `configure` as operators on its value (`cursor_registry.cpp`, `binding/src/`) |
| `CursorService` | the SDK's `Cursor` objects as a state machine over `CursorRegistry`, in process and over HTTP (`sdk/index.ts`, `server/index.ts`) |
| `Lists` | the values of a set in order (`Arranged`), the elements of a sequence that are picked or fit (`Picked`, `Selected`) |
| `Bson` | values of ten types, documents, comparison and sorting (`value.cpp`, `key_order.cpp`, `sort.cpp`) |
| `Expressions`, `FilterLanguage`, `UpdateEngine`, `Stages` | expressions, filters, updates and pipeline stages over `Bson` (`expression.cpp`, `filter.cpp`, `update.cpp`, `pipeline/`, `project.cpp`) |
| `AtomicCollection` | the contract of the memory collection: a write call takes effect in one step |
| `QueryEngine` | a collection written through filters and updates and read by aggregations, and the laws of its parts |
| `QueryTypes` | its type invariant, which goes into values to any depth |
| `MCCanopy`, `MCInvariant`, `CanopyClaims`, `MCStore`, `MCCursors`, `MCQuery` | documents, workloads and claims for TLC |
| `ListProofs`, `MemoryProofs`, `CanopyProofs`, `CanopySafetyProofs`, `StoreProofs`, `FindProofs`, `CursorProofs`, `QueryProofs` | the proofs |

`CanopyCollection` and `MemoryStore` both stand on `MemoryCollection`. For Canopy
it is the memory it logs and restores; for `MemoryStore` it is the
specification its loops have to meet (`CallsAreAtomic`). `QueryEngine`
instantiates it too, with the filters and updates of the code in the place of
the parameters that the other two leave open.

### MemoryCollection

A collection is a record `[docs, end, next, idx]`: a partial function from slot
numbers to documents with their record ids, the number of slots, the next
record id, the definitions of the indexes. Documents, filters and update
specifications are constants, and so are the operators that the query engine
would compute (`Matches`, `ApplyUpdate`, `SeedUpsert`, `DocKeys`): what Canopy
has to get right does not depend on them, except that `SeedUpsert` takes the
ObjectId the call generates. The error paths are all there: a batch insert that
stops at a duplicate key with the earlier documents in, a multi-document update
that stops at the first failing document with the earlier ones changed, index
calls that are refused. Tombstones are left out (slot numbers are compared, not
counted), and so are the `SAVANNAH_DISABLE_ID_INDEX` switch and which of several
violated unique indexes an error names.

### CanopyCollection

`write_mutex_` admits one write at a time; `pc` says how far it is.

| `pc` | In the code | Actions from there |
|---|---|---|
| closed | no proxy in `collections_` | `Open` |
| load | before `load_from_state` | `LoadState`, `LoadFails` |
| replay | the loop of `load_from_log`, `cur` frames passed | `ReplayFrame`, `ReplayRefused`, `ReplayMalformed`, `LoadFails`, `FinishLoad` |
| idle | open, no write in progress | `Write`, `Shutdown` |
| append | memory changed, frame not written | `AppendFrame`, `AppendFails` |
| sync | frame with the kernel, fsync next (sync 'full') | `SyncFrame`, `AppendFails` |
| snapshot | `checkpoint()`, new `state.bin` next | `RenameState`, `CheckpointFails` |
| stateSync | `state.bin` renamed, directory fsync next | `SyncStateName` |
| reset | `reset_log()` next | `RenameLog`, `CheckpointFails` |
| logSync | `ops.bin` renamed, directory fsync next | `SyncLogName` |

`Kill` and `PowerCut` may happen in every state.

**Files.** A log is its whole frames, the number of them that were fsynced, and
its tail: clean, a torn frame, or frames buried behind a torn one. A snapshot
is a copy of memory with the last sequence number it covers. Temporary files
are never read, so writing one has no effect before its rename. `oldLogs` and
`oldStates` are the versions a name has had since the last directory fsync; a
power cut picks one of them for each name independently, and any cut of the
unsynced frames of the log. The constant `FsyncPersistsName` distinguishes file
systems on which fsync of a file also persists its directory entry (ext4, xfs)
from those that promise no more than POSIX does.

**Failures.** `Faults` names the groups of system calls that may fail in a run.
A failed append leaves none, part or all of its frame in the log and makes the
proxy reload; a failed checkpoint is swallowed; a failed directory fsync is not
noticed; a failed load throws.

**History variables.** `hist[n + 1]` is memory after the logged write n; `kept`
is the last write answered (a kill must not lose it), `sure` the last write
that the sync policy covers or a checkpoint made durable (a power cut must not
lose it). They are read by no guard.

**Left out.** Frames buried behind a torn one that happen to parse as a
document; a log header torn by a power cut (the collection refuses to open);
zero bytes instead of a shorter file after a power cut; the fsync of the
collection's own directory, which the code never does; the platform branches
for Windows. `pending_bytes_` counts frames.

### DurableCollection

The contract has no memory, log or snapshot: committed states, what a reader
sees, `kept` and `sure`, and five actions (begin, commit, settle, answer,
lose). The mapping is `Contract` in `CanopyCollection`: `committed` is the
history up to the last write a restart would find (`Recoverable`), and
`visible` is memory while the collection is idle.

### Documents, IndexPlanner

A document maps each path to a field: absent, one value, or an array, of which
only the set of elements matters. Values are integers whose order is the order
of the index map: null, numbers, texts. `EvalField` is the filter: equality
looks into arrays, ranges and regular expressions do not (that is what the
code does), and a range compares only values of one type (`Comparable`), while
the index map orders all types, so the range read from an index is wider than
the filter and every candidate is filtered again.

The code walks an `unordered_map` of indexes and takes the first that fits;
`LookupPlans` and `SortIndexes` are the sets of all that fit, and every property
speaks of each of them. A document with arrays under two paths of an index has
no key in it. Lists that the code sorts, and the order in which it walks the
index map, are `Arranged`: each element of a set at the place that the number of
those before it says, a definition the provers can reason about.

Left out: `$in`, `$nin`, `$exists`, `$and`, `$or`, `$expr`, which no plan uses (they
are in `FilterLanguage`); nested arrays; NaN; types other than those three.

### MemoryStore

| Variable | In the code |
|---|---|
| `slots` | `slots_`, each with its record id, document and tombstone; `slot_by_id_` is `SlotOf` |
| `nextRid` | `next_record_id_` |
| `indexes` | `indexes_`: per name the paths, unique flag, `supports_ordered_sort`, and the map as a set of pairs of key and record id |
| `call` | the local variables of the write call in progress |
| `cursors` | the iterators: a position in the slots or in a list of record ids, skip and limit left |

A write call is `Begin`, one action per pass of its loop (`InsertOne`,
`UpdateOne`, `EraseOne`, `FillOne`), the ways it ends (`...Refused`, `...Ends`,
`Upsert`, `DropOne`), and `Return`. Nothing runs between the passes; they are
separate steps so that the invariants are checked, and proved, inside the
loops, where a refusal leaves the rest undone. Cursors move between calls
only: the binding is called on one thread. `OpenCursor` is
`find` with the first `has_next`, `Fetch` one document of a batch, `CloseCursor`
the end of a cursor or `killCursors`. A cursor that sorted in memory holds the
documents of that moment; one that reads an index holds record ids and filters
again; a scan walks the slots up to where they ended when it was opened.

History: `call.before` is the collection when the call began, `seen` what a
cursor returned, `steady` the documents that have matched since it was opened.

Left out: aggregation (it is in `QueryEngine`), the reload of a collection
(`clear_for_reload`) with open cursors, the registry in which the binding keeps
cursors (`CursorRegistry`), and the content of a document a cursor returns (only
which one it is).

### CursorRegistry, CursorService

| Variable | In the code |
|---|---|
| `engine` | `g_engine`: its configuration, `next_id_` and the entries of its registry, each an iterator with the namespace of its find |
| `sdk` | the fields of each `Cursor`: batch size, `started`, cursor id, `buffer`, `index` |
| `calls` | each `next()` in progress: idle, its request asked or answered, or woken behind its await |
| `state` | what the program that reads makes of it: unread, reading, ended (null), failed (an exception), left |
| `got` | the documents `next()` returned |

JavaScript runs one step at a time and lets go at an await; an action is what
runs from one await to the next. `NextCall`, `FirstCall` and `OverlappingCall`
begin a `next()`, at rest, at first or after an error, or while another one is
in progress; `Resume` goes on behind an await. In embedded mode the engine is
called within the same step; over HTTP `Serve` is the server's handling of a
request, `Receive` the SDK's of the answer, `Lose` an exception of `fetch`, before
or after the server has acted. `Kill`, `Shrink`, `Construct` and `Restart` are what
other clients, writes and processes do to the engine meanwhile. An iterator is
abstract: the documents that are left of the result of one find.

`length`, `mishaps` and `troubles` are history: the length of the result, what
befell a reader, and how much has happened. Only the bound reads `troubles`, and
nothing reads the others.

Left out: what `find` throws for; iterators that yield documents inserted
meanwhile (that is in `MemoryStore`); the calls of `sort`, `skip` and the others
that a started cursor refuses; HTTP status codes, and the retries of other
clients.

### Bson, Expressions, FilterLanguage, UpdateEngine, Stages, QueryEngine

A value is a type and a payload, a document a sequence of named fields; both
keep what the engine tells apart (int32, int64 and double; missing and null; the
order of fields; two fields of one name). The four modules in the middle give
one operator to each operator of the language, named after it or after the
function of the code.

**Numbers.** An int64 has the width `IntBound` gives it. Where a sum leaves it, C++
leaves the result undefined; the model wraps it around, as two's complement
addition does. A double is rounded: it is a significand of at most `Significand`
times one of `Spacings`, kept as a whole number of units, `Scale` units to the
number 1. In the code that is 2^53 - 1 and all powers of two; the run has three bits,
units of a half and spacings from 1/2 to 8, so that 8 plays the part of 2^53.
`Rounded` takes a number to the nearest double, of two to the even one; it is applied
where the code converts an int64 (`AsDouble`), after each addition (`IncSum`,
`DoubleTotal`) and after a division (`Average`). Two numbers are compared as doubles
if one is a double and exactly if none is (`EqualNumbers`, `CompareNumbers`).
Infinities and NaN are left out, and the two zeros are one. Three laws do not hold
of all numbers because of this; their premises say of which they do (section 3).

The code calls itself on the parts of a value in five places. There the modules
have constant operators, and `Query.cfg` gives each the definition that the code
calls (by way of an operator of `MCQuery`), which closes the recursion for TLC:

| Constant | Closed with | In the code |
|---|---|---|
| `Value(doc, expr)` | `Evaluate` | `evaluate_expression` on an argument |
| `Holds(doc, filter)` | `Matches` | `match_doc` under `$and` and `$or` |
| `LookupPipeline(docs, pipeline, bindings, owner)` | `PipelineOfLookup` | `run_pipeline` within a `$lookup` |
| `Variables(v)`, `Substituted(v, bindings)` | `VariablesIn`, `Substitute` | `append_substituted_value` on an element |
| `SizeOf(v)` | `PayloadSize` | the length of an element within an array or a document |

`SizeOf` serves `compare_wrapped_values`, which compares two values of different
types by the bytes of the documents they are wrapped in: first by their length,
then by the byte of their type (`CompareWrapped`).

Loops are recursive functions over the position (`DoubleTotal`, `IntTotal`,
`MergeObjects`, `RunPipeline`) or say which elements there are (`StableSort` is
the documents `Arranged` by `SortOrder`, `FirstSeen` the elements `Picked` at
their first place). No module a proof is about has a RECURSIVE operator.

`QueryEngine` is the state machine that feeds them: `Write` is a call of
`MemoryCollection`, `Aggregate` the snapshot of an aggregation, `Stage` one turn of
the loop of `run_pipeline`, `Return` its end. Its properties are laws, checked on
every document that writes make and on every stream that stages make of those.

Left out: regular expressions, dates, binary data and the rarer types;
paths with array positions (`tags.0`); the operators of expressions on
characters, conversions, multiplication, division and roots; the caps on
nesting; malformed BSON; the order of several fields that one `$set` adds, which
is a hash table's; the order of two objects or arrays under `$min` and `$max`.

## 3. The runs

### Canopy

Properties, all stated in `CanopyCollection`:

- `LiveStateIsCommitted`: an open collection shows the state after its last
  logged write. It fails if recovery drops, repeats or reorders a write.
- `NothingPromisedIsLost`: a collection that opens has every write that was
  promised to survive the crash before it.
- `NoStepForgets`: only a power cut takes away a write a restart would find.
- `LogContinuesSnapshot`: every pair of files a power cut may leave fits
  together.
- `ReplayAccepts`: replay meets no frame it refuses.
- `KeepsContract`: the refinement of `DurableCollection`.
- `CallReturns`, `RecoveryCompletes`: liveness.

| Run | Workload and faults | Bounds |
|---|---|---|
| `canopy_full` | `PlainWorkload`: every kind of call, in forms that replay alike; appends and checkpoints fail; sync 'full'; `FairSpec` | 3 logged writes, checkpoint every 2 frames |
| `canopy_long` | two kinds of write, appends and checkpoints fail, sync 'batched' | 5 writes: two checkpoints and a log behind the second |
| `canopy_disk_faults` | updates that fail half way, every fault, POSIX directory semantics, `FairSpec` | 2 writes |

**Why the bounds are enough.** The protocol distinguishes a frame that the
snapshot covers, one it does not, the last frame (torn, unsynced) and the one
in progress. With a checkpoint every two frames and three writes each of them
occurs with each other, crashes before and after a checkpoint included; five
writes add a second checkpoint over the files of the first. `MaxSeq` also
bounds the log, since a failed append may use a number again, and `MaxSlots`
bounds what failed loads pile up in memory.

**Fairness.** `FairSpec` is weak fairness of `Loading` (a client that finds the
collection closed calls it again, and the load is one synchronous call) and of
`Writing` (the steps inside one call of one thread). New writes, crashes and
shutdowns are not fair. `RecoveryCompletes` assumes that kills and power cuts
stop; it does not assume that system calls stop failing, only that the files can
be read. Deadlock is checked in every run.

### The memory collection

`memory_store` checks `MemoryStore` on the documents and calls of `MCStore`:

- `IndexHoldsLiveKeys`: each index holds exactly the keys of the live
  documents, inside the loops too; `UniqueIsUnique`: no two live documents share
  a key of a unique index.
- `CallsAreAtomic`: `MemoryStore` implements `AtomicCollection`, in which each
  write call is one step with an outcome that `MemoryCollection` gives the call
  on the collection it found, and no other step changes anything. The two are
  written independently, one from the loops with their incremental indexes and
  record ids, the other over whole documents; this is where they meet, and what
  makes `MemoryCollection` a sound basis for Canopy. The mapping shows the
  collection as the call found it until the call is done: nobody can look in
  between, since the binding is called on one thread.
- `CallInv`: the inductive invariant of the proofs, which says how far the
  collection has come at every position of every loop.
- `FindAgreesWithScan`: every plan of every query finds what a scan finds that
  is then sorted and cut by skip and limit, up to the order of documents that
  sort equal.
- `CursorReturnsOnce`, `CursorMissesNothing`: a cursor that stays open while
  documents are inserted, updated and deleted returns none twice and skips none
  that matched all the time.

**Bounds.** Three slots, one cursor (cursors share nothing), and calls that give
each kind of write and of refusal: a batch refused in the middle, an update
refused by its operator and by a unique index, an upsert, an erase of several, a
plain, a unique and a compound index made over live documents, dropped and made
again. Field `a` is absent, a number or an array of two numbers, `b` a number or
a text, so that unique, multikey, compound and mixed-type indexes all occur, and
the queries take each kind of plan: none, exact, range, compound, sorted by an
index with and without the filter's own plan, and sorted in memory. `StoreDocs`
and `StoreKeyPaths` are the documents and paths of these calls; arrays in `b`, an
index over three paths, regular expressions and ranges over arrays are in the
runs and changes of "What does not hold". `StoreIsPlain`, which TLC evaluates,
says that this workload meets the hypotheses of the proofs of `FindProofs`.
No liveness is stated: every loop ends by its counter. Deadlock is checked.

### Cursors

`cursor_service` checks `CursorService` for two readers of one engine, one over
HTTP and one in the engine's process:

- `OwnNamespace`: no reader gets a document of another namespace, though ids are
  small numbers that a new engine hands out again.
- `OwnDocumentsOnce`: while its engine lives a reader gets documents of its own
  result only, none twice, and in order if its calls do not overlap.
- `NullMeansAll`: `next()` returns null only after the whole result.
- `EntriesAreHeld`: the registry has no cursor that its reader does not know,
  or will know from an answer under way, or was told in an answer that got lost.
- `ToArrayEnds`: a `toArray()` that was begun returns or throws.

**Bounds.** Results of up to three documents in batches of one, two and none
(three setups): no batch, one full, one full and one partial, and three of them.
Two calls of one reader may overlap, and two troubles (overlaps, losses, kills,
deletions, reconfigurations, restarts) happen, so that each may meet each other
one. Two readers are what it takes to hold each other's ids. Deadlock is not
checked: programs end and stop reading.

**Fairness.** `FairSpec` has weak fairness of `Reading` for each reader (the
event loop runs a continuation that is ready; `toArray()` calls `next()` again at
once) and of `Serve` (the server answers what reached it). First calls,
overlapping calls and troubles are not fair.

### The query engine

`query_engine` checks the laws of `QueryEngine`; each relates code in two places:

| Property | What must agree |
|---|---|
| `RetriedUpsertInsertsOnce` | the document that `seed_upsert` makes of a filter of plain fields, and what `match_doc` finds |
| `NoFieldTwice` | the loop of `apply_operator_spec` over the document, and what it appends after it |
| `IncsCancel` | an `$inc` by a whole number and its opposite: over the ends of int64, and on a double if the sum need not be rounded |
| `IdsStay` | `_id` before and after every update that does not name it |
| `FilterAgreesWithExpr` | comparison, `$in`, `$and`, `$or` of the filter and of `$expr` |
| `SortIsWeakOrder` | the order among values of all types, missing ones and null, whole numbers that are doubles (`IsExact`) and all doubles |
| `GroupsPartition` | the groups of `$group`, the documents, and the counts of `$sortByCount`, for as many documents as a double can count (2^53 - 1) |
| `AccumulatorsAgree` | `$avg` as accumulator and as operator, always; `$sum` with a double in it, or while every number and running sum is a double and the sum an int64 |
| `UnwindThenGroup` | `$unwind`, its index, and `$push` |
| `ProjectionsAgree` | `$project` of names, computed `$project`, and `$unset` |
| `JoinIsSymmetric`, `LookupFormsAgree` | `$lookup` from both sides, and in its two forms |
| `ContainersAgree`, `BranchesAgree` | the operators on arrays and objects; `$cond`, `$switch`, `$ifNull` and the Boolean ones |

**Bounds.** Two writes, then two stages, of ten calls and seventeen stages, over
four documents with numbers of three types, a text, null, a Boolean, an array of
mixed types and an object. The laws apply further stages to what these make, so
pipelines of four stages occur. An int64 has five bits, and field `n` starts at
its end. A double has three: of the whole numbers, 9, 11, 13 and 15 are none, and 11,
13 and 15 are in field `n` from the start, so the premises about doubles are met by
some of the numbers and not by others, and every rounding occurs. Operators that no stage of `MCQuery` names occur in the laws. The
conditions in a law name cases in which the code differs on purpose or by fault;
section "What does not hold" lists these. `ContainersAgree` leaves out a MinKey
that an array holds, since it equals nothing, itself included, and
`LookupFormsAgree` values that evaluate to something else. The named
assumptions of `QueryEngine` say what may be chosen for the constants: calls
whose documents, filters and specifications are what the binding makes of
JavaScript objects (`CallsAssumption`), a stored collection of well-formed
documents (`OthersAssumption`), fields that are no paths (`FieldsAssumption`). TLC
evaluates them. Deadlock is checked.

### What does not hold

The runs of `CanopyClaims` state what `artifacts/storage-engine-spec.md` requires,
two runs of `MCStore` what comments of the code say, and all end with a
counterexample. They are the findings of `PROJECT.json`; none of those of Canopy
needs more than a restart:

| Run | What happens |
|---|---|
| `claim_upsert` | an upsert is replayed with a fresh ObjectId: the document has another `_id` after a restart |
| `claim_replay` | a multi-document update that fails half way stays in memory and is not logged; later updates, accepted on that memory, are logged and refused by replay: the collection does not open |
| `claim_unique_batch` | a batch refused by a unique index is logged whole, and a restart brings the refused documents in |
| `claim_unique_index` | a unique index is not unique after a snapshot and a restart |
| `claim_prefix_index` | a query that fixes the first two of an index's three paths is planned on an index over those two paths, does not find one, and returns nothing |
| `claim_cursor_twice` | a range read from a multikey index lists a document once per key; an update to a single value while the cursor is open makes each entry match |

The passing runs leave some failures out, because with them the properties
fail. Each line below is a change to `CanopyLong.cfg`, the last two to
`ClaimPrefixIndex.cfg`, and the property that TLC then finds violated:

| Change | Violated | Why |
|---|---|---|
| `Faults = {"dirsync"}` | `NothingPromisedIsLost` | a failed directory fsync is not noticed (`canopy_backend.cpp:156`) and the log is reset while the old snapshot may come back |
| `FsyncPersistsName = FALSE`, `SyncFull = TRUE` | `NothingPromisedIsLost` | a new log's directory entry is not fsynced (line 164) |
| `Faults = {"load"}` | `LiveStateIsCommitted` | an open that fails leaves its documents in memory and the next one adds them again (line 771) |
| `Faults = {"load", "append"}` | `NoStepForgets` | a reload that fails leaves an empty proxy at sequence 1 (line 751); its writes reuse numbers and its checkpoint replaces the snapshot |
| `Workload <- FailingWorkload` | `LiveStateIsCommitted` | an update that fails half way is visible and not logged (line 455) |
| `Calls <- TextCalls`, `Queries <- RegexQueries` | `FindAgreesWithScan` | a regular expression as the value of an indexed field is looked up as a key of the index (`planner.cpp:218`), and no document has it |
| `Calls <- TwoArrayCalls`, `Queries <- TwoArrayQueries` | `FindAgreesWithScan` | a document with arrays under both paths of an index is not in it (`index/manager.cpp:91`), and a query planned on that index does not find it |

The properties of `CursorService` have conditions for the same reason. Without
them TLC finds:

| Left out of | Condition | What happens |
|---|---|---|
| `NullMeansAll` | `"overlap"` | one `next()` empties the buffer while another has just filled it, and returns null with documents left |
| `NullMeansAll` | `"lost"` | the batch of a lost answer is skipped: the server has moved on and the program is not told. After a lost first request `started` stays set (`sdk/index.ts:463`), so the second `next()` returns null at once, as if the result were empty |
| `NullMeansAll` | `~StaleIds` | after a restart or reconfiguration another reader's old id names this reader's cursor, and takes batches of it |
| `NullMeansAll` | `batch > 0` | a batch size of 0 gives empty batches, and `toArray()` returns `[]` with its cursor open, where `docs.md:98` says that it "returns all matched documents" |
| `OwnDocumentsOnce` | `"replaced"` | the reader itself is the one with the old id |
| `OwnDocumentsOnce`, its order | `"overlap"` | two answers arrive in another order than they were asked (`MaxLength = 5`, batches of two) |
| `EntriesAreHeld` | `"lost"` | a cursor whose id was in a lost answer stays registered |

Two more facts about cursors follow from the source and are in no property: the SDK
never closes a cursor, so one that a program leaves stays in the registry with
its iterator; and two embedded `SavannahDB` objects of different configurations
replace each other's engine (`addon.cpp:33`), since there is one per process.

Of the query engine, the modelling met these; the model does as the code does:

| Code | What it does |
|---|---|
| `pipeline/project.cpp:112` | `$addFields` and `$set` on a field that is there append a second one; later stages read the old value. `docs.md:322`: "overrides existing fields" |
| `pipeline/group.cpp:144` | an `_id` that is an object of paths is taken for a constant and makes one group. `docs.md:234`: "Groups input documents by an `_id` expression" |
| `pipeline/group.cpp:206` | groups compare keys by bytes: int32 5 and int64 5 make two groups, though they are equal everywhere else |
| `pipeline/group.cpp:303` | `$min` and `$max` over values of several types depend on the order of the documents |
| `update.cpp:50` | an `$inc` of a double is rounded: 0.1 + 1 - 1 is 0.10000000000000009, so incrementing and decrementing does not give the number back. Above 2^53 whole doubles lose the increment altogether |
| `value.cpp:25` | an int64 is compared with a double as a double, with another int64 exactly: int64 2^53 and 2^53 + 1 both equal double 2^53 and not each other. With the three in one sort key, or one index, the order is no weak order |
| `pipeline/group.cpp:259` | `$sum` of a group adds in double, the operator (`expression.cpp:868`) in int64 unless one argument is a double: for 2^53, 1 and 1 the first gives 2^53, the second 2^53 + 2 |
| `key_order.cpp:22` | a missing field sorts with null and MinKey before null, but not before a missing field: no weak order |
| `pipeline/lookup.cpp:206` | in the pipeline of a `$lookup` every `$$name` must be bound by its `let`: `$$ROOT` and `$$CURRENT` (`docs.md:359`) throw there and are missing elsewhere, and so does a variable of a `$lookup` within it. A text bound by `let` that begins with `$` is taken for a path |
| `pipeline/dispatch.cpp:135` | `$unset` of a dotted path throws; `docs.md:330` has `"meta.secret"` as its example |
| `pipeline/unwind.cpp:23` | the comment has the document pass unchanged with index -1; the code rebuilds it with index null |
| `update.cpp:165` | a dotted name under `$set` is a field of that name, not a path (`docs.md:213`) |
| `update.cpp:184` | a field under `$set` and `$inc` stands twice afterwards |
| `update.cpp:162` | operators may change `_id`; only replacements compare it, and find equal `_id`s of type double different (line 223) |
| `update.cpp:320` | a filter with dotted paths or operators seeds a document that it does not find: the same upsert inserts again |
| `expression.cpp:466` | comparisons across types are false, not in BSON order as the comment has it; `$ne` on a missing field is true in a filter and false in `$expr` |
| `expression.cpp:868` | an int64 sum in an expression may overflow; in a group it is a double |
| `update.cpp:53` | a Boolean under `$inc` counts as 0 or 1, any other value that is no number as 0; neither is refused |
| `expression.cpp:1252` | `$arrayToObject` of a path gives null: its argument must stand in an array |

NaN, which the model leaves out, equals nothing and is neither less nor greater than
any number: of it `IncsCancel`, `SortIsWeakOrder`, `ContainersAgree` (`$in` does not
find it), the `$sum` of `AccumulatorsAgree` and, with NaN in its filter,
`RetriedUpsertInsertsOnce` do not hold.

The lines for `update.cpp:50`, `value.cpp:25` and `pipeline/group.cpp:259` are what TLC finds when the premises of `IncsCancel`,
`SortIsWeakOrder` and `AccumulatorsAgree` are dropped.

## 4. The proofs

All proofs are for every value of the constants under the modules' named
assumptions (`QueryAssumption`, `IndexAssumption`, `CanopyAssumption`,
`StoreAssumption`, `ReaderAssumption`; `BsonAssumption`, `DoublesAssumption`,
`BoundsAssumption`, `FieldsAssumption`, `OthersAssumption`, `CallsAssumption`).
`ListProofs` has what all of them use of lists and numbers.

### Canopy

**Without further conditions**: `TypeCorrect` (`CanopyProofs`), `Spec =>
[]TypeOK`, from the lemmas of `MemoryProofs` that each operation on a
collection's value yields one.

**Under `Orderly`** (`CanopyInvariant`): the workload has only calls that
`ReplaysAlike` (no unique indexes; upserts whose seed does not depend on the
ObjectId; multi-document updates that fail on no document), only appends and
checkpoints fail, and fsync persists names. Section 3 shows that each of these
conditions is needed: without it one of the properties fails.
Under them:

- `InvariantHolds`: `Spec => []Inv`
- `RecoveryIsExact`, `PromisesAreKept`, `FilesFitTogether`, `ReplayIsAccepted`:
  the four safety invariants of the runs
- `NothingIsForgotten`: `Spec => NoStepForgets`
- `CanopyKeepsContract`: `Spec => KeepsContract`

**The argument.** None of the safety properties is inductive: each speaks of
memory after a load, and what a load finds depends on files that were written
long before. `Inv` says of *every version* a power cut may bring back what the
load will need:

- `HistoryInv`: what a restart would find is within the history and includes
  what was answered.
- `DiskInv`: every log's frames have increasing numbers and each repeats its
  write when applied to the state before it (`LogInv`, `Replays`); every
  snapshot is the history at its number (`StateInv`); each pair of versions
  fits (`LogContinuesSnapshot`); while an older snapshot may come back, the
  log still reaches from it (`OldStateInv`), which is what the directory fsync
  between the two renames is for; and every pair holds what is sure (`SureInv`).
- `ClosedInv`, `ReplayInv`, `OpenInv`, `WriteInv`: how memory and the counters
  relate to the files at each `pc`; during replay memory is the history at the
  last number passed.

`CanopyProofs` shows that a frame made by `Write` satisfies `Replays`
(`ReplayRepeatsCall`), the only place where `ReplaysAlike` is used, and has the
facts about logs (last number, append, prefix) and numbers. `CanopySafetyProofs`
has one lemma per action, and one per action for the step of the contract it
takes.

### MemoryStore

`StoreProofs` has `StoreInvariantHolds` (`Spec => []StoreInv`), and from it
`StoreTypeCorrect`, `IndexesAreExact` and `UniqueIndexesAreUnique`. No condition is
needed: they hold for any calls, and for any `DocKeys`, `Matches` and
`ApplyUpdate`, so they do not depend on how keys are made of documents.

**The argument.** `IndexHoldsLiveKeys` is not inductive. `on_erase` takes out
the keys of a document *with its record id*; that these are no other document's
needs record ids to be distinct, which `RidsInOrder` gives: ids grow with the
slots and stay below `nextRid`. While `createIndex` fills an index it covers only
the slots its loop has passed (`Covered`), and the loop writes every index, not
only the new one, so the entries it repeats must be there already;
`FillingInOrder` says that the index being filled is the one asked for and that
a call that has registered none is at its start. `UniqueIsUnique` follows from
the check before each write once the index is exact, and in the fill from the
check against the slots passed. There the code looks at the name of *one*
violated index only: that it is the new one if any is needs the other
unique indexes not to be violated, which is `UniqueIsUnique` itself for them.

`StoreProofs` has `CallInvariantHolds` (`Spec => []CallInv`), `CallsMatchCollection`
(when a call is done, `CallMatchesCollection`) and the refinement
`CallsTakeEffectAtOnce` (`Spec => CallsAreAtomic`), again for any documents, calls
and `DocKeys`.

**The argument.** That a call ends with the outcome of `MemoryCollection` says
nothing of the passes before the last, so it is not inductive. `CallSoFar` says,
for each loop, what the collection is at its position in terms of `call.before`:
`insert` has grown it by the documents before its position, none of which
clashes; `update` has changed the targets before it, none of which stops it;
`erase` has deleted them; `createIndex` has at most registered its index, with
entries that `StoreInv` describes. A step of a loop is then one step of the
definitions of `MemoryCollection` (`Grow` by one more document, `UpdatedBelow` and
`ErasedBelow` at the next position). Two things make the step go through. First,
`Violated` reads index entries and `InsertClashes`, `UpdateStops` and `BuildClash`
read documents: `StoreInv` makes them agree, entry by entry, and in a fill the
entries are those of the slots passed. Second, the loops run over the *current*
slots, the operators over those of `call.before`: the slots an update has not
passed are unchanged and those it inserted lie behind `call.end`. That the outcome
is reached by *some* new ObjectId needs `Oids` to have a member, which is in
`StoreAssumption`: the code can always draw one.

`FindProofs` is about `find` and its cursors. It has the invariant
`FindInvariantHolds` (`Spec => []FindInv`), and from it `CursorsMissNothing`
(`CursorMissesNothing`), `CursorsReturnOnce` (`CursorReturnsOnce`) and
`FindsAgreeWithScan` (`FindAgreesWithScan`), for any number of slots, cursors,
indexes and calls, and any documents, filters and sort orders within
`PlainWorkload`, which `MemoryStore` defines:

| Hypothesis | What it says | Beyond it |
|---|---|---|
| `QueryLayer` | the parameters are the operators of `Documents` | |
| `PlainDocuments` | no document has arrays under two paths of one index | `TwoArrayCalls` |
| `PlainIndexes` | an index has one or two paths | `claim_prefix_index` |
| `PlainQueries` | no clause is a regular expression | `RegexQueries` |
| `RangesOverValues` | no range is asked of a path that holds arrays; not needed for `CursorsMissNothing` | `claim_cursor_twice` |

The limits are the code's: the third column names the run or the change in "What
does not hold" in which a property fails without the hypothesis. All are about
constants, and `StoreIsPlain` shows that the workload of `memory_store` meets them.

**The argument.** `FindInv` adds two things to `StoreInv`. `OrderedInv`: an index
that still has `supports_ordered_sort` covers no document with an array under its
paths, so it has one key for each document and its order is a sort order.
`CursorInv`: every open cursor is good, that is, what it returned lies behind it
and nothing comes at two places (`ReturnsOnce`), and every document that has
matched all the time was returned or lies ahead (`MissesNothing`). TLC checked
`FindInv` on the workload of `memory_store` before it was proved.

What makes a cursor good when it is opened is that the list its plan reads holds
every match: the clauses a plan reads are clauses of the filter
(`PlanReadsClauses`), a document that matches them has a key in what the plan
reads (`MatchHasKey`, `MatchInRange`), and the index holds it (`StoreInv`). Writes
keep it good because slots are never moved or reused and keep their record ids,
and because the documents that a write unmatches leave `steady` in the same step.
That `find` agrees with a scan is shown through `IsAnswer`: all that matches, each
once, in sort order. Every plan, sorted or not, returns a cut of an answer
(`FindAnswers`), the scan does (`ReferenceAnswers`), and two answers have the same
length and sort alike at each place (`AnswersAgree`): the first i documents of one
cannot all lie among the first i - 1 of the other.

### CursorService

`CursorProofs` has `CursorInvariantHolds` (`Spec => []CursorInv`), and from it
`CursorTypeCorrect`, `ReadersKeepTheirNamespace`, `DocumentsComeOnce` and
`NoForgottenCursor`: for any number of readers, overlapping calls, batch sizes,
lengths and troubles, under `ReaderAssumption` only.

**The argument.** That a document comes once depends on where it was before:
in an iterator of the registry, in an answer under way, in a buffer.
`CursorInv` says of each reader that these places hold increasing documents of
its own, none in two of them and none of them among those returned
(`ReaderInv`), that at most one entry of the registry is its own, and that the
ids it names, in its fields and requests, are of that entry, as long as the
engine was not replaced. `ReaderInv` is stated of values, not variables, so that
serving, asking and receiving are each a lemma about values; a call in embedded
mode is the three of them at once. `OwnNamespace` needs nothing of this: it
follows from entries and answers carrying documents of their namespace, which
`borrow` compares, whatever the ids name.

`NullIsTheEnd` (`Spec => []NullMeansAll`) rests on a second invariant,
`ResultInv`, over `CursorInv`. It is about the readers that `NullMeansAll` is about
(`Calm`: no answer lost, no calls overlapping, engine not replaced, batches not
empty), and a mishap stays, so a calm reader has been calm all along. What such a
reader got is an initial piece of its result (`Behind`); its buffer continues
it, an answer under way continues both, and the iterator in the registry
continues whichever came last (`RestInv`). The id 0 is known, in a field or an
answer, only where the result is complete. `next()` asks once and answers `null`
if its buffer is still empty, so the last conjunct of `WholeInv` is needed: a call
that was woken up with a cursor still open finds a document, because the engine
gives an id only with a batch that is not empty.
`got[r]` is then the whole result because `EndedInv` says that a reader that was
told null stands behind its buffer with the id 0.

### The query engine

`QueryProofs` states fourteen of the fifteen properties of `query_engine` as
theorems of `Spec`, for any calls, stages, documents, probes and fields, any
width of an int64, any precision, unit and range of a double, and streams, arrays, objects and pipelines of any length.

| Theorem | Property | Hypotheses |
|---|---|---|
| `RetryOfUpsertInsertsOnce` | `RetriedUpsertInsertsOnce` | |
| `NoFieldComesTwice` | `NoFieldTwice` | |
| `IncsDoCancel` | `IncsCancel` | |
| `EveryIdStays` | `IdsStay` | |
| `SortingIsWeakOrder` | `SortIsWeakOrder` | |
| `ProjectionsDoAgree` | `ProjectionsAgree` | |
| `BranchesDoAgree` | `BranchesAgree` | `ValuesClosed` |
| `FilterDoesAgreeWithExpr` | `FilterAgreesWithExpr` | `ValuesClosed`, `FiltersClosed` |
| `LookupFormsDoAgree` | `LookupFormsAgree` | `ValuesClosed`, `PipelinesClosed`, `SubstitutionsClosed` |
| `GroupingPartitions` | `GroupsPartition` | stream well formed |
| `JoinsAreSymmetric` | `JoinIsSymmetric` | stream well formed |
| `UnwindingIsUndone` | `UnwindThenGroup` | stream well formed, `ValuesClosed` |
| `AccumulatorsDoAgree` | `AccumulatorsAgree` | stream well formed, `ValuesClosed` |
| `ContainersDoAgree` | `ContainersAgree` | stream well formed, `ValuesClosed` |

The hypotheses named `...Closed` say of the constant operators of section 2 what
`Query.cfg` makes of them, and nothing else; they are there because the module
system has no recursive definition the prover could use. *Stream well formed* is
`IsStream(docs)`: the theorem is `Spec => [](IsStream(docs) => ...)`. That streams
are well formed is a conjunct of `TypeOK`, which TLC checks. Proving it would take
an induction over expressions, for what they evaluate to, and over pipelines
within pipelines.

Two more theorems are about the operators alone: `SortLessIsWeakOrder`, the order
of documents for any sort specification, which `std::stable_sort` needs to be
defined, and `SortIsStable`: what comes out of a sort is a permutation of
what went in, ordered, and alike documents in the order they came in.

**The argument.** The laws of updates rest on an inductive invariant, `IsStored`:
a collection's slots are below its end and its documents are lists of fields
with values, numbers within the width of their type. It holds through the loops
of `MemoryCollection` because `ApplyUpdate` and `SeedUpsert` keep it; without it
`IncsCancel` fails, since taking back a sum that wrapped needs the number to have
been within the width, and the document an upsert inserts could take the slot of
another one. The other laws hold of every stream, so each is a
theorem about operators. Their proofs follow the loops: `LeastNumber` and
`HoldsUpTo` of `ListProofs` give induction over positions in a form the provers
take (the least position at which a statement fails), and `LoopStates` the states
of a loop that is a recursive function. With them an object that is put together from its own entries is itself, and
the counts of groups add up to the stream. Of rounding they need only
that it gives a double and leaves a double alone (`RoundedIsDouble`), and that
the conversion of an exact number loses nothing, so that comparing it keeps the
order of the numbers (`ComparesNumbers`); `AccumulatorsAgree` follows the running
sums, `SumsAgree` where none is rounded. `SortIsWeakOrder` comes from
comparison within a type being a total order and the rank of types separating
the rest; the absent, which sorts with null, is why MinKey has to be left out.
`LookupFormsAgree` follows a pipeline of one `$match` through substitution: the
filter that comes out compares with the value itself, and on values that are
neither arrays nor null that comparison is the one of the join.

What the proofs found. `ContainersAgree` and `LookupFormsAgree` were false beyond
the values of the run: an array with a MinKey in it does not find it by `$in`, and
a value bound by `let` is evaluated again where it is put in. Both have a
premise for it now. The rest of the assumptions on constants were found in
the same way: the proofs would not go through without them, and states that
break them are no states of the program.

### What is only model-checked

Liveness (`CallReturns`, `RecoveryCompletes`, `ToArrayEnds`), since the prover does
not reason about fairness and ENABLED; every Canopy run outside `Orderly`; and
`TypeOK` of `query_engine`, an induction over values to any depth, which is why it
stands in a module of its own with RECURSIVE operators.

## 5. Plan

Done: Canopy, its contract and its proofs; the memory collection with its
indexes, plans and cursors, and the proofs of its indexes, calls, plans and
cursors; client cursors and their proofs; the query engine, its laws and their
proofs. Left, in this order:

1. Reload of a Canopy collection under open cursors (`clear_for_reload`), as a
   composition of `MemoryStore` with the reload steps of `CanopyCollection`.
2. Dates, NaN and the infinities in `Bson`, and array positions in paths.

**Not modelled, and why.** The operators of expressions on characters and
numbers beyond sums: each stands alone, and unit tests reach it. Conversion
between JavaScript and BSON in the binding, and the memory layout of arena and
BSON views: byte formats without a protocol. Authentication, body limits and the
routes of writes in the server, and the calls of `SDKCollection`: one request,
one call. The Canopy storage root: directories made once. Scripts, artifacts
and CI.
