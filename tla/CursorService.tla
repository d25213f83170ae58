---------------------------- MODULE CursorService ----------------------------
(***************************************************************************)
(* Cursors of the SDK reading from an engine: in the same process, or over *)
(* HTTP through the server (server/src/sdk/index.ts, server/src/server/    *)
(* index.ts, on the calls of CursorRegistry).                              *)
(*                                                                         *)
(* A reader is one Cursor object.  Its program calls next() until that     *)
(* returns null, as toArray() does, but may also start a next() before the *)
(* last one has returned, call again after an error, or stop reading.      *)
(* JavaScript runs one step at a time; next() lets go at every await.      *)
(***************************************************************************)
EXTENDS CursorRegistry

CONSTANTS
  Readers,     \* the Cursor objects
  Local,       \* those of the engine's own process (embedded mode)
  Namespaces,  \* database and collection of a reader
  Setups,      \* what the readers may be made with: their namespaces and batch sizes
  Configs,     \* configurations that a SavannahDB object may ask for
  Calls,       \* names for the next() calls of a reader that overlap
  MaxLength,   \* bound: documents in the result of a find
  MaxTroubles  \* bound: overlapping calls, lost requests, and what others do to the
               \* engine, counted together

ASSUME ReaderAssumption ==
  /\ Local \subseteq Readers
  /\ Setups \subseteq [Readers -> [ns : Namespaces, batch : Nat]]
  /\ FromEnvironment \notin Configs
  /\ MaxLength \in Nat /\ MaxTroubles \in Nat

VARIABLES
  engine,  \* g_engine with its registry
  sdk,     \* the fields of the Cursor objects
  calls,   \* the next() calls in progress, and their requests and answers
  state,   \* what became of each reader's program
  got,     \* the documents next() returned, in order
  length,  \* history: documents in the result of each reader's find
  mishaps, \* history: what happened to each reader
  troubles \* how many troubles there have been

vars == <<engine, sdk, calls, state, got, length, mishaps, troubles>>

Mishaps ==
  {"overlap",   \* a next() began before the last one had returned
   "lost",      \* a request failed on its way, or its answer did
   "replaced"}  \* the engine was replaced while the cursor was in use

States ==
  {"unread", "reading",
   "ended",     \* next() returned null
   "failed",    \* next() threw
   "left"}      \* the program stopped reading

(* Where a next() is: not called, its request or the answer under way, or   *)
(* behind an await that is over.                                            *)
Idle == [at |-> "idle", for |-> "none", id |-> Exhausted, reply |-> Refusal]
Asked(for, id) == [at |-> "asked", for |-> for, id |-> id, reply |-> Refusal]

Trouble == troubles < MaxTroubles /\ troubles' = troubles + 1

-----------------------------------------------------------------------------
(* A request in the engine.                                                 *)

Unknown == -1   \* no find yet, or one that the engine refused

(* What the engine may do with a request; a find has a result of some length, *)
(* or throws.                                                                 *)
Outcomes(r, for, id) ==
  IF for = "find"
  THEN {[result |-> Find(engine, Iterator(r, 1, n), sdk[r].ns, sdk[r].batch), length |-> n] :
          n \in 0 .. MaxLength}
       \cup {[result |-> [engine |-> engine, reply |-> Refusal], length |-> Unknown]}
  ELSE {[result |-> GetMore(engine, id, sdk[r].ns, sdk[r].batch), length |-> length[r]]}

Served(r, o) ==
  /\ engine' = o.result.engine
  /\ length' = [length EXCEPT ![r] = o.length]

(* The end of start() or fetchMore(): the buffer is set, the position stays. *)
Filled(s, reply) == [s EXCEPT !.id = reply.id, !.buffer = reply.docs]

(* start() and fetchMore() empty the buffer before they ask. *)
Emptied(s) ==
  [ns |-> s.ns, batch |-> s.batch, started |-> TRUE, id |-> s.id, buffer |-> <<>>, index |-> 0]

(* Ask for the first or the next batch.  In embedded mode the engine is      *)
(* called at once, and the await that follows ends later.                    *)
Ask(r, k, for) ==
  LET s == Emptied(sdk[r])
  IN  IF r \in Local
      THEN \E o \in Outcomes(r, for, s.id) :
             /\ Served(r, o)
             /\ IF o.result.reply.ok
                THEN /\ sdk' = [sdk EXCEPT ![r] = Filled(s, o.result.reply)]
                     /\ calls' = [calls EXCEPT ![r][k] = [Idle EXCEPT !.at = "woken", !.for = for]]
                     /\ state' = [state EXCEPT ![r] = "reading"]
                ELSE /\ sdk' = [sdk EXCEPT ![r] = s]
                     /\ calls' = [calls EXCEPT ![r][k] = Idle]
                     /\ state' = [state EXCEPT ![r] = "failed"]
             /\ UNCHANGED got
      ELSE /\ sdk' = [sdk EXCEPT ![r] = s]
           /\ calls' = [calls EXCEPT ![r][k] = Asked(for, s.id)]
           /\ state' = [state EXCEPT ![r] = "reading"]
           /\ UNCHANGED <<engine, length, got>>

(* next() from the point where the cursor has started; behind a fetchMore()  *)
(* it does not ask again.                                                    *)
Proceed(r, k, mayAsk) ==
  LET s == sdk[r]
  IN  \/ /\ s.index < Len(s.buffer)
         /\ got' = [got EXCEPT ![r] = Append(@, s.buffer[s.index + 1])]
         /\ sdk' = [sdk EXCEPT ![r].index = @ + 1]
         /\ calls' = [calls EXCEPT ![r][k] = Idle]
         /\ state' = [state EXCEPT ![r] = "reading"]
         /\ UNCHANGED <<engine, length>>
      \/ /\ s.index >= Len(s.buffer)
         /\ mayAsk /\ s.id # Exhausted
         /\ Ask(r, k, "getMore")
      \/ /\ s.index >= Len(s.buffer)
         /\ ~mayAsk \/ s.id = Exhausted
         /\ calls' = [calls EXCEPT ![r][k] = Idle]
         /\ state' = [state EXCEPT ![r] = "ended"]
         /\ UNCHANGED <<engine, sdk, length, got>>

Call(r, k) == IF sdk[r].started THEN Proceed(r, k, TRUE) ELSE Ask(r, k, "find")

Quiet(r) == \A k \in Calls : calls[r][k] = Idle

(* next() of a program that goes on reading, as the loop of toArray() does. *)
NextCall(r, k) ==
  /\ state[r] = "reading" /\ Quiet(r)
  /\ Call(r, k)
  /\ UNCHANGED <<mishaps, troubles>>

(* The first next(), or one after an error. *)
FirstCall(r, k) ==
  /\ state[r] \in {"unread", "failed"} /\ Quiet(r)
  /\ Call(r, k)
  /\ UNCHANGED <<mishaps, troubles>>

(* A next() while another one is in progress. *)
OverlappingCall(r, k) ==
  /\ ~Quiet(r) /\ calls[r][k] = Idle
  /\ Call(r, k)
  /\ mishaps' = [mishaps EXCEPT ![r] = @ \cup {"overlap"}]
  /\ Trouble

(* Mutant: next() asks again as long as its cursor is open. *)
ResumeAsking(r, k) ==
  /\ calls[r][k].at = "woken"
  /\ Proceed(r, k, TRUE)
  /\ UNCHANGED <<mishaps, troubles>>

(* The await of a next() is over. *)
Resume(r, k) ==
  /\ calls[r][k].at = "woken"
  /\ Proceed(r, k, calls[r][k].for = "find")
  /\ UNCHANGED <<mishaps, troubles>>

(* The program stops reading; the SDK has no call to close its cursor. *)
Leave(r) ==
  /\ state[r] \in {"reading", "failed"} /\ Quiet(r)
  /\ state' = [state EXCEPT ![r] = "left"]
  /\ UNCHANGED <<engine, sdk, calls, got, length, mishaps, troubles>>

-----------------------------------------------------------------------------
(* Client mode: the server and the way to it.                               *)

Serve(r, k) ==
  /\ calls[r][k].at = "asked"
  /\ \E o \in Outcomes(r, calls[r][k].for, calls[r][k].id) :
       /\ Served(r, o)
       /\ calls' = [calls EXCEPT ![r][k].at = "answered", ![r][k].reply = o.result.reply]
  /\ UNCHANGED <<sdk, state, got, mishaps, troubles>>

Receive(r, k) ==
  /\ calls[r][k].at = "answered"
  /\ IF calls[r][k].reply.ok
     THEN /\ sdk' = [sdk EXCEPT ![r] = Filled(@, calls[r][k].reply)]
          /\ calls' = [calls EXCEPT ![r][k] = [Idle EXCEPT !.at = "woken", !.for = calls[r][k].for]]
          /\ UNCHANGED state
     ELSE /\ calls' = [calls EXCEPT ![r][k] = Idle]
          /\ state' = [state EXCEPT ![r] = "failed"]
          /\ UNCHANGED sdk
  /\ UNCHANGED <<engine, got, length, mishaps, troubles>>

(* The request or its answer is lost, and fetch() throws. *)
Lose(r, k) ==
  /\ calls[r][k].at \in {"asked", "answered"}
  /\ calls' = [calls EXCEPT ![r][k] = Idle]
  /\ state' = [state EXCEPT ![r] = "failed"]
  /\ mishaps' = [mishaps EXCEPT ![r] = @ \cup {"lost"}]
  /\ Trouble
  /\ UNCHANGED <<engine, sdk, got, length>>

-----------------------------------------------------------------------------
(* What others do to the engine.                                            *)

(* Any client of the server may kill any cursor. *)
Kill(i) ==
  /\ i \in DOMAIN engine.open
  /\ engine' = KillCursors(engine, {i})
  /\ Trouble
  /\ UNCHANGED <<sdk, calls, state, got, length, mishaps>>

(* A write takes away the last document that cursor i has ahead. *)
Shrink(i) ==
  /\ i \in DOMAIN engine.open
  /\ HasNext(engine.open[i].iter)
  /\ engine' = [engine EXCEPT !.open[i].iter.end = @ - 1]
  /\ length' = [length EXCEPT ![engine.open[i].iter.of] = @ - 1]
  /\ Trouble
  /\ UNCHANGED <<sdk, calls, state, got, mishaps>>

Replaced ==
  mishaps' = [r \in Readers |-> IF state[r] = "unread" THEN mishaps[r]
                                ELSE mishaps[r] \cup {"replaced"}]

(* Another SavannahDB object of the process is made in embedded mode. *)
Construct(config) ==
  /\ engine.config # config
  /\ engine' = Configure(engine, config)
  /\ Replaced
  /\ Trouble
  /\ UNCHANGED <<sdk, calls, state, got, length>>

(* The process of the engine restarts; its own readers are gone. *)
Restart ==
  /\ engine' = NewEngine(FromEnvironment)
  /\ Replaced
  /\ Trouble
  /\ calls' = [r \in Readers |-> IF r \in Local THEN [k \in Calls |-> Idle] ELSE calls[r]]
  /\ state' = [r \in Readers |-> IF r \in Local THEN "left" ELSE state[r]]
  /\ UNCHANGED <<sdk, got, length>>

-----------------------------------------------------------------------------

Fresh(setup) ==
  [ns |-> setup.ns, batch |-> setup.batch, started |-> FALSE, id |-> Exhausted, buffer |-> <<>>, index |-> 0]

Init ==
  /\ engine = NewEngine(FromEnvironment)
  /\ \E setup \in Setups : sdk = [r \in Readers |-> Fresh(setup[r])]
  /\ calls = [r \in Readers |-> [k \in Calls |-> Idle]]
  /\ state = [r \in Readers |-> "unread"]
  /\ got = [r \in Readers |-> <<>>]
  /\ length = [r \in Readers |-> Unknown]
  /\ mishaps = [r \in Readers |-> {}]
  /\ troubles = 0

Reading(r) == \E k \in Calls : NextCall(r, k) \/ Resume(r, k) \/ Receive(r, k)

Next ==
  \/ \E r \in Readers, k \in Calls :
       \/ NextCall(r, k) \/ FirstCall(r, k) \/ OverlappingCall(r, k) \/ Resume(r, k)
       \/ Serve(r, k) \/ Receive(r, k) \/ Lose(r, k)
  \/ \E r \in Readers : Leave(r)
  \/ \E i \in DOMAIN engine.open : Kill(i) \/ Shrink(i)
  \/ \E config \in Configs : Construct(config)
  \/ Restart

Spec == Init /\ [][Next]_vars

(* The event loop runs what can run, and the server answers what it is asked. *)
FairSpec ==
  /\ Spec
  /\ \A r \in Readers : WF_vars(Reading(r)) /\ WF_vars(\E k \in Calls : Serve(r, k))

-----------------------------------------------------------------------------
(* Properties.                                                              *)

Documents == Readers \X Nat
Ids == Nat

(* An engine whose open cursors have ids that were handed out. *)
IsEngine(e) ==
  /\ e = [config |-> e.config, nextId |-> e.nextId, open |-> e.open]
  /\ e.config \in Configs \cup {FromEnvironment}
  /\ e.nextId \in Nat \ {Exhausted}
  /\ DOMAIN e.open \subseteq FirstId .. e.nextId - 1
  /\ \A i \in DOMAIN e.open :
       /\ e.open[i] \in [iter : [of : Readers, at : Nat \ {0}, end : Nat], ns : Namespaces]
       /\ e.open[i].iter.at <= e.open[i].iter.end + 1

(* Every variable has the shape the code gives it. *)
TypeOK ==
  /\ IsEngine(engine)
  /\ troubles \in Nat
  /\ sdk \in [Readers -> [ns : Namespaces, batch : Nat, started : BOOLEAN, id : Ids,
                           buffer : Seq(Documents), index : Nat]]
  /\ calls \in [Readers -> [Calls -> [at : {"idle", "asked", "answered", "woken"},
                                      for : {"none", "find", "getMore"}, id : Ids,
                                      reply : [ok : BOOLEAN, docs : Seq(Documents), id : Ids]]]]
  /\ state \in [Readers -> States]
  /\ got \in [Readers -> Seq(Documents)]
  /\ length \in [Readers -> Int]
  /\ mishaps \in [Readers -> SUBSET Mishaps]

(* A reader gets documents of its own namespace only, though cursor ids are  *)
(* small numbers that a restarted or reconfigured engine hands out again:    *)
(* borrow() compares the namespace.                                          *)
OwnNamespace ==
  \A r \in Readers : \A i \in DOMAIN got[r] : sdk[got[r][i][1]].ns = sdk[r].ns

(* While its engine lives a reader gets documents of its own result only and *)
(* none twice, however its calls overlap and whatever answers are lost; and  *)
(* as long as its calls do not overlap it gets them in order.                *)
OwnDocumentsOnce ==
  \A r \in Readers :
    "replaced" \notin mishaps[r] =>
      \A i, j \in DOMAIN got[r] :
        /\ got[r][i][1] = r
        /\ got[r][i] = got[r][j] => i = j
        /\ "overlap" \notin mishaps[r] /\ i < j => got[r][i][2] < got[r][j][2]

(* Whether a reader of the namespace may hold an id of an engine that is gone, *)
(* which may name the cursor of another reader by now.                         *)
StaleIds(ns) == \E q \in Readers : sdk[q].ns = ns /\ "replaced" \in mishaps[q]

(* next() returns null only after every document of the result, whatever the *)
(* batch size, the other readers, killed cursors and documents deleted       *)
(* meanwhile: if no mishap befell the reader, its batches are not empty, and *)
(* nobody reads with the id of an engine before.                             *)
NullMeansAll ==
  \A r \in Readers :
    /\ state[r] = "ended" /\ mishaps[r] = {} /\ ~StaleIds(sdk[r].ns)
    /\ sdk[r].batch > 0
    => got[r] = [i \in 1 .. length[r] |-> <<r, i>>]

(* The registry keeps no cursor that its reader does not know of, save the   *)
(* one whose answer was lost: natural exhaustion erases the entry.           *)
EntriesAreHeld ==
  \A i \in DOMAIN engine.open :
    LET r == engine.open[i].iter.of
    IN  \/ sdk[r].id = i
        \/ \E k \in Calls : calls[r][k].at = "answered" /\ calls[r][k].reply.id = i
        \/ "lost" \in mishaps[r]

(* A toArray() that was begun returns or throws. *)
ToArrayEnds ==
  \A r \in Readers : state[r] = "reading" ~> state[r] # "reading"
=============================================================================
