-------------------------- MODULE CanopyCollection --------------------------
(***************************************************************************)
(* One durable collection of the Canopy backend                            *)
(* (core/src/storage/canopy_backend.cpp): a collection in memory, a log of *)
(* operations appended to on every write, a snapshot that replaces the log *)
(* once it has grown, and the load that rebuilds memory from the two.      *)
(*                                                                         *)
(* Writes hold write_mutex_, so one is in progress at a time; it is cut    *)
(* into the steps between which a crash leaves different files behind.     *)
(* Files are what the kernel shows the process; beside them is what a      *)
(* power cut may bring back: an unsynced log suffix may go, and a file may *)
(* return to one of the versions its name had since the last directory     *)
(* fsync.                                                                  *)
(***************************************************************************)
EXTENDS MemoryCollection, FiniteSets

CONSTANTS
  Workload,          \* the write calls clients make
  SyncFull,          \* SyncPolicy::Full (TRUE) or SyncPolicy::Batched (FALSE)
  CheckpointFrames,  \* kCheckpointBytes, counted in frames
  FsyncPersistsName, \* fsync of a file also makes its directory entry durable
  Faults,            \* the system calls that may fail: see FaultKinds
  MaxSeq,            \* bound: no write starts after this many logged writes,
                     \*   or on a log of this many frames
  MaxSlots           \* bound: no open over what failed loads left in more slots

FaultKinds == {"append",   \* appending a frame to the log, or syncing it
               "snapshot", \* writing the snapshot or the fresh log
               "dirsync",  \* opening or syncing a directory after a rename
               "load"}     \* reading the files back, or cutting a torn tail

ASSUME CanopyAssumption ==
  /\ Workload \subseteq Requests
  /\ SyncFull \in BOOLEAN
  /\ FsyncPersistsName \in BOOLEAN
  /\ CheckpointFrames \in Nat \ {0}
  /\ MaxSeq \in Nat
  /\ MaxSlots \in Nat
  /\ Faults \subseteq FaultKinds

VARIABLES
  \* The process.
  pc,         \* where the collection is, see PcValues
  mem,        \* inner_
  nextSeq,    \* next_log_seq_
  cp,         \* last_checkpoint_seq_
  pending,    \* pending_bytes_, in frames
  logFile,    \* log_file_ is open
  frame,      \* the frame of the write in progress
  cur,        \* load_from_log: how many frames of the log it has passed
  reloading,  \* the load was started by reload_from_durable_state
  \* The files.
  log,        \* ops.bin
  oldLogs,    \* what a power cut may put in the place of ops.bin
  state,      \* state.bin
  oldStates,  \* what a power cut may put in the place of state.bin
  \* History.
  hist,       \* hist[n + 1]: memory after the logged write n
  kept,       \* the last write a killed process may not lose
  sure        \* the last write a power cut may not lose

proc == <<pc, mem, nextSeq, cp, pending, logFile, frame, cur, reloading>>
disk == <<log, oldLogs, state, oldStates>>
ghost == <<hist, kept, sure>>
vars == <<proc, disk, ghost>>

PcValues == {"closed",     \* no proxy: the collection is not open
             "load",       \* load_from_state is next
             "replay",     \* the loop of load_from_log
             "idle",       \* open, no write in progress
             "append",     \* memory is changed, the frame is not written
             "sync",       \* the frame is with the kernel, its fsync is next
             "snapshot",   \* checkpoint(): the new state.bin is next
             "stateSync",  \* state.bin renamed, its directory not synced
             "reset",      \* reset_log(): the empty log is next
             "logSync"}    \* ops.bin renamed, its directory not synced

Frames == [seq : Nat, first : Nat, req : Requests]
NoFrame == [seq |-> 0]

(* A log file: its whole frames, how many of them are on the device, and     *)
(* what follows them: nothing, part of a frame, or frames behind such a part. *)
NoLog == [made |-> FALSE, frames |-> <<>>, synced |-> 0, tail |-> "clean"]
EmptyLog == [made |-> TRUE, frames |-> <<>>, synced |-> 0, tail |-> "clean"]

NoState == [made |-> FALSE, cp |-> 0, mem |-> Fresh]

-----------------------------------------------------------------------------
(* The effect of a call on memory, and of its frame when it is replayed.    *)

(* Mutant: update() without its early return. *)
LogsFailedUpdates(m, w, result) ==
  w.op \in {"insert", "update"} \/ (result.err = 0 /\ result.mem # m)

(* An insert is logged whatever became of it, an update unless it failed,   *)
(* the others if they changed something.                                    *)
IsLogged(m, w, result) ==
  CASE w.op = "insert" -> TRUE
    [] w.op = "update" -> result.err = 0
    [] OTHER -> result.err = 0 /\ result.mem # m

Redo(m, f, oid) ==
  IF f.req.op = "insert"
  THEN [mem |-> RestoreRecords(m, f.first, f.req.docs), err |-> 0]
  ELSE Exec(m, f.req, oid)

(* Only a replayed update is checked for an error. *)
IsRefused(f, result) == f.req.op = "update" /\ result.err # 0

(* The first n elements of a sequence, or all of them. *)
Prefix(s, n) == SubSeq(s, 1, IF n < Len(s) THEN n ELSE Len(s))

-----------------------------------------------------------------------------
(* Opening: collection() makes a proxy and load_from_log fills the memory   *)
(* collection, which is empty unless an earlier load of it failed.          *)

(* The members of a proxy that does not exist, or has just been made. *)
NoProxy ==
  /\ nextSeq' = 1 /\ cp' = 0 /\ pending' = 0 /\ logFile' = FALSE
  /\ frame' = NoFrame /\ cur' = 0 /\ reloading' = FALSE

Open ==
  /\ pc = "closed"
  /\ mem.end <= MaxSlots
  /\ pc' = "load"
  /\ UNCHANGED <<mem, nextSeq, cp, pending, logFile, frame, cur, reloading, disk, ghost>>

(* load_from_state, then ensure_log_header. *)
LoadState ==
  /\ pc = "load"
  /\ pc' = "replay"
  /\ IF state.made
     THEN cp' = state.cp /\ nextSeq' = state.cp + 1 /\ mem' = LoadSnapshot(mem, state.mem)
     ELSE UNCHANGED <<cp, nextSeq, mem>>
  /\ IF log.made THEN UNCHANGED <<log, oldLogs>>
     ELSE /\ log' = EmptyLog
          /\ oldLogs' = IF FsyncPersistsName THEN {} ELSE oldLogs \cup {log}
  /\ UNCHANGED <<pending, logFile, frame, cur, reloading, state, oldStates, ghost>>

(* Mutant: a reload that fails is tried again. *)
LoadRetries ==
  /\ IF reloading
     THEN pc' = "load" /\ cur' = 0
          /\ UNCHANGED <<nextSeq, cp, pending, logFile, frame, reloading>>
     ELSE pc' = "closed" /\ NoProxy
  /\ UNCHANGED <<disk, ghost>>

(* The error reaches the caller.  collection() drops the proxy but not the  *)
(* memory collection it filled; a reload leaves the proxy where it is.      *)
LoadThrows ==
  /\ IF reloading
     THEN pc' = "idle" /\ cur' = 0 /\ reloading' = FALSE
          /\ UNCHANGED <<nextSeq, cp, pending, logFile, frame>>
     ELSE pc' = "closed" /\ NoProxy
  /\ UNCHANGED <<disk, ghost>>

(* One frame: skipped if the snapshot has it, otherwise applied. *)
ReplayFrame(oid) ==
  /\ pc = "replay"
  /\ cur < Len(log.frames)
  /\ LET f == log.frames[cur + 1]
         result == Redo(mem, f, oid)
     IN  /\ f.seq > cp => ~IsRefused(f, result)
         /\ mem' = IF f.seq > cp THEN result.mem ELSE mem
         /\ nextSeq' = IF f.seq >= nextSeq THEN f.seq + 1 ELSE nextSeq
  /\ cur' = cur + 1
  /\ UNCHANGED <<pc, cp, pending, logFile, frame, reloading, disk, ghost>>

(* "Canopy replayed update failed": the load ends with an error. *)
ReplayRefused(oid) ==
  /\ pc = "replay"
  /\ cur < Len(log.frames)
  /\ LET f == log.frames[cur + 1]
         result == Redo(mem, f, oid)
     IN  /\ f.seq > cp
         /\ IsRefused(f, result)
         /\ mem' = result.mem
  /\ LoadThrows

(* Every frame is passed and a partial one is cut off.  The history ends    *)
(* with the last write that was recovered.                                  *)
FinishLoad ==
  /\ pc = "replay"
  /\ cur = Len(log.frames)
  /\ pc' = "idle"
  /\ log' = [log EXCEPT !.tail = "clean"]
  /\ hist' = Prefix(hist, nextSeq)
  /\ kept' = IF nextSeq - 1 > kept THEN nextSeq - 1 ELSE kept
  /\ cur' = 0 /\ reloading' = FALSE
  /\ UNCHANGED <<mem, nextSeq, cp, pending, logFile, frame, oldLogs, state, oldStates, sure>>

(* Mutant: a torn tail is refused as a malformed frame. *)
TornIsMalformed ==
  /\ pc = "replay"
  /\ cur = Len(log.frames)
  /\ log.tail # "clean"
  /\ UNCHANGED mem
  /\ LoadThrows

(* Frames written behind a partial one are read as its payload.  Their      *)
(* sizes do not add up: the load gives up, or cuts all of them (FinishLoad). *)
(* That it may also take the bytes for a document is left out.              *)
ReplayMalformed ==
  /\ pc = "replay"
  /\ cur = Len(log.frames)
  /\ log.tail = "buried"
  /\ UNCHANGED mem
  /\ LoadThrows

(* A file cannot be read, or a partial frame cannot be cut off. *)
LoadFails ==
  /\ "load" \in Faults
  /\ \/ pc = "load"
     \/ pc = "replay" /\ cur = 0
     \/ pc = "replay" /\ cur = Len(log.frames) /\ log.tail # "clean"
  /\ UNCHANGED mem
  /\ LoadThrows

-----------------------------------------------------------------------------
(* A write call: memory changes first.  What is not logged returns at once. *)

Write(w, oid) ==
  /\ pc = "idle"
  /\ nextSeq <= MaxSeq /\ Len(log.frames) < MaxSeq
  /\ LET result == Exec(mem, w, oid)
     IN  /\ mem' = result.mem
         /\ IF IsLogged(mem, w, result)
            THEN /\ pc' = "append"
                 /\ frame' = [seq |-> nextSeq, first |-> mem.next, req |-> w]
                 /\ nextSeq' = nextSeq + 1
                 /\ hist' = Append(Prefix(hist, nextSeq), result.mem)
            ELSE UNCHANGED <<pc, frame, nextSeq, hist>>
  /\ UNCHANGED <<cp, pending, logFile, cur, reloading, disk, kept, sure>>

(* The log with the frame in progress at its end; behind a partial frame it *)
(* can never be read.                                                       *)
WithFrame(l) == IF l.tail = "clean" THEN [l EXCEPT !.frames = Append(@, frame)]
                ELSE [l EXCEPT !.tail = "buried"]

(* The call returns: the sync policy's promise now covers the write. *)
Return ==
  /\ pc' = "idle"
  /\ frame' = NoFrame
  /\ kept' = nextSeq - 1

Promise(n) == sure' = IF SyncFull THEN n ELSE sure

(* maybe_checkpoint: compares what the log has grown by. *)
Appended ==
  /\ pending' = pending + 1
  /\ IF pending + 1 >= CheckpointFrames
     THEN pc' = "snapshot" /\ UNCHANGED <<frame, kept, sure>>
     ELSE Return /\ Promise(nextSeq - 1)
  /\ UNCHANGED <<mem, nextSeq, cp, cur, reloading, state, oldStates, hist>>

(* fwrite and fflush: the frame is with the kernel. *)
AppendFrame ==
  /\ pc = "append"
  /\ logFile' = TRUE
  /\ log' = WithFrame(log)
  /\ UNCHANGED oldLogs
  /\ IF SyncFull
     THEN /\ pc' = "sync"
          /\ UNCHANGED <<mem, nextSeq, cp, pending, frame, cur, reloading, state, oldStates, ghost>>
     ELSE Appended

(* Mutant: sync_log_locked flushes and does not fsync. *)
FlushFrame ==
  /\ pc = "sync"
  /\ UNCHANGED <<log, oldLogs, logFile>>
  /\ Appended

SyncFrame ==
  /\ pc = "sync"
  /\ log' = [log EXCEPT !.synced = Len(log.frames)]
  /\ oldLogs' = IF FsyncPersistsName THEN {} ELSE oldLogs
  /\ UNCHANGED logFile
  /\ Appended

(* Mutant: reload_from_durable_state without clear_for_reload. *)
ReloadOverMemory ==
  /\ pc' = "load"
  /\ cp' = 0 /\ nextSeq' = 1 /\ pending' = 0 /\ reloading' = TRUE
  /\ logFile' = FALSE /\ frame' = NoFrame
  /\ UNCHANGED <<mem, cur, oldLogs, state, oldStates, ghost>>

(* reload_from_durable_state: forget memory and load again. *)
Reload ==
  /\ pc' = "load"
  /\ mem' = Fresh
  /\ cp' = 0 /\ nextSeq' = 1 /\ pending' = 0 /\ reloading' = TRUE
  /\ logFile' = FALSE /\ frame' = NoFrame
  /\ UNCHANGED <<cur, oldLogs, state, oldStates, ghost>>

(* The append fails with none, part or (fclose writes the rest of the       *)
(* buffer) all of the frame in the log; the fsync fails with all of it.     *)
AppendFails ==
  /\ "append" \in Faults
  /\ \/ pc = "append" /\ log' \in {log, WithFrame(log),
                                   [log EXCEPT !.tail = IF @ = "clean" THEN "torn" ELSE "buried"]}
     \/ pc = "sync" /\ log' = log
  /\ Reload

-----------------------------------------------------------------------------
(* The checkpoint.  Its temporary files are never read, so writing one has  *)
(* no effect before its rename.  A failure is swallowed: the write returns. *)

(* Mutant: the snapshot claims one write less than it holds. *)
RenameStateShort ==
  /\ pc = "snapshot"
  /\ pc' = "stateSync"
  /\ state' = [made |-> TRUE, cp |-> nextSeq - 2, mem |-> mem]
  /\ oldStates' = oldStates \cup {state}
  /\ UNCHANGED <<mem, nextSeq, cp, pending, logFile, frame, cur, reloading, log, oldLogs, ghost>>

RenameState ==
  /\ pc = "snapshot"
  /\ pc' = "stateSync"
  /\ state' = [made |-> TRUE, cp |-> nextSeq - 1, mem |-> mem]
  /\ oldStates' = oldStates \cup {state}
  /\ UNCHANGED <<mem, nextSeq, cp, pending, logFile, frame, cur, reloading, log, oldLogs, ghost>>

(* Mutant: no directory fsync after a rename. *)
SkipDirectory == UNCHANGED <<oldStates, oldLogs>>

(* The directory fsync of atomic_replace_file covers both names in it; when *)
(* it fails, nobody looks.                                                  *)
SyncDirectory ==
  \/ oldStates' = {} /\ oldLogs' = {}
  \/ "dirsync" \in Faults /\ UNCHANGED <<oldStates, oldLogs>>

SyncStateName ==
  /\ pc = "stateSync"
  /\ SyncDirectory
  /\ pc' = "reset"
  /\ cp' = nextSeq - 1
  /\ pending' = 0
  /\ logFile' = FALSE
  /\ sure' = nextSeq - 1
  /\ UNCHANGED <<mem, nextSeq, frame, cur, reloading, log, state, hist, kept>>

RenameLog ==
  /\ pc = "reset"
  /\ pc' = "logSync"
  /\ log' = EmptyLog
  /\ oldLogs' = oldLogs \cup {log}
  /\ UNCHANGED <<mem, nextSeq, cp, pending, logFile, frame, cur, reloading, state, oldStates, ghost>>

SyncLogName ==
  /\ pc = "logSync"
  /\ SyncDirectory
  /\ Return /\ Promise(nextSeq - 1)
  /\ UNCHANGED <<mem, nextSeq, cp, pending, logFile, cur, reloading, log, state, hist>>

CheckpointFails ==
  /\ "snapshot" \in Faults
  /\ pc \in {"snapshot", "reset"}
  /\ Return /\ Promise(nextSeq - 1)
  /\ UNCHANGED <<mem, nextSeq, cp, pending, logFile, cur, reloading, disk, hist>>

-----------------------------------------------------------------------------
(* The end of a process and of the machine.                                 *)

(* The destructor of the proxy: sync the log if it is open, best effort,    *)
(* and close it.                                                            *)
Shutdown ==
  /\ pc = "idle"
  /\ pc' = "closed" /\ mem' = Fresh
  /\ \/ /\ logFile
        /\ log' = [log EXCEPT !.synced = Len(log.frames)]
        /\ oldLogs' = IF FsyncPersistsName THEN {} ELSE oldLogs
        /\ sure' = nextSeq - 1
     \/ /\ logFile => "append" \in Faults
        /\ UNCHANGED <<log, oldLogs, sure>>
  /\ NoProxy
  /\ UNCHANGED <<state, oldStates, hist, kept>>

(* The process is killed: the kernel keeps its files.  A frame being        *)
(* written may be there in part.                                            *)
Kill ==
  /\ pc' = "closed" /\ mem' = Fresh /\ NoProxy
  /\ \/ log' = log
     \/ /\ pc = "append" /\ log.tail = "clean"
        /\ log' = [log EXCEPT !.tail = "torn"]
  /\ UNCHANGED <<oldLogs, state, oldStates, ghost>>

(* What is left of a log of which the first n frames reached the device. *)
CutLogs(l, n) ==
  {[made |-> l.made, frames |-> SubSeq(l.frames, 1, n), synced |-> n, tail |-> t] :
     t \in IF n < Len(l.frames) THEN {"clean", "torn"}
           ELSE {"clean", l.tail} \cup (IF pc = "append" THEN {"torn"} ELSE {})}

(* The power goes: each name has one of its versions since the last         *)
(* directory fsync, and the log an unsynced suffix less.                    *)
PowerCut ==
  /\ pc' = "closed" /\ mem' = Fresh /\ NoProxy
  /\ \E l \in {log} \cup oldLogs : \E n \in l.synced .. Len(l.frames) : log' \in CutLogs(l, n)
  /\ state' \in {state} \cup oldStates
  /\ oldLogs' = {} /\ oldStates' = {}
  /\ kept' = sure
  /\ UNCHANGED <<hist, sure>>

-----------------------------------------------------------------------------
Init ==
  /\ pc = "closed" /\ mem = Fresh
  /\ nextSeq = 1 /\ cp = 0 /\ pending = 0 /\ logFile = FALSE
  /\ frame = NoFrame /\ cur = 0 /\ reloading = FALSE
  /\ log = NoLog /\ oldLogs = {} /\ state = NoState /\ oldStates = {}
  /\ hist = <<Fresh>> /\ kept = 0 /\ sure = 0

Loading ==
  \/ Open \/ LoadState \/ FinishLoad \/ ReplayMalformed \/ LoadFails
  \/ \E oid \in Oids : ReplayFrame(oid) \/ ReplayRefused(oid)

Writing ==
  \/ AppendFrame \/ SyncFrame \/ AppendFails
  \/ RenameState \/ SyncStateName \/ RenameLog \/ SyncLogName \/ CheckpointFails

Next ==
  \/ Loading
  \/ \E w \in Workload, oid \in Oids : Write(w, oid)
  \/ Writing
  \/ Shutdown \/ Kill \/ PowerCut

Spec == Init /\ [][Next]_vars

(* The server thread does not stop inside a call, and a client that finds   *)
(* the collection closed opens it again.                                    *)
FairSpec == Spec /\ WF_vars(Loading) /\ WF_vars(Writing)

-----------------------------------------------------------------------------
Logs == [made : BOOLEAN, frames : Seq(Frames), synced : Nat,
         tail : {"clean", "torn", "buried"}]

IsState(s) ==
  /\ s = [made |-> s.made, cp |-> s.cp, mem |-> s.mem]
  /\ s.made \in BOOLEAN /\ s.cp \in Nat /\ IsMemory(s.mem)

IsHistory(h) ==
  /\ h \in Seq({h[n] : n \in DOMAIN h})
  /\ h # <<>>
  /\ \A n \in DOMAIN h : IsMemory(h[n])

(* The type of each variable; a log's synced frames are frames it has.      *)
TypeOK ==
  /\ pc \in PcValues
  /\ IsMemory(mem)
  /\ nextSeq \in Nat \ {0} /\ cp \in Nat /\ pending \in Nat
  /\ frame \in Frames \cup {NoFrame}
  /\ pc \in {"append", "sync"} => frame \in Frames
  /\ cur \in Nat
  /\ reloading \in BOOLEAN /\ logFile \in BOOLEAN
  /\ \A l \in {log} \cup oldLogs : l \in Logs /\ l.synced <= Len(l.frames)
  /\ \A s \in {state} \cup oldStates : IsState(s)
  /\ IsHistory(hist)
  /\ kept \in Nat /\ sure \in Nat

(* An open collection shows the state after its last logged write: recovery *)
(* applied every recovered write once and in order, and a call that logged  *)
(* nothing changed nothing.                                                 *)
LiveStateIsCommitted == pc = "idle" => Len(hist) = nextSeq /\ mem = hist[nextSeq]

(* A collection that opens has every write the sync policy promised to keep *)
(* through the crash before it.                                             *)
NothingPromisedIsLost == pc = "idle" => nextSeq - 1 >= kept

(* The last write a restart would find. *)
LastSeq(l) == IF l.frames = <<>> THEN 0 ELSE l.frames[Len(l.frames)].seq
Recoverable == IF LastSeq(log) > state.cp THEN LastSeq(log) ELSE state.cp

(* While the machine is up no step, of a checkpoint or a reload or a kill,  *)
(* takes away a write that a restart would have found.                      *)
NoStepForgets == [][Recoverable' >= Recoverable \/ PowerCut]_vars

(* Whatever a power cut leaves of the two files, the log continues the      *)
(* snapshot: no write between them is missing and none is there twice.      *)
LogContinuesSnapshot ==
  \A s \in {state} \cup oldStates, l \in {log} \cup oldLogs : \A i \in DOMAIN l.frames :
    \/ l.frames[i].seq <= s.cp
    \/ l.frames[i].seq = IF i > 1 /\ l.frames[i - 1].seq > s.cp
                         THEN l.frames[i - 1].seq + 1 ELSE s.cp + 1

(* What the files hold, and what readers find. *)
Committed == SubSeq(hist, 1, Recoverable + 1)
Visible == IF pc = "idle" THEN {mem} ELSE {}

(* The collection keeps its contract (DurableCollection): the writes that a *)
(* restart would find are the committed ones, an open collection shows the  *)
(* last of them, and only a power cut takes some back, none that is sure.   *)
Contract == INSTANCE DurableCollection WITH
  Initial <- Fresh,
  committed <- Committed,
  visible <- Visible
KeepsContract == Contract!Spec

(* Replay never meets a frame it refuses: the collection opens again. *)
ReplayAccepts ==
  pc = "replay" /\ cur < Len(log.frames) /\ log.frames[cur + 1].seq > cp =>
    \A oid \in Oids : ~IsRefused(log.frames[cur + 1], Redo(mem, log.frames[cur + 1], oid))

(* A write call returns, whatever fails in it, unless the process ends. *)
CallReturns == pc = "append" ~> pc \in {"idle", "closed"}

(* Once crashes stop, the collection opens for good. *)
RecoveryCompletes == <>[][~Kill /\ ~PowerCut]_vars => []<>(pc = "idle")
=============================================================================
