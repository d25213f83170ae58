-------------------------- MODULE CanopyInvariant --------------------------
(***************************************************************************)
(* Why Canopy recovers what it should: an inductive invariant over the     *)
(* files, every version of them a power cut may bring back, and memory at  *)
(* each step of a write and of a load.                                     *)
(***************************************************************************)
EXTENDS CanopyCollection

(* The conditions it needs: calls that replay the way they ran, and disks   *)
(* on which only appends and checkpoints fail.                              *)
ReplaysAlike(w) ==
  /\ w.op = "createIndex" => ~w.unique
  /\ w.op = "update" /\ w.upsert =>
       \A o, p \in Oids : SeedUpsert(w.filter, w.spec, o) = SeedUpsert(w.filter, w.spec, p)
  /\ w.op = "update" /\ w.multi => \A d \in Docs : ApplyUpdate(d, w.spec).err = 0

Orderly ==
  /\ \A w \in Workload : ReplaysAlike(w)
  /\ Faults \subseteq {"append", "snapshot"}
  /\ FsyncPersistsName = TRUE

-----------------------------------------------------------------------------
(* A collection without unique indexes: a snapshot of it loads as it was.   *)
IsPlain(m) ==
  /\ IsMemory(m)
  /\ \A n \in IndexNames : m.idx[n].unique = FALSE
  /\ m.idx[IdIndexName] = IdIndex

HistoryInv ==
  /\ hist[1] = Fresh
  /\ \A n \in DOMAIN hist : IsPlain(hist[n])
  /\ Recoverable < Len(hist)
  /\ kept <= Recoverable

(* Replaying f after the write before it gives the write f stands for. *)
Replays(f) ==
  /\ f.seq \in 1 .. Len(hist) - 1
  /\ \A oid \in Oids :
       /\ Redo(hist[f.seq], f, oid).mem = hist[f.seq + 1]
       /\ ~IsRefused(f, Redo(hist[f.seq], f, oid))

LogInv(l) ==
  /\ ~l.made => l.frames = <<>>
  /\ l.tail # "buried"
  /\ \A i \in DOMAIN l.frames :
       /\ Replays(l.frames[i])
       /\ l.frames[i].seq <= Recoverable
       /\ \A j \in DOMAIN l.frames : i < j => l.frames[i].seq < l.frames[j].seq

StateInv(s) ==
  /\ ~s.made => s.cp = 0
  /\ s.cp <= Recoverable
  /\ s.mem = hist[s.cp + 1]

(* As long as an older snapshot may come back, the log holds every write    *)
(* since then.                                                              *)
OldStateInv ==
  \A s \in oldStates : s.cp <= LastSeq(log) /\ state.cp <= LastSeq(log)

(* What is sure is in the snapshot or in the synced part of the log, in     *)
(* every pair of versions.                                                  *)
SureInv ==
  \A s \in {state} \cup oldStates, l \in {log} \cup oldLogs :
    \/ sure <= s.cp
    \/ l.synced \in DOMAIN l.frames /\ sure <= l.frames[l.synced].seq

DiskInv ==
  /\ \A l \in {log} \cup oldLogs : LogInv(l)
  /\ \A s \in {state} \cup oldStates : StateInv(s)
  /\ LogContinuesSnapshot
  /\ OldStateInv
  /\ SureInv

-----------------------------------------------------------------------------
(* The process, by where it is. *)
ClosedInv ==
  pc \in {"closed", "load"} => mem = Fresh /\ nextSeq = 1 /\ cp = 0

(* The last write that replay has passed. *)
Passed == IF cur = 0 THEN 0 ELSE log.frames[cur].seq

ReplayInv ==
  pc = "replay" =>
    /\ cp = state.cp
    /\ log.made
    /\ cur <= Len(log.frames)
    /\ nextSeq - 1 = IF Passed > cp THEN Passed ELSE cp
    /\ mem = hist[nextSeq]

OpenInv ==
  pc \notin {"closed", "load", "replay"} =>
    /\ log.made /\ log.tail = "clean"
    /\ Len(hist) = nextSeq /\ mem = hist[nextSeq]
    /\ Recoverable = IF pc = "append" THEN nextSeq - 2 ELSE nextSeq - 1

WriteInv ==
  /\ pc # "replay" => cur = 0
  /\ pc = "append" => frame.seq = nextSeq - 1 /\ Replays(frame)
  /\ pc \in {"sync", "snapshot"} => LastSeq(log) = nextSeq - 1
  /\ pc = "snapshot" /\ SyncFull => oldLogs = {} /\ log.synced = Len(log.frames)
  /\ pc \in {"stateSync", "reset", "logSync"} => state.cp = nextSeq - 1
  /\ pc \in {"reset", "logSync"} => oldStates = {}

Inv == HistoryInv /\ DiskInv /\ ClosedInv /\ ReplayInv /\ OpenInv /\ WriteInv
=============================================================================
