---------------------------- MODULE CanopyProofs ----------------------------
(***************************************************************************)
(* Theorems about CanopyCollection, for every workload, sync policy, fault *)
(* and checkpoint threshold: its types; then what its files mean.          *)
(***************************************************************************)
EXTENDS CanopyInvariant, MemoryProofs

(* The effect of a call, and of its frame in replay, is a collection. *)
LEMMA ExecIsMemory ==
  ASSUME NEW m, IsMemory(m), NEW w \in Requests, NEW oid \in Oids
  PROVE  IsMemory(Exec(m, w, oid).mem)
<1>1. CASE w.op = "insert"
  <2>1. w.docs \in Seq(Docs)
    BY <1>1 DEF Requests
  <2> QED BY <1>1, <2>1, InsertIsMemory DEF Exec
<1>2. CASE w.op = "update"
  <2>1. w.filter \in Filters /\ w.spec \in Specs
    BY <1>2 DEF Requests
  <2> QED BY <1>2, <2>1, UpdateIsMemory DEF Exec
<1>3. CASE w.op = "erase"
  BY <1>3, EraseIsMemory DEF Exec
<1>4. CASE w.op = "createIndex"
  <2>1. w.name \in IndexNames /\ w.paths \in KeyPaths \cup {<<>>} /\ w.unique \in BOOLEAN
    BY <1>4 DEF Requests
  <2> QED BY <1>4, <2>1, CreateIndexIsMemory DEF Exec
<1>5. CASE w.op = "dropIndex"
  <2>1. w.name \in IndexNames
    BY <1>5 DEF Requests
  <2> QED BY <1>5, <2>1, DropIndexIsMemory DEF Exec
<1>6. w.op \in {"insert", "update", "erase", "createIndex", "dropIndex"}
  BY DEF Requests
<1> QED BY <1>1, <1>2, <1>3, <1>4, <1>5, <1>6

LEMMA RedoIsMemory ==
  ASSUME NEW m, IsMemory(m), NEW f \in Frames, NEW oid \in Oids
  PROVE  IsMemory(Redo(m, f, oid).mem)
<1>0. f.req \in Requests /\ f.first \in Nat
  BY DEF Frames
<1>1. CASE f.req.op = "insert"
  <2>1. f.req.docs \in Seq(Docs)
    BY <1>0, <1>1 DEF Requests
  <2> QED BY <1>0, <1>1, <2>1, GrowIsMemory DEF Redo, RestoreRecords
<1>2. CASE f.req.op # "insert"
  BY <1>0, <1>2, ExecIsMemory DEF Redo
<1> QED BY <1>1, <1>2

-----------------------------------------------------------------------------
(* Prefix keeps the elements of a sequence up to a position. *)
LEMMA PrefixProperties ==
  ASSUME NEW S, NEW s \in Seq(S), NEW n \in Nat
  PROVE  /\ Prefix(s, n) \in Seq(S)
         /\ Len(Prefix(s, n)) = IF n < Len(s) THEN n ELSE Len(s)
         /\ \A i \in 1 .. Len(Prefix(s, n)) : Prefix(s, n)[i] = s[i]
<1> DEFINE k == IF n < Len(s) THEN n ELSE Len(s)
<1>1. k \in Nat /\ k <= Len(s)
  OBVIOUS
<1>2. \A i \in 1 .. k : s[i] \in S
  BY <1>1
<1> HIDE DEF k
<1>3. /\ SubSeq(s, 1, k) \in Seq(S)
      /\ Len(SubSeq(s, 1, k)) = k
      /\ \A i \in 1 .. k : SubSeq(s, 1, k)[i] = s[i]
  BY <1>1, <1>2, SubSeqProperties
<1> QED BY <1>3 DEF Prefix, k

(* A history is a non-empty sequence of collections. *)
LEMMA MakeHistory ==
  ASSUME NEW S, NEW h \in Seq(S), h # <<>>, \A n \in 1 .. Len(h) : IsMemory(h[n])
  PROVE  IsHistory(h)
<1>1. DOMAIN h = 1 .. Len(h) /\ Len(h) \in Nat /\ h \in [1 .. Len(h) -> S]
  BY LenProperties
<1>2. h \in Seq({h[n] : n \in DOMAIN h})
  <2>1. h \in [1 .. Len(h) -> {h[n] : n \in DOMAIN h}]
    BY <1>1
  <2> QED BY <1>1, <2>1, SeqDef
<1> QED BY <1>1, <1>2 DEF IsHistory

LEMMA PrefixIsHistory ==
  ASSUME NEW h, IsHistory(h), NEW n \in Nat \ {0}
  PROVE  IsHistory(Prefix(h, n))
<1> DEFINE S == {h[i] : i \in DOMAIN h}
<1>1. h \in Seq(S) /\ h # <<>> /\ \A i \in DOMAIN h : IsMemory(h[i])
  BY DEF IsHistory
<1>2. DOMAIN h = 1 .. Len(h) /\ Len(h) \in Nat \ {0}
  BY <1>1, LenProperties, EmptySeq
<1> HIDE DEF S
<1>3. /\ Prefix(h, n) \in Seq(S)
      /\ Len(Prefix(h, n)) \in Nat \ {0} /\ Len(Prefix(h, n)) <= Len(h)
      /\ \A i \in 1 .. Len(Prefix(h, n)) : Prefix(h, n)[i] = h[i]
  BY <1>1, <1>2, PrefixProperties
<1>4. Prefix(h, n) # <<>>
  BY <1>3, EmptySeq
<1> QED BY <1>1, <1>2, <1>3, <1>4, MakeHistory

LEMMA AppendIsHistory ==
  ASSUME NEW h, IsHistory(h), NEW m, IsMemory(m)
  PROVE  IsHistory(Append(h, m))
<1> DEFINE S == {h[i] : i \in DOMAIN h} \cup {m}
<1>1. h \in Seq(S) /\ m \in S
  BY SeqMonotonic DEF IsHistory
<1>2. DOMAIN h = 1 .. Len(h) /\ Len(h) \in Nat /\ \A i \in DOMAIN h : IsMemory(h[i])
  BY <1>1, LenProperties DEF IsHistory
<1> HIDE DEF S
<1>3. /\ Append(h, m) \in Seq(S) /\ Append(h, m) # <<>>
      /\ Len(Append(h, m)) = Len(h) + 1
      /\ \A i \in 1 .. Len(h) : Append(h, m)[i] = h[i]
      /\ Append(h, m)[Len(h) + 1] = m
  BY <1>1, AppendProperties
<1>4. ASSUME NEW n \in 1 .. Len(Append(h, m)) PROVE IsMemory(Append(h, m)[n])
  <2>1. n \in 1 .. Len(h) \/ n = Len(h) + 1
    BY <1>2, <1>3
  <2> QED BY <1>2, <1>3, <2>1
<1> QED BY <1>3, <1>4, MakeHistory

-----------------------------------------------------------------------------
(* What an append, an fsync, a repair and a power cut make of a log.        *)
IsLog(l) == l \in Logs /\ l.synced <= Len(l.frames)

LEMMA LogEdits ==
  ASSUME NEW l, IsLog(l)
  PROVE  /\ IsLog([l EXCEPT !.synced = Len(l.frames)])
         /\ \A t \in {"clean", "torn", "buried"} : IsLog([l EXCEPT !.tail = t])
         /\ frame \in Frames => IsLog(WithFrame(l))
         /\ \A n \in l.synced .. Len(l.frames) : \A c \in CutLogs(l, n) : IsLog(c)
<1>0. l \in Logs /\ l.synced <= Len(l.frames) /\ l.synced \in Nat /\ Len(l.frames) \in Nat
  BY DEF IsLog, Logs
<1>1. IsLog([l EXCEPT !.synced = Len(l.frames)])
  BY <1>0 DEF IsLog, Logs
<1>2. ASSUME NEW t \in {"clean", "torn", "buried"} PROVE IsLog([l EXCEPT !.tail = t])
  BY <1>0 DEF IsLog, Logs
<1>3. ASSUME frame \in Frames PROVE IsLog(WithFrame(l))
  <2> DEFINE longer == Append(l.frames, frame)
  <2>1. longer \in Seq(Frames) /\ Len(longer) = Len(l.frames) + 1
    BY <1>0, <1>3, AppendProperties DEF Logs
  <2>2. IsLog([l EXCEPT !.frames = longer])
    <3> HIDE DEF longer
    <3> QED BY <1>0, <2>1 DEF IsLog, Logs
  <2> QED BY <1>2, <2>2 DEF WithFrame
<1>4. ASSUME NEW n \in l.synced .. Len(l.frames), NEW c \in CutLogs(l, n) PROVE IsLog(c)
  <2>1. n \in Nat /\ \A i \in 1 .. n : l.frames[i] \in Frames
    BY <1>0 DEF Logs
  <2>2. SubSeq(l.frames, 1, n) \in Seq(Frames) /\ Len(SubSeq(l.frames, 1, n)) = n
    BY <2>1, SubSeqProperties
  <2>3. l.made \in BOOLEAN /\ l.tail \in {"clean", "torn", "buried"}
    BY <1>0 DEF Logs
  <2>4. PICK t \in {"clean", "torn", "buried"} :
          c = [made |-> l.made, frames |-> SubSeq(l.frames, 1, n), synced |-> n, tail |-> t]
    BY <2>3 DEF CutLogs
  <2> QED BY <2>1, <2>2, <2>3, <2>4 DEF IsLog, Logs
<1> QED BY <1>1, <1>2, <1>3, <1>4

LEMMA EmptyLogIsLog == IsLog(EmptyLog) /\ IsLog(NoLog)
<1>1. <<>> \in Seq(Frames) /\ Len(<<>>) = 0
  BY EmptySeq
<1>2. IsLog(NoLog)
  BY <1>1 DEF IsLog, Logs, NoLog
<1> QED BY <1>1, <1>2 DEF IsLog, Logs, EmptyLog

-----------------------------------------------------------------------------
(* What every step relies on. *)
LEMMA InitTypeOK == Init => TypeOK
<1> SUFFICES ASSUME Init PROVE TypeOK
  OBVIOUS
<1>1. IsMemory(Fresh)
  BY FreshIsMemory
<1>2. IsHistory(<<Fresh>>)
  <2>1. <<Fresh>> \in Seq({Fresh}) /\ Len(<<Fresh>>) = 1 /\ <<Fresh>>[1] = Fresh
    OBVIOUS
  <2>2. \A n \in 1 .. Len(<<Fresh>>) : IsMemory(<<Fresh>>[n])
    BY <1>1, <2>1
  <2> QED BY <2>1, <2>2, MakeHistory
<1>3. IsState(NoState)
  BY <1>1 DEF IsState, NoState
<1>4. reloading \in BOOLEAN /\ logFile \in BOOLEAN
  BY DEF Init
<1> QED
  BY <1>1, <1>2, <1>3, <1>4, EmptyLogIsLog DEF Init, TypeOK, PcValues, IsLog

(* A load that throws leaves the process closed, or open with what it has.  *)
LEMMA LoadThrowsTypeOK ==
  ASSUME TypeOK, LoadThrows, mem' = mem \/ IsMemory(mem'), pc \in {"load", "replay"}
  PROVE  TypeOK'
<1>1. reloading' \in BOOLEAN /\ logFile' \in BOOLEAN
  BY DEF TypeOK, LoadThrows, NoProxy
<1> QED
  BY <1>1 DEF TypeOK, LoadThrows, NoProxy, disk, ghost, PcValues

(* Every step keeps the types. *)
LEMMA NextTypeOK == TypeOK /\ [Next]_vars => TypeOK'
<1> SUFFICES ASSUME TypeOK, [Next]_vars PROVE TypeOK'
  OBVIOUS
<1> USE DEF PcValues, disk, ghost
<1>0. /\ IsMemory(Fresh) /\ IsMemory(mem) /\ IsState(state)
      /\ IsLog(log) /\ IsLog(EmptyLog)
      /\ \A l \in oldLogs : IsLog(l)
      /\ \A s \in oldStates : IsState(s)
  BY FreshIsMemory, EmptyLogIsLog DEF TypeOK, IsLog
<1>1. CASE Open
  BY <1>1 DEF Open, TypeOK
<1>2. CASE LoadState
  <2>1. IsMemory(mem') /\ cp' \in Nat /\ nextSeq' \in Nat \ {0}
    BY <1>2, <1>0, LoadSnapshotIsMemory DEF LoadState, TypeOK, IsState
  <2>2. \A l \in {log'} \cup oldLogs' : IsLog(l)
    BY <1>2, <1>0 DEF LoadState
  <2> QED BY <1>2, <2>1, <2>2 DEF LoadState, TypeOK, IsLog
<1>3. CASE FinishLoad
  <2>1. IsHistory(hist')
    BY <1>3, PrefixIsHistory DEF FinishLoad, TypeOK
  <2>2. \A l \in {log'} \cup oldLogs' : IsLog(l)
    BY <1>3, <1>0, LogEdits DEF FinishLoad
  <2>3. kept' \in Nat
    BY <1>3 DEF FinishLoad, TypeOK
  <2> QED BY <1>3, <2>1, <2>2, <2>3 DEF FinishLoad, TypeOK, IsLog
<1>4. CASE ReplayMalformed \/ LoadFails
  BY <1>4, LoadThrowsTypeOK DEF ReplayMalformed, LoadFails
<1>5. ASSUME NEW oid \in Oids, ReplayFrame(oid) \/ ReplayRefused(oid)
      PROVE  TypeOK'
  <2> DEFINE f == log.frames[cur + 1]
  <2>1. cur + 1 \in 1 .. Len(log.frames)
    BY <1>5 DEF ReplayFrame, ReplayRefused, TypeOK, Logs
  <2>2. f \in Frames
    BY <2>1, <1>0 DEF IsLog, Logs
  <2>3. IsMemory(Redo(mem, f, oid).mem)
    BY <2>2, <1>0, RedoIsMemory
  <2>4. CASE ReplayFrame(oid)
    <3>1. IsMemory(mem') /\ nextSeq' \in Nat \ {0}
      BY <2>2, <2>3, <2>4, <1>0 DEF ReplayFrame, TypeOK, Frames
    <3> QED BY <2>4, <3>1 DEF ReplayFrame, TypeOK
  <2>5. CASE ReplayRefused(oid)
    BY <2>3, <2>5, LoadThrowsTypeOK DEF ReplayRefused
  <2> QED BY <1>5, <2>4, <2>5
<1>6. ASSUME NEW w \in Workload, NEW oid \in Oids, Write(w, oid)
      PROVE  TypeOK'
  <2>1. w \in Requests
    BY CanopyAssumption
  <2>2. IsMemory(Exec(mem, w, oid).mem)
    BY <2>1, <1>0, ExecIsMemory
  <2>3. IsHistory(Append(Prefix(hist, nextSeq), Exec(mem, w, oid).mem))
    BY <2>2, PrefixIsHistory, AppendIsHistory DEF TypeOK
  <2>4. [seq |-> nextSeq, first |-> mem.next, req |-> w] \in Frames
    BY <2>1, <1>0 DEF Frames, TypeOK, IsMemory
  <2>5. /\ IsMemory(mem')
        /\ UNCHANGED <<cp, pending, logFile, cur, reloading, disk, kept, sure>>
        /\ \/ /\ pc' = "append"
              /\ frame' = [seq |-> nextSeq, first |-> mem.next, req |-> w]
              /\ nextSeq' = nextSeq + 1
              /\ hist' = Append(Prefix(hist, nextSeq), Exec(mem, w, oid).mem)
           \/ UNCHANGED <<pc, frame, nextSeq, hist>>
    BY <1>6, <2>2 DEF Write
  <2>6. /\ pc' \in PcValues /\ nextSeq' \in Nat \ {0}
        /\ frame' \in Frames \cup {NoFrame}
        /\ pc' \in {"append", "sync"} => frame' \in Frames
    BY <2>4, <2>5 DEF TypeOK
  <2>7. IsHistory(hist')
    BY <2>3, <2>5 DEF TypeOK
  <2> QED BY <2>5, <2>6, <2>7 DEF TypeOK
<1>7. CASE AppendFrame
  <2>1. IsLog(WithFrame(log))
    BY <1>7, <1>0, LogEdits DEF AppendFrame, TypeOK
  <2> QED BY <1>7, <2>1 DEF AppendFrame, Appended, Return, Promise, TypeOK, IsLog
<1>8. CASE SyncFrame
  <2>1. \A l \in {log'} \cup oldLogs' : IsLog(l)
    BY <1>8, <1>0, LogEdits DEF SyncFrame
  <2> QED BY <1>8, <2>1 DEF SyncFrame, Appended, Return, Promise, TypeOK, IsLog
<1>9. CASE AppendFails
  <2>1. IsLog(log')
    BY <1>9, <1>0, LogEdits DEF AppendFails, TypeOK
  <2>2. reloading' \in BOOLEAN /\ logFile' \in BOOLEAN
    BY <1>9 DEF AppendFails, Reload
  <2> QED BY <1>9, <1>0, <2>1, <2>2 DEF AppendFails, Reload, TypeOK, IsLog
<1>10. CASE RenameState
  <2>1. IsState(state')
    BY <1>10, <1>0 DEF RenameState, IsState, TypeOK
  <2> QED BY <1>10, <1>0, <2>1 DEF RenameState, TypeOK
<1>11. CASE SyncStateName
  <2>1. reloading' \in BOOLEAN /\ logFile' \in BOOLEAN
    BY <1>11 DEF SyncStateName, TypeOK
  <2> QED BY <1>11, <2>1 DEF SyncStateName, SyncDirectory, TypeOK
<1>12. CASE RenameLog
  BY <1>12, <1>0 DEF RenameLog, TypeOK, IsLog
<1>13. CASE SyncLogName
  BY <1>13 DEF SyncLogName, SyncDirectory, Return, Promise, TypeOK
<1>14. CASE CheckpointFails
  BY <1>14 DEF CheckpointFails, Return, Promise, TypeOK
<1>15. CASE Shutdown
  <2>1. \A l \in {log'} \cup oldLogs' : IsLog(l)
    BY <1>15, <1>0, LogEdits DEF Shutdown
  <2>2. reloading' \in BOOLEAN /\ logFile' \in BOOLEAN
    BY <1>15 DEF Shutdown, NoProxy
  <2> QED BY <1>15, <1>0, <2>1, <2>2 DEF Shutdown, NoProxy, TypeOK, IsLog
<1>16. CASE Kill
  <2>1. IsLog(log')
    BY <1>16, <1>0, LogEdits DEF Kill
  <2>2. reloading' \in BOOLEAN /\ logFile' \in BOOLEAN
    BY <1>16 DEF Kill, NoProxy
  <2> QED BY <1>16, <1>0, <2>1, <2>2 DEF Kill, NoProxy, TypeOK, IsLog
<1>17. CASE PowerCut
  <2>1. IsLog(log')
    BY <1>17, <1>0, LogEdits DEF PowerCut
  <2>2. reloading' \in BOOLEAN /\ logFile' \in BOOLEAN
    BY <1>17 DEF PowerCut, NoProxy
  <2> QED BY <1>17, <1>0, <2>1, <2>2 DEF PowerCut, NoProxy, TypeOK, IsLog
<1>18. CASE UNCHANGED vars
  BY <1>18 DEF vars, proc, TypeOK
<1> QED
  BY <1>1, <1>2, <1>3, <1>4, <1>5, <1>6, <1>7, <1>8, <1>9, <1>10, <1>11, <1>12, <1>13,
     <1>14, <1>15, <1>16, <1>17, <1>18 DEF Next, Loading, Writing

(* The variables of an execution keep their types: records, logs, snapshots *)
(* and histories always hold well-formed collections and frames, whatever   *)
(* calls, faults and crashes occur.                                         *)
THEOREM TypeCorrect == Spec => []TypeOK
<1>1. Init => TypeOK
  BY InitTypeOK
<1>2. TypeOK /\ [Next]_vars => TypeOK'
  BY NextTypeOK
<1> QED BY <1>1, <1>2, PTL DEF Spec

(***************************************************************************)
(* What the files of a collection mean.  First, replaying the frame of a   *)
(* call repeats the call: for calls that replay alike, on a collection     *)
(* without unique indexes.  Then what the steps of a write, a load and a   *)
(* crash do to the part of the invariant that is about files: each lemma   *)
(* is shared by several actions.                                           *)
(***************************************************************************)

-----------------------------------------------------------------------------
(* Replaying a frame.                                                       *)

(* A collection with the indexes of a plain one is plain, and no document   *)
(* clashes in it.                                                           *)
LEMMA SameIndexes ==
  ASSUME NEW m, IsPlain(m), NEW r, r.idx = m.idx
  PROVE  /\ IsMemory(r) => IsPlain(r)
         /\ \A self, doc : ~UniqueClash(r, self, doc)
  BY DEF IsPlain, UniqueClash

LEMMA FreshIsPlain == IsPlain(Fresh)
<1>1. Fresh.idx = [n \in IndexNames |-> IF n = IdIndexName THEN IdIndex ELSE NoIndex]
  BY DEF Fresh
<1>2. \A n \in IndexNames : Fresh.idx[n].unique = FALSE
  BY <1>1 DEF IdIndex, NoIndex
<1>3. Fresh.idx[IdIndexName] = IdIndex
  BY <1>1, IndexAssumption
<1> QED BY <1>2, <1>3, FreshIsMemory DEF IsPlain

(* An insert stores its whole batch under consecutive record ids. *)
LEMMA PlainInsert ==
  ASSUME NEW m, IsPlain(m), NEW batch \in Seq(Docs)
  PROVE  /\ Insert(m, batch).mem = Grow(m, m.next, batch)
         /\ IsPlain(Insert(m, batch).mem)
<1>1. \A first, b : Grow(m, first, b).idx = m.idx
  BY DEF Grow
<1>2. \A j \in DOMAIN batch : ~InsertClashes(m, batch, j)
  BY <1>1, SameIndexes DEF InsertClashes
<1>3. Insert(m, batch).mem = Grow(m, m.next, batch)
  BY <1>2 DEF Insert
<1>4. IsMemory(Insert(m, batch).mem)
  BY InsertIsMemory DEF IsPlain
<1> QED BY <1>1, <1>3, <1>4, SameIndexes

(* Loading a snapshot of a plain collection into an empty one restores it. *)
LEMMA LoadPlainSnapshot ==
  ASSUME NEW m, IsPlain(m)
  PROVE  LoadSnapshot(Fresh, m) = m
<1> DEFINE docs == [i \in DOMAIN Fresh.docs \cup {Fresh.end + k : k \in DOMAIN m.docs} |->
                     IF i <= Fresh.end THEN Fresh.docs[i] ELSE m.docs[i - Fresh.end]]
           idx == [n \in IndexNames |->
                    IF Fresh.idx[n] = NoIndex /\ m.idx[n] # NoIndex
                    THEN [paths |-> m.idx[n].paths, unique |-> FALSE]
                    ELSE Fresh.idx[n]]
<1>0. /\ m = [docs |-> m.docs, end |-> m.end, next |-> m.next, idx |-> m.idx]
      /\ m.end \in Nat /\ DOMAIN m.docs \subseteq 1 .. m.end
      /\ m.docs \in [DOMAIN m.docs -> Entries]
      /\ m.idx \in [IndexNames -> IndexDefs \cup {NoIndex}]
  BY DEF IsPlain, IsMemory
<1>1. Fresh.end = 0 /\ DOMAIN Fresh.docs = {}
  BY DEF Fresh
<1>2. docs = m.docs
  <2>1. {Fresh.end + k : k \in DOMAIN m.docs} = DOMAIN m.docs
    BY <1>0, <1>1
  <2>2. DOMAIN docs = DOMAIN m.docs
    BY <2>1, <1>1
  <2>3. ASSUME NEW i \in DOMAIN m.docs PROVE docs[i] = m.docs[i]
    <3>1. i \in Nat /\ ~(i <= Fresh.end) /\ i - Fresh.end = i
      BY <1>0, <1>1
    <3> QED BY <2>2, <3>1
  <2> HIDE DEF docs
  <2>4. docs = [i \in DOMAIN m.docs |-> docs[i]]
    BY <2>2 DEF docs
  <2> QED BY <1>0, <2>3, <2>4
<1>3. idx = m.idx
  <2>1. Fresh.idx = [n \in IndexNames |-> IF n = IdIndexName THEN IdIndex ELSE NoIndex]
    BY DEF Fresh
  <2>2. IdIndex # NoIndex
    BY DEF IdIndex, NoIndex, IdPaths
  <2>3. ASSUME NEW n \in IndexNames PROVE idx[n] = m.idx[n]
    <3>1. CASE n = IdIndexName
      BY <2>1, <2>2, <3>1 DEF IsPlain
    <3>2. CASE n # IdIndexName /\ m.idx[n] = NoIndex
      BY <2>1, <3>2
    <3>3. CASE n # IdIndexName /\ m.idx[n] # NoIndex
      <4>1. m.idx[n] \in IndexDefs /\ m.idx[n].unique = FALSE
        BY <1>0, <3>3 DEF IsPlain
      <4>2. m.idx[n] = [paths |-> m.idx[n].paths, unique |-> FALSE]
        BY <4>1 DEF IndexDefs
      <4> QED BY <2>1, <3>3, <4>2
    <3> QED BY <3>1, <3>2, <3>3
  <2> QED BY <1>0, <2>3
<1>4. LoadSnapshot(Fresh, m)
        = [docs |-> docs, end |-> Fresh.end + m.end, next |-> m.next, idx |-> idx]
  BY DEF LoadSnapshot
<1>5. Fresh.end + m.end = m.end
  BY <1>0, <1>1
<1> HIDE DEF docs, idx
<1> QED BY <1>0, <1>2, <1>3, <1>4, <1>5

(* An update whose frame replays alike: it succeeds or changes nothing, and *)
(* the _id that an upsert draws makes no difference.                        *)
LEMMA PlainUpdate ==
  ASSUME NEW m, IsPlain(m), NEW w \in Requests, w.op = "update", ReplaysAlike(w),
         NEW oid \in Oids, NEW other \in Oids
  PROVE  /\ Exec(m, w, other) = Exec(m, w, oid)
         /\ Exec(m, w, oid).err # 0 => Exec(m, w, oid).mem = m
         /\ IsPlain(Exec(m, w, oid).mem)
<1> DEFINE targets == Targets(m, w.filter, w.multi)
           stops == UpdateStops(m, targets, w.spec)
           result == Update(m, w.filter, w.spec, w.multi, w.upsert, oid)
           seed == SeedUpsert(w.filter, w.spec, oid)
<1>0. w.filter \in Filters /\ w.spec \in Specs
  BY DEF Requests
<1>1. Exec(m, w, oid) = result
  BY DEF Exec
<1>2. Exec(m, w, other) = result
  <2>1. Exec(m, w, other) = Update(m, w.filter, w.spec, w.multi, w.upsert, other)
    BY DEF Exec
  <2>2. CASE w.upsert
    <3>1. SeedUpsert(w.filter, w.spec, other) = seed
      BY <2>2 DEF ReplaysAlike
    <3> QED BY <2>1, <3>1 DEF Update
  <2>3. CASE ~w.upsert
    BY <2>1, <2>3 DEF Update
  <2> QED BY <2>2, <2>3
<1>3. \A p \in Nat : UpdatedBelow(m, targets, w.spec, p).idx = m.idx
  <2>1. m = [docs |-> m.docs, end |-> m.end, next |-> m.next, idx |-> m.idx]
    BY DEF IsPlain, IsMemory
  <2> QED BY <2>1 DEF UpdatedBelow
<1>4. targets \subseteq DOMAIN m.docs /\ targets \subseteq Nat
  BY DEF Targets, IsPlain, IsMemory
<1>5. \A p \in targets : ~UpdateClashes(m, targets, w.spec, p)
  BY <1>3, <1>4, SameIndexes DEF UpdateClashes
<1>6. CASE targets = {} /\ w.upsert
  <2>1. result = InsertSeed(m, seed)
    BY <1>6 DEF Update
  <2>2. Grow(m, m.next, <<seed.doc>>).idx = m.idx
    BY DEF Grow
  <2>3. ~UniqueClash(m, InvalidRecordId, seed.doc)
    BY SameIndexes
  <2>4. result.err # 0 => result.mem = m
    BY <2>1, <2>3 DEF InsertSeed
  <2>5. result.mem.idx = m.idx
    BY <2>1, <2>2, <2>3 DEF InsertSeed
  <2> QED BY <1>0, <1>1, <1>2, <2>4, <2>5, UpdateIsMemory, SameIndexes DEF IsPlain
<1>7. CASE ~(targets = {} /\ w.upsert) /\ stops = {}
  <2>1. m.end + 1 \in Nat
    BY DEF IsPlain, IsMemory
  <2>2. result.err = 0 /\ result.mem = UpdatedBelow(m, targets, w.spec, m.end + 1)
    BY <1>7 DEF Update
  <2>3. result.mem.idx = m.idx
    BY <1>3, <2>1, <2>2
  <2> QED BY <1>0, <1>1, <1>2, <2>2, <2>3, UpdateIsMemory, SameIndexes DEF IsPlain
<1>8. CASE ~(targets = {} /\ w.upsert) /\ stops # {}
  <2> DEFINE p == CHOOSE p \in stops : \A q \in stops : p <= q
  <2>1. result.mem = UpdatedBelow(m, targets, w.spec, p)
    BY <1>8 DEF Update
  <2>2. p \in stops
    <3>1. stops \subseteq Nat
      BY <1>4 DEF UpdateStops
    <3> HIDE DEF stops
    <3> QED BY <3>1, <1>8, LeastNumber
  <2> HIDE DEF p
  <2>3. p \in targets /\ p \in Nat /\ UpdateAt(m, w.spec, p).err # 0
    BY <1>4, <1>5, <2>2 DEF UpdateStops
  <2>4. ~w.multi
    <3>1. m.docs[p].doc \in Docs
      BY <1>4, <2>3 DEF IsPlain, IsMemory, Entries
    <3> QED BY <2>3, <3>1 DEF ReplaysAlike, UpdateAt
  <2>5. \A i \in targets : ~(i < p)
    BY <1>4, <2>3, <2>4 DEF Targets
  <2>6. UpdatedBelow(m, targets, w.spec, p) = m
    <3>1. /\ m = [docs |-> m.docs, end |-> m.end, next |-> m.next, idx |-> m.idx]
          /\ m.docs \in [DOMAIN m.docs -> Entries]
      BY DEF IsPlain, IsMemory
    <3> DEFINE docs == [i \in DOMAIN m.docs |->
                          IF i \in targets /\ i < p
                          THEN [rid |-> m.docs[i].rid, doc |-> UpdateAt(m, w.spec, i).doc]
                          ELSE m.docs[i]]
    <3>2. docs = m.docs
      BY <2>5, <3>1
    <3>3. UpdatedBelow(m, targets, w.spec, p) = [m EXCEPT !.docs = docs]
      BY DEF UpdatedBelow
    <3> HIDE DEF docs
    <3> QED BY <3>1, <3>2, <3>3
  <2> QED BY <1>1, <1>2, <2>1, <2>6
<1> QED BY <1>6, <1>7, <1>8

(* The other calls: not logged means nothing changed. *)
LEMMA PlainErase ==
  ASSUME NEW m, IsPlain(m), NEW filter, NEW single
  PROVE  IsPlain(Erase(m, filter, single).mem)
<1>1. m = [docs |-> m.docs, end |-> m.end, next |-> m.next, idx |-> m.idx]
  BY DEF IsPlain, IsMemory
<1>2. Erase(m, filter, single).mem.idx = m.idx
  BY <1>1 DEF Erase
<1>3. IsMemory(Erase(m, filter, single).mem)
  BY EraseIsMemory DEF IsPlain
<1> QED BY <1>2, <1>3, SameIndexes

LEMMA PlainIndexes ==
  ASSUME NEW m, IsPlain(m), NEW name \in IndexNames, NEW paths \in KeyPaths \cup {<<>>}
  PROVE  /\ IsPlain(CreateIndex(m, name, paths, FALSE).mem)
         /\ CreateIndex(m, name, paths, FALSE).err # 0 =>
              CreateIndex(m, name, paths, FALSE).mem = m
         /\ IsPlain(DropIndex(m, name).mem)
         /\ DropIndex(m, name).err # 0 => DropIndex(m, name).mem = m
<1>1. /\ m = [docs |-> m.docs, end |-> m.end, next |-> m.next, idx |-> m.idx]
      /\ m.idx \in [IndexNames -> IndexDefs \cup {NoIndex}]
  BY DEF IsPlain, IsMemory
<1>2. IdIndex # NoIndex
  BY DEF IdIndex, NoIndex, IdPaths
<1>3. ASSUME NEW def, def.unique = FALSE, name # IdIndexName,
             IsMemory([m EXCEPT !.idx[name] = def])
      PROVE  IsPlain([m EXCEPT !.idx[name] = def])
  <2>1. [m EXCEPT !.idx[name] = def].idx = [m.idx EXCEPT ![name] = def]
    BY <1>1
  <2>2. \A n \in IndexNames : [m.idx EXCEPT ![name] = def][n].unique = FALSE
    BY <1>1, <1>3 DEF IsPlain
  <2>3. [m.idx EXCEPT ![name] = def][IdIndexName] = IdIndex
    BY <1>1, <1>3, IndexAssumption DEF IsPlain
  <2> QED BY <1>3, <2>1, <2>2, <2>3 DEF IsPlain
<1>4. IsPlain(CreateIndex(m, name, paths, FALSE).mem)
  <2> DEFINE def == [paths |-> paths, unique |-> FALSE]
  <2>1. CASE paths # <<>> /\ m.idx[name] = NoIndex
    <3>1. CreateIndex(m, name, paths, FALSE).mem = [m EXCEPT !.idx[name] = def]
      BY <2>1 DEF CreateIndex
    <3>2. name # IdIndexName
      BY <1>2, <2>1 DEF IsPlain
    <3>3. IsMemory(CreateIndex(m, name, paths, FALSE).mem)
      BY FALSE \in BOOLEAN, CreateIndexIsMemory DEF IsPlain
    <3> QED BY <1>3, <3>1, <3>2, <3>3
  <2>2. CASE ~(paths # <<>> /\ m.idx[name] = NoIndex)
    BY <2>2 DEF CreateIndex
  <2> QED BY <2>1, <2>2
<1>5. IsPlain(DropIndex(m, name).mem)
  <2>1. CASE name = IdIndexName
    BY <2>1 DEF DropIndex
  <2>2. CASE name # IdIndexName
    <3>1. DropIndex(m, name).mem = [m EXCEPT !.idx[name] = NoIndex]
      BY <2>2 DEF DropIndex
    <3>2. IsMemory([m EXCEPT !.idx[name] = NoIndex])
      BY <3>1, DropIndexIsMemory DEF IsPlain
    <3>3. NoIndex.unique = FALSE
      BY DEF NoIndex
    <3> QED BY <1>3, <2>2, <3>1, <3>2, <3>3
  <2> QED BY <2>1, <2>2
<1>6. CreateIndex(m, name, paths, FALSE).err # 0 => CreateIndex(m, name, paths, FALSE).mem = m
  BY DEF CreateIndex
<1>7. DropIndex(m, name).err # 0 => DropIndex(m, name).mem = m
  BY DEF DropIndex
<1> QED BY <1>4, <1>5, <1>6, <1>7

(* Replay repeats a logged call exactly, and a call that was not logged     *)
(* changed nothing.                                                         *)
LEMMA ReplayRepeatsCall ==
  ASSUME NEW m, IsPlain(m), NEW w \in Requests, ReplaysAlike(w), NEW oid \in Oids,
         NEW f \in Frames, f.first = m.next, f.req = w
  PROVE  /\ IsPlain(Exec(m, w, oid).mem)
         /\ ~IsLogged(m, w, Exec(m, w, oid)) => Exec(m, w, oid).mem = m
         /\ IsLogged(m, w, Exec(m, w, oid)) =>
              \A other \in Oids :
                /\ Redo(m, f, other).mem = Exec(m, w, oid).mem
                /\ ~IsRefused(f, Redo(m, f, other))
<1>1. CASE w.op = "insert"
  <2>1. w.docs \in Seq(Docs)
    BY <1>1 DEF Requests
  <2>2. Exec(m, w, oid).mem = Grow(m, m.next, w.docs) /\ IsPlain(Exec(m, w, oid).mem)
    BY <1>1, <2>1, PlainInsert DEF Exec
  <2>3. \A other \in Oids : Redo(m, f, other).mem = Grow(m, m.next, w.docs)
    BY <1>1 DEF Redo, RestoreRecords
  <2>4. IsLogged(m, w, Exec(m, w, oid))
    BY <1>1 DEF IsLogged
  <2>5. \A other \in Oids : ~IsRefused(f, Redo(m, f, other))
    BY <1>1 DEF IsRefused
  <2> QED BY <2>2, <2>3, <2>4, <2>5
<1>2. CASE w.op = "update"
  <2>1. \A other \in Oids : Redo(m, f, other) = Exec(m, w, oid)
    BY <1>2, PlainUpdate DEF Redo
  <2>2. IsLogged(m, w, Exec(m, w, oid)) <=> Exec(m, w, oid).err = 0
    BY <1>2 DEF IsLogged
  <2>3. /\ Exec(m, w, oid).err # 0 => Exec(m, w, oid).mem = m
        /\ IsPlain(Exec(m, w, oid).mem)
    BY <1>2, PlainUpdate
  <2> QED BY <2>1, <2>2, <2>3 DEF IsRefused
<1>3. CASE w.op \in {"erase", "createIndex", "dropIndex"}
  <2>1. \A other \in Oids :
          Redo(m, f, other) = Exec(m, w, oid) /\ ~IsRefused(f, Redo(m, f, other))
    BY <1>3 DEF Redo, IsRefused, Exec
  <2>2. IsLogged(m, w, Exec(m, w, oid))
          <=> (Exec(m, w, oid).err = 0 /\ Exec(m, w, oid).mem # m)
    BY <1>3 DEF IsLogged
  <2>3. /\ IsPlain(Exec(m, w, oid).mem)
        /\ Exec(m, w, oid).err # 0 => Exec(m, w, oid).mem = m
    <3>1. CASE w.op = "erase"
      <4>1. Exec(m, w, oid) = Erase(m, w.filter, w.single)
        BY <3>1 DEF Exec
      <4>2. Erase(m, w.filter, w.single).err = 0
        BY DEF Erase
      <4>3. IsPlain(Erase(m, w.filter, w.single).mem)
        BY PlainErase
      <4> QED BY <4>1, <4>2, <4>3
    <3>2. CASE w.op = "createIndex"
      <4>1. w.name \in IndexNames /\ w.paths \in KeyPaths \cup {<<>>} /\ w.unique \in BOOLEAN
        BY <3>2 DEF Requests
      <4>2. w.unique = FALSE
        BY <3>2, <4>1 DEF ReplaysAlike
      <4>3. Exec(m, w, oid) = CreateIndex(m, w.name, w.paths, FALSE)
        BY <3>2, <4>2 DEF Exec
      <4>4. /\ IsPlain(CreateIndex(m, w.name, w.paths, FALSE).mem)
            /\ CreateIndex(m, w.name, w.paths, FALSE).err # 0 =>
                 CreateIndex(m, w.name, w.paths, FALSE).mem = m
        BY <4>1, PlainIndexes
      <4> QED BY <4>3, <4>4
    <3>3. CASE w.op = "dropIndex"
      <4>1. w.name \in IndexNames
        BY <3>3 DEF Requests
      <4>2. Exec(m, w, oid) = DropIndex(m, w.name)
        BY <3>3 DEF Exec
      <4>3. <<>> \in KeyPaths \cup {<<>>}
        OBVIOUS
      <4>4. /\ IsPlain(DropIndex(m, w.name).mem)
            /\ DropIndex(m, w.name).err # 0 => DropIndex(m, w.name).mem = m
        BY <4>1, <4>3, PlainIndexes
      <4> QED BY <4>2, <4>4
    <3> QED BY <1>3, <3>1, <3>2, <3>3
  <2> QED BY <2>1, <2>2, <2>3
<1>4. w.op \in {"insert", "update", "erase", "createIndex", "dropIndex"}
  BY DEF Requests
<1> QED BY <1>1, <1>2, <1>3, <1>4

-----------------------------------------------------------------------------
(***************************************************************************)
(* Numbers that the types give.                                            *)
(***************************************************************************)
LogNumbers(l) ==
  /\ Len(l.frames) \in Nat /\ DOMAIN l.frames = 1 .. Len(l.frames)
  /\ \A i \in DOMAIN l.frames : l.frames[i] \in Frames /\ l.frames[i].seq \in Nat
  /\ l.synced \in Nat /\ l.synced <= Len(l.frames)
  /\ l.frames = <<>> <=> Len(l.frames) = 0

Numbers ==
  /\ \A l \in {log} \cup oldLogs : LogNumbers(l)
  /\ \A s \in {state} \cup oldStates : s.cp \in Nat
  /\ Len(hist) \in Nat \ {0} /\ DOMAIN hist = 1 .. Len(hist)
  /\ LastSeq(log) \in Nat /\ Recoverable \in Nat
  /\ LastSeq(log) <= Recoverable /\ state.cp <= Recoverable
  /\ Recoverable \in {LastSeq(log), state.cp}
  /\ nextSeq \in Nat \ {0} /\ cp \in Nat /\ cur \in Nat /\ kept \in Nat /\ sure \in Nat

LEMMA TypeNumbers == TypeOK => Numbers
<1> SUFFICES ASSUME TypeOK PROVE Numbers
  OBVIOUS
<1>1. ASSUME NEW l \in {log} \cup oldLogs PROVE LogNumbers(l)
  <2>1. l.frames \in Seq(Frames) /\ l.synced \in Nat /\ l.synced <= Len(l.frames)
    BY DEF TypeOK, Logs
  <2>2. Len(l.frames) \in Nat /\ DOMAIN l.frames = 1 .. Len(l.frames)
    BY <2>1, LenProperties
  <2>3. \A i \in DOMAIN l.frames : l.frames[i] \in Frames
    BY <2>1, <2>2
  <2>4. \A f \in Frames : f.seq \in Nat
    BY DEF Frames
  <2>5. l.frames = <<>> <=> Len(l.frames) = 0
    BY <2>1, EmptySeq
  <2> QED BY <2>1, <2>2, <2>3, <2>4, <2>5 DEF LogNumbers
<1>2. \A s \in {state} \cup oldStates : s.cp \in Nat
  BY DEF TypeOK, IsState
<1>3. Len(hist) \in Nat \ {0} /\ DOMAIN hist = 1 .. Len(hist)
  BY LenProperties, EmptySeq DEF TypeOK, IsHistory
<1>4. LastSeq(log) \in Nat
  BY <1>1 DEF LastSeq, LogNumbers
<1>5. state.cp \in Nat
  BY <1>2
<1>6. /\ Recoverable \in Nat /\ LastSeq(log) <= Recoverable /\ state.cp <= Recoverable
      /\ Recoverable \in {LastSeq(log), state.cp}
  BY <1>4, <1>5 DEF Recoverable
<1>7. nextSeq \in Nat \ {0} /\ cp \in Nat /\ cur \in Nat /\ kept \in Nat /\ sure \in Nat
  BY DEF TypeOK
<1> QED BY <1>1, <1>2, <1>3, <1>4, <1>6, <1>7 DEF Numbers

-----------------------------------------------------------------------------
(***************************************************************************)
(* Changes of the files that several steps make.                           *)
(***************************************************************************)
Good == TypeOK /\ Numbers /\ Inv

(* A step that touches neither files nor history. *)
LEMMA SameDisk ==
  ASSUME Inv, UNCHANGED <<disk, ghost>>
  PROVE  HistoryInv' /\ DiskInv' /\ Recoverable' = Recoverable
<1> USE DEF disk, ghost
<1>1. Recoverable' = Recoverable /\ LastSeq(log)' = LastSeq(log)
  BY DEF Recoverable, LastSeq
<1>2. HistoryInv'
  BY <1>1 DEF Inv, HistoryInv
<1>3. \A f : Replays(f) => Replays(f)'
  BY DEF Replays
<1>4. \A l \in {log} \cup oldLogs : LogInv(l)'
  BY <1>1, <1>3 DEF Inv, DiskInv, LogInv
<1>5. \A s \in {state} \cup oldStates : StateInv(s)'
  BY <1>1 DEF Inv, DiskInv, StateInv
<1>6. LogContinuesSnapshot' /\ OldStateInv' /\ SureInv'
  BY <1>1 DEF Inv, DiskInv, LogContinuesSnapshot, OldStateInv, SureInv
<1> QED BY <1>1, <1>2, <1>4, <1>5, <1>6 DEF DiskInv

(* A log whose tail is torn or repaired. *)
LEMMA NewTail ==
  ASSUME Good, NEW t \in {"clean", "torn"}, log' = [log EXCEPT !.tail = t],
         UNCHANGED <<oldLogs, state, oldStates, ghost>>
  PROVE  HistoryInv' /\ DiskInv' /\ Recoverable' = Recoverable
<1> USE DEF ghost
<1>0. log'.frames = log.frames /\ log'.made = log.made /\ log'.synced = log.synced /\ log'.tail = t
  BY DEF Good, TypeOK, Logs
<1>1. Recoverable' = Recoverable /\ LastSeq(log)' = LastSeq(log)
  BY <1>0 DEF Recoverable, LastSeq
<1>2. HistoryInv'
  BY <1>1 DEF Good, Inv, HistoryInv
<1>3. \A f : Replays(f) => Replays(f)'
  BY DEF Replays
<1>4. \A l \in {log} \cup oldLogs : LogInv(l)
  BY DEF Good, Inv, DiskInv
<1>5. LogInv(log)'
  <2>1. LogInv(log)
    BY <1>4
  <2> QED BY <2>1, <1>0, <1>1, <1>3 DEF LogInv
<1>6. \A l \in oldLogs : LogInv(l)'
  BY <1>1, <1>3, <1>4 DEF LogInv
<1>7. \A s \in {state} \cup oldStates : StateInv(s)'
  BY <1>1 DEF Good, Inv, DiskInv, StateInv
<1>8. LogContinuesSnapshot'
  <2>1. \A l \in {log'} \cup oldLogs : \E k \in {log} \cup oldLogs : l.frames = k.frames
    BY <1>0
  <2> QED BY <2>1 DEF Good, Inv, DiskInv, LogContinuesSnapshot
<1>9. OldStateInv'
  BY <1>1 DEF Good, Inv, DiskInv, OldStateInv
<1>10. SureInv'
  <2>1. \A l \in {log'} \cup oldLogs : \E k \in {log} \cup oldLogs :
          l.frames = k.frames /\ l.synced = k.synced
    BY <1>0
  <2> QED BY <2>1 DEF Good, Inv, DiskInv, SureInv
<1> QED BY <1>1, <1>2, <1>5, <1>6, <1>7, <1>8, <1>9, <1>10 DEF DiskInv

(* The frame of the write in progress reaches the log. *)
LEMMA FrameInLog ==
  ASSUME Good, Numbers', pc = "append", log' = WithFrame(log),
         UNCHANGED <<oldLogs, state, oldStates, hist, sure>>,
         kept' \in {kept, nextSeq - 1}
  PROVE  HistoryInv' /\ DiskInv' /\ Recoverable' = nextSeq - 1 /\ LastSeq(log)' = nextSeq - 1
<1> DEFINE n == Len(log.frames)
<1>0. /\ Recoverable = nextSeq - 2 /\ frame.seq = nextSeq - 1
      /\ Replays(frame) /\ frame \in Frames
      /\ log.tail = "clean" /\ log.made /\ Len(hist) = nextSeq
  BY DEF Good, TypeOK, Inv, OpenInv, WriteInv
<1>1. LogNumbers(log) /\ n \in Nat /\ nextSeq \in Nat \ {0}
  BY DEF Good, Numbers, LogNumbers
<1>2. /\ log'.frames = Append(log.frames, frame)
      /\ log'.made = log.made /\ log'.synced = log.synced /\ log'.tail = "clean"
  <2>1. log \in Logs
    BY DEF Good, TypeOK
  <2>2. log' = [log EXCEPT !.frames = Append(log.frames, frame)]
    BY <1>0 DEF WithFrame
  <2> QED BY <1>0, <2>1, <2>2 DEF Logs
<1>3. /\ Len(log'.frames) = n + 1 /\ DOMAIN log'.frames = 1 .. n + 1
      /\ \A i \in 1 .. n : log'.frames[i] = log.frames[i]
      /\ log'.frames[n + 1] = frame
      /\ log'.frames # <<>>
  <2>1. log.frames \in Seq(Frames)
    BY DEF Good, TypeOK, Logs
  <2> QED BY <1>0, <1>2, <2>1, AppendProperties, LenProperties
<1>4. LastSeq(log)' = nextSeq - 1
  BY <1>0, <1>3 DEF LastSeq
<1>5. /\ Recoverable' = nextSeq - 1
      /\ Recoverable \in Nat /\ state.cp \in Nat /\ state.cp <= Recoverable
      /\ LastSeq(log) \in Nat /\ LastSeq(log) <= Recoverable
      /\ Recoverable \in {LastSeq(log), state.cp}
  BY <1>0, <1>1, <1>4 DEF Recoverable, Good, Numbers
<1>6. HistoryInv'
  BY <1>0, <1>1, <1>5 DEF Good, Numbers, Inv, HistoryInv
<1>7. \A f : Replays(f) => Replays(f)'
  BY DEF Replays
<1>8. \A l \in {log} \cup oldLogs : LogInv(l) /\ LogNumbers(l)
  BY DEF Good, Numbers, Inv, DiskInv
<1>9. LogInv(log)'
  <2>1. ASSUME NEW i \in 1 .. n + 1
        PROVE  Replays(log.frames[i])' /\ log'.frames[i].seq <= Recoverable'
    <3>1. CASE i <= n
      <4>1. i \in DOMAIN log.frames /\ log'.frames[i] = log.frames[i]
        BY <1>1, <1>3, <2>1, <3>1 DEF LogNumbers
      <4>2. Replays(log.frames[i]) /\ log.frames[i].seq <= nextSeq - 2
        BY <1>0, <1>8, <4>1 DEF LogInv
      <4>3. log.frames[i].seq \in Nat
        BY <1>1, <4>1 DEF LogNumbers
      <4>4. log'.frames[i].seq <= Recoverable'
        BY <1>1, <1>5, <4>1, <4>2, <4>3
      <4>5. Replays(log.frames[i])'
        BY <4>1, <4>2 DEF Replays
      <4> QED BY <4>4, <4>5
    <3>2. CASE i = n + 1
      <4>1. log'.frames[i] = frame
        BY <1>3, <3>2
      <4>2. Replays(log.frames[i])'
        BY <1>0, <4>1 DEF Replays
      <4>3. log'.frames[i].seq <= Recoverable'
        BY <1>0, <1>1, <1>5, <4>1
      <4> QED BY <4>2, <4>3
    <3> QED BY <1>1, <2>1, <3>1, <3>2
  <2>2. ASSUME NEW i \in 1 .. n + 1, NEW j \in 1 .. n + 1, i < j
        PROVE  log'.frames[i].seq < log'.frames[j].seq
    <3>1. CASE j <= n
      <4>1. i \in DOMAIN log.frames /\ j \in DOMAIN log.frames
        BY <1>1, <2>2, <3>1 DEF LogNumbers
      <4>2. log'.frames[i] = log.frames[i] /\ log'.frames[j] = log.frames[j]
        BY <1>1, <1>3, <2>2, <3>1
      <4> QED BY <1>8, <2>2, <4>1, <4>2 DEF LogInv
    <3>2. CASE j = n + 1
      <4>1. i \in DOMAIN log.frames /\ log'.frames[i] = log.frames[i]
        BY <1>1, <1>3, <2>2, <3>2 DEF LogNumbers
      <4>2. log.frames[i].seq <= nextSeq - 2 /\ log.frames[i].seq \in Nat
        BY <1>0, <1>8, <4>1 DEF LogInv, LogNumbers
      <4>3. log'.frames[j].seq = nextSeq - 1
        BY <1>0, <1>3, <3>2
      <4> QED BY <1>1, <4>1, <4>2, <4>3
    <3> QED BY <1>1, <3>1, <3>2
  <2>3. log'.made /\ log'.tail # "buried" /\ DOMAIN log'.frames = 1 .. n + 1
    BY <1>0, <1>2, <1>3
  <2> HIDE DEF n
  <2> QED BY <2>1, <2>2, <2>3 DEF LogInv
<1>10. \A l \in oldLogs : LogInv(l)'
  <2>1. ASSUME NEW l \in oldLogs, NEW i \in DOMAIN l.frames
        PROVE  l.frames[i].seq <= Recoverable'
    BY <1>0, <1>1, <1>5, <1>8 DEF LogInv, LogNumbers
  <2> QED BY <1>7, <1>8, <2>1 DEF LogInv
<1>11. \A s \in {state} \cup oldStates : StateInv(s)'
  BY <1>0, <1>1, <1>5 DEF Good, Numbers, Inv, DiskInv, StateInv
<1>12. ASSUME NEW s \in {state} \cup oldStates
       PROVE  s.cp \in Nat /\ s.cp <= nextSeq - 2 /\ nextSeq - 2 \in {s.cp, LastSeq(log)}
  <2>1. s.cp \in Nat /\ s.cp <= nextSeq - 2
    BY <1>0 DEF Good, Numbers, Inv, DiskInv, StateInv
  <2>2. s \in oldStates => LastSeq(log) = nextSeq - 2
    BY <1>0, <1>1, <1>5 DEF Good, Inv, DiskInv, OldStateInv
  <2> QED BY <1>0, <1>5, <2>1, <2>2
<1>13. LogContinuesSnapshot'
  <2>1. ASSUME NEW s \in {state} \cup oldStates, NEW i \in DOMAIN log'.frames
        PROVE  \/ log'.frames[i].seq <= s.cp
               \/ log'.frames[i].seq =
                    IF i > 1 /\ log'.frames[i - 1].seq > s.cp
                    THEN log'.frames[i - 1].seq + 1 ELSE s.cp + 1
    <3>1. CASE i <= n
      <4>1. i \in DOMAIN log.frames /\ log'.frames[i] = log.frames[i]
        BY <1>1, <1>3, <2>1, <3>1 DEF LogNumbers
      <4>2. i > 1 => log'.frames[i - 1] = log.frames[i - 1]
        BY <1>1, <1>3, <2>1, <3>1
      <4> QED BY <4>1, <4>2 DEF Good, Inv, DiskInv, LogContinuesSnapshot
    <3>2. CASE i = n + 1 /\ n = 0
      <4>1. LastSeq(log) = 0
        BY <1>1, <3>2 DEF LastSeq, LogNumbers
      <4>2. s.cp = nextSeq - 2
        BY <1>1, <1>12, <4>1
      <4> QED BY <1>0, <1>1, <1>3, <1>12, <3>2, <4>2
    <3>3. CASE i = n + 1 /\ n > 0
      <4>1. log'.frames[i].seq = nextSeq - 1 /\ i > 1
        BY <1>0, <1>1, <1>3, <3>3
      <4>2. log'.frames[i - 1].seq = LastSeq(log)
        BY <1>1, <1>3, <3>3 DEF LastSeq, LogNumbers
      <4>0. /\ nextSeq \in Nat /\ LastSeq(log) \in Nat /\ s.cp \in Nat
            /\ LastSeq(log) <= nextSeq - 2 /\ s.cp <= nextSeq - 2
            /\ nextSeq - 2 \in {s.cp, LastSeq(log)}
        BY <1>0, <1>1, <1>5, <1>12
      <4>3. CASE LastSeq(log) > s.cp
        <5>1. LastSeq(log) = nextSeq - 2
          BY <4>0, <4>3
        <5> QED BY <1>1, <4>1, <4>2, <4>3, <5>1
      <4>4. CASE ~(LastSeq(log) > s.cp)
        <5>1. s.cp = nextSeq - 2
          BY <4>0, <4>4
        <5> QED BY <1>1, <4>1, <4>2, <4>4, <5>1
      <4> QED BY <4>3, <4>4
    <3> QED BY <1>1, <1>3, <2>1, <3>1, <3>2, <3>3
  <2> QED BY <2>1 DEF Good, Inv, DiskInv, LogContinuesSnapshot
<1>14. OldStateInv'
  BY <1>0, <1>1, <1>4, <1>5, <1>12 DEF OldStateInv
<1>15. SureInv'
  <2>1. ASSUME NEW s \in {state} \cup oldStates
        PROVE  \/ sure <= s.cp
               \/ log'.synced \in DOMAIN log'.frames /\ sure <= log'.frames[log'.synced].seq
    <3>1. \/ sure <= s.cp
          \/ log.synced \in DOMAIN log.frames /\ sure <= log.frames[log.synced].seq
      BY DEF Good, Inv, DiskInv, SureInv
    <3> QED BY <1>1, <1>2, <1>3, <3>1 DEF LogNumbers
  <2> QED BY <2>1 DEF Good, Inv, DiskInv, SureInv
<1> QED BY <1>4, <1>5, <1>6, <1>9, <1>10, <1>11, <1>13, <1>14, <1>15 DEF DiskInv

(* The log keeps its frames and the history what can be recovered. *)
LEMMA SameFrames ==
  ASSUME Good, Numbers',
         log'.frames = log.frames, log'.made = log.made, log'.synced = log.synced,
         log'.tail # "buried",
         UNCHANGED <<oldLogs, state, oldStates, sure>>,
         Len(hist') > Recoverable,
         \A n \in 1 .. Recoverable + 1 : hist'[n] = hist[n]
  PROVE  DiskInv' /\ Recoverable' = Recoverable /\ LastSeq(log)' = LastSeq(log)
<1>1. Recoverable' = Recoverable /\ LastSeq(log)' = LastSeq(log)
  BY DEF Recoverable, LastSeq
<1>2. /\ Recoverable \in Nat /\ Len(hist') \in Nat /\ Recoverable < Len(hist')
      /\ \A l \in {log} \cup oldLogs : LogNumbers(l)
      /\ \A s \in {state} \cup oldStates : s.cp \in Nat
  BY DEF Good, Numbers
<1>3. ASSUME NEW f, f.seq <= Recoverable, f.seq \in Nat, Replays(f) PROVE Replays(f)'
  <2>1. f.seq \in 1 .. Len(hist') - 1 /\ f.seq \in 1 .. Recoverable + 1
        /\ f.seq + 1 \in 1 .. Recoverable + 1
    BY <1>2, <1>3 DEF Replays
  <2>2. hist'[f.seq] = hist[f.seq] /\ hist'[f.seq + 1] = hist[f.seq + 1]
    BY <2>1
  <2> QED BY <1>3, <2>1, <2>2 DEF Replays
<1>4. \A l \in {log} \cup oldLogs : LogInv(l)
  BY DEF Good, Inv, DiskInv
<1>5. LogInv(log)'
  <2>1. LogInv(log) /\ LogNumbers(log)
    BY <1>2, <1>4
  <2> QED BY <2>1, <1>1, <1>3 DEF LogInv, LogNumbers
<1>6. \A l \in oldLogs : LogInv(l)'
  BY <1>1, <1>2, <1>3, <1>4 DEF LogInv, LogNumbers
<1>7. ASSUME NEW s \in {state} \cup oldStates PROVE StateInv(s)'
  <2>1. StateInv(s) /\ s.cp \in Nat
    BY <1>2 DEF Good, Inv, DiskInv
  <2>2. s.cp + 1 \in 1 .. Recoverable + 1
    BY <1>2, <2>1 DEF StateInv
  <2>3. hist'[s.cp + 1] = hist[s.cp + 1]
    BY <2>2
  <2> QED BY <1>1, <2>1, <2>3 DEF StateInv
<1>8. LogContinuesSnapshot'
  <2>1. \A l \in {log'} \cup oldLogs : \E k \in {log} \cup oldLogs : l.frames = k.frames
    OBVIOUS
  <2> QED BY <2>1 DEF Good, Inv, DiskInv, LogContinuesSnapshot
<1>9. OldStateInv'
  BY <1>1 DEF Good, Inv, DiskInv, OldStateInv
<1>10. SureInv'
  <2>1. \A l \in {log'} \cup oldLogs : \E k \in {log} \cup oldLogs :
          l.frames = k.frames /\ l.synced = k.synced
    OBVIOUS
  <2> QED BY <2>1 DEF Good, Inv, DiskInv, SureInv
<1>11. (\A s \in {state} \cup oldStates : StateInv(s))'
  BY <1>7
<1> QED BY <1>1, <1>5, <1>6, <1>8, <1>9, <1>10, <1>11 DEF DiskInv

(* What is sure can be recovered. *)
LEMMA SureIsRecoverable == Good => sure <= Recoverable
<1> SUFFICES ASSUME Good PROVE sure <= Recoverable
  OBVIOUS
<1>1. \/ sure <= state.cp
      \/ log.synced \in DOMAIN log.frames /\ sure <= log.frames[log.synced].seq
  BY DEF Good, Inv, DiskInv, SureInv
<1>2. sure \in Nat /\ state.cp \in Nat /\ Recoverable \in Nat /\ state.cp <= Recoverable
  BY DEF Good, Numbers
<1>3. \A i \in DOMAIN log.frames : log.frames[i].seq \in Nat /\ log.frames[i].seq <= Recoverable
  BY DEF Good, Numbers, LogNumbers, Inv, DiskInv, LogInv
<1> QED BY <1>1, <1>2, <1>3

(* The whole log reaches the device, and its name with it. *)
LEMMA LogSynced ==
  ASSUME Good, log' = [log EXCEPT !.synced = Len(log.frames)], oldLogs' = {},
         UNCHANGED <<state, oldStates, hist>>,
         sure' \in {sure, Recoverable}, kept' \in {kept, Recoverable}
  PROVE  /\ HistoryInv' /\ DiskInv'
         /\ Recoverable' = Recoverable /\ LastSeq(log)' = LastSeq(log)
         /\ log'.synced = Len(log'.frames) /\ log'.made = log.made /\ log'.tail = log.tail
<1>0. /\ log'.frames = log.frames /\ log'.made = log.made /\ log'.tail = log.tail
      /\ log'.synced = Len(log.frames)
  BY DEF Good, TypeOK, Logs
<1>1. Recoverable' = Recoverable /\ LastSeq(log)' = LastSeq(log)
  BY <1>0 DEF Recoverable, LastSeq
<1>2. /\ Recoverable \in Nat /\ kept \in Nat /\ sure \in Nat /\ sure' <= Recoverable
      /\ LogNumbers(log) /\ LogInv(log) /\ sure' \in Nat
  BY SureIsRecoverable DEF Good, Numbers, Inv, DiskInv
<1>3. HistoryInv'
  BY <1>1, <1>2 DEF Good, Inv, HistoryInv
<1>4. \A f : Replays(f) => Replays(f)'
  BY DEF Replays
<1>5. LogInv(log)'
  BY <1>0, <1>1, <1>2, <1>4 DEF LogInv
<1>6. \A s \in {state} \cup oldStates : StateInv(s)'
  BY <1>1 DEF Good, Inv, DiskInv, StateInv
<1>7. LogContinuesSnapshot'
  <2>1. \A s \in {state} \cup oldStates : \A i \in DOMAIN log.frames :
          \/ log.frames[i].seq <= s.cp
          \/ log.frames[i].seq = IF i > 1 /\ log.frames[i - 1].seq > s.cp
                                THEN log.frames[i - 1].seq + 1 ELSE s.cp + 1
    BY DEF Good, Inv, DiskInv, LogContinuesSnapshot
  <2>2. \A l \in {log'} \cup oldLogs' : l.frames = log.frames
    BY <1>0
  <2>3. {state'} \cup oldStates' = {state} \cup oldStates
    OBVIOUS
  <2>4. ASSUME NEW s \in {state'} \cup oldStates', NEW l \in {log'} \cup oldLogs',
               NEW i \in DOMAIN l.frames
        PROVE  \/ l.frames[i].seq <= s.cp
               \/ l.frames[i].seq = IF i > 1 /\ l.frames[i - 1].seq > s.cp
                                    THEN l.frames[i - 1].seq + 1 ELSE s.cp + 1
    <3>1. l.frames = log.frames /\ i \in DOMAIN log.frames /\ s \in {state} \cup oldStates
      BY <2>2, <2>3, <2>4
    <3> QED BY <2>1, <3>1
  <2> QED BY <2>4 DEF LogContinuesSnapshot
<1>8. OldStateInv'
  BY <1>1 DEF Good, Inv, DiskInv, OldStateInv
<1>9. SureInv'
  <2>1. CASE LastSeq(log) = Recoverable /\ log.frames # <<>>
    <3>1. Len(log.frames) \in DOMAIN log.frames
      BY <1>2, <2>1 DEF LogNumbers
    <3>2. log.frames[Len(log.frames)].seq = Recoverable
      BY <2>1 DEF LastSeq
    <3> QED BY <1>0, <1>2, <3>1, <3>2 DEF SureInv
  <2>2. CASE LastSeq(log) = Recoverable /\ log.frames = <<>>
    <3>1. sure' = 0
      BY <1>2, <2>2 DEF LastSeq
    <3> QED BY <3>1 DEF SureInv, Good, Numbers
  <2>3. CASE LastSeq(log) # Recoverable
    <3>1. state.cp = Recoverable /\ LastSeq(log) <= Recoverable /\ LastSeq(log) \in Nat
      BY <2>3 DEF Good, Numbers
    <3>2. oldStates = {}
      BY <1>2, <2>3, <3>1 DEF Good, Inv, DiskInv, OldStateInv
    <3> QED BY <1>2, <3>1, <3>2 DEF SureInv
  <2> QED BY <2>1, <2>2, <2>3
<1> QED BY <1>0, <1>1, <1>3, <1>5, <1>6, <1>7, <1>8, <1>9 DEF DiskInv
=============================================================================
