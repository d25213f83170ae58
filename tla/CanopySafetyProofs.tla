------------------------- MODULE CanopySafetyProofs -------------------------
(***************************************************************************)
(* The invariant of CanopyInvariant is inductive, and what follows from it: *)
(* recovery is exact and no promise is broken.  At the end the refinement: *)
(* each step of the code is one step of DurableCollection, or none.        *)
(***************************************************************************)
EXTENDS CanopyProofs

(* What each step of an orderly collection keeps.  Only a power cut may     *)
(* take away what a restart would have found.                               *)
Kept == Inv' /\ Recoverable' >= Recoverable

(***************************************************************************)
(* Loading.                                                                *)
(***************************************************************************)
LEMMA OpenKeeps ==
  ASSUME Good, Open
  PROVE  Kept
<1>1. HistoryInv' /\ DiskInv' /\ Recoverable' = Recoverable /\ Recoverable \in Nat
  BY SameDisk DEF Open, Good, Numbers
<1>2. ClosedInv' /\ ReplayInv' /\ OpenInv' /\ WriteInv'
  BY DEF Open, Good, Inv, ClosedInv, ReplayInv, OpenInv, WriteInv
<1> QED BY <1>1, <1>2 DEF Kept, Inv

(* A collection that was never opened gets an empty log. *)
LEMMA FirstLog ==
  ASSUME Good, ~log.made, log' = EmptyLog, oldLogs' = {},
         UNCHANGED <<state, oldStates, ghost>>
  PROVE  HistoryInv' /\ DiskInv' /\ Recoverable' = Recoverable
<1>0. /\ log.frames = <<>> /\ log'.frames = <<>> /\ log'.made /\ log'.tail = "clean"
      /\ log'.synced = 0 /\ DOMAIN <<>> = {}
  <2>1. LogInv(log)
    BY DEF Good, Inv, DiskInv
  <2> QED BY <2>1 DEF LogInv, EmptyLog
<1>1. Recoverable' = Recoverable /\ LastSeq(log)' = LastSeq(log)
  BY <1>0 DEF Recoverable, LastSeq
<1>2. HistoryInv'
  BY <1>1 DEF ghost, Good, Inv, HistoryInv
<1>3. LogInv(log)'
  BY <1>0 DEF LogInv
<1>4. \A s \in {state} \cup oldStates : StateInv(s)'
  BY <1>1 DEF ghost, Good, Inv, DiskInv, StateInv
<1>5. LogContinuesSnapshot'
  BY <1>0 DEF LogContinuesSnapshot
<1>6. OldStateInv'
  BY <1>1 DEF Good, Inv, DiskInv, OldStateInv
<1>7. SureInv'
  <2>1. \A s \in {state} \cup oldStates : sure <= s.cp
    BY <1>0 DEF Good, Inv, DiskInv, SureInv
  <2> QED BY <2>1 DEF ghost, SureInv
<1> QED BY <1>1, <1>2, <1>3, <1>4, <1>5, <1>6, <1>7 DEF DiskInv

LEMMA LoadStateKeeps ==
  ASSUME Orderly, Good, LoadState
  PROVE  Kept
<1>1. HistoryInv' /\ DiskInv' /\ Recoverable' = Recoverable /\ Recoverable \in Nat /\ log'.made
  <2>1. CASE log.made
    BY <2>1, SameDisk DEF LoadState, disk, ghost, Good, Numbers
  <2>2. CASE ~log.made
    BY <2>2, FirstLog DEF LoadState, ghost, Orderly, Good, Numbers, EmptyLog
  <2> QED BY <2>1, <2>2
<1>2. cur = 0 /\ cur' = 0
  BY DEF LoadState, Good, Inv, WriteInv
<1>3. mem = Fresh /\ nextSeq = 1 /\ cp = 0 /\ hist[1] = Fresh
  BY DEF LoadState, Good, Inv, ClosedInv, HistoryInv
<1>4. StateInv(state) /\ state.cp \in Nat
  BY DEF Good, Numbers, Inv, DiskInv
<1>5. cp' = state.cp /\ nextSeq' = state.cp + 1 /\ mem' = hist[nextSeq']
  <2>1. CASE state.made
    <3>1. state.mem = hist[state.cp + 1] /\ IsPlain(state.mem)
      <4>1. state.mem = hist[state.cp + 1] /\ state.cp + 1 \in DOMAIN hist
        BY <1>4 DEF StateInv, Good, Numbers, Inv, HistoryInv
      <4> QED BY <4>1 DEF Good, Inv, HistoryInv
    <3>2. LoadSnapshot(mem, state.mem) = state.mem
      BY <1>3, <3>1, LoadPlainSnapshot
    <3> QED BY <2>1, <3>1, <3>2 DEF LoadState
  <2>2. CASE ~state.made
    BY <1>3, <1>4, <2>2 DEF LoadState, StateInv
  <2> QED BY <2>1, <2>2
<1>6. pc' = "replay" /\ state' = state /\ hist' = hist /\ Len(log'.frames) \in Nat
  <2>1. Len(log'.frames) \in Nat
    <3>1. CASE log.made
      BY <3>1 DEF LoadState, Good, Numbers, LogNumbers
    <3>2. CASE ~log.made
      BY <3>2, EmptySeq DEF LoadState, EmptyLog
    <3> QED BY <3>1, <3>2
  <2> QED BY <2>1 DEF LoadState, ghost
<1>7. ReplayInv'
  BY <1>1, <1>2, <1>4, <1>5, <1>6 DEF ReplayInv, Passed
<1>8. ClosedInv' /\ OpenInv' /\ WriteInv'
  BY <1>2, <1>6 DEF ClosedInv, OpenInv, WriteInv
<1> QED BY <1>1, <1>7, <1>8 DEF Kept, Inv

(* The next frame of a load is in the snapshot, or it is the write after    *)
(* the last one in memory and replay accepts it.                            *)
LEMMA NextFrame ==
  ASSUME Good, pc = "replay", cur < Len(log.frames)
  PROVE  LET f == log.frames[cur + 1] IN
         /\ cur + 1 \in DOMAIN log.frames
         /\ Replays(f) /\ f.seq \in Nat
         /\ f.seq > cp => f.seq = nextSeq /\ mem = hist[f.seq]
         /\ f.seq <= cp => nextSeq = cp + 1
<1> DEFINE f == log.frames[cur + 1]
<1>1. /\ LogNumbers(log) /\ LogInv(log) /\ cp = state.cp /\ cp \in Nat /\ cur \in Nat
      /\ nextSeq \in Nat /\ mem = hist[nextSeq]
      /\ nextSeq - 1 = IF Passed > cp THEN Passed ELSE cp
  BY DEF Good, Numbers, Inv, DiskInv, ReplayInv
<1>2. cur + 1 \in DOMAIN log.frames /\ (cur # 0 => cur \in DOMAIN log.frames)
  BY <1>1 DEF LogNumbers
<1>3. Replays(f) /\ f.seq \in Nat
  BY <1>1, <1>2 DEF LogInv, LogNumbers
<1>4. \/ f.seq <= cp
      \/ f.seq = IF cur # 0 /\ log.frames[cur].seq > cp
                 THEN log.frames[cur].seq + 1 ELSE cp + 1
  <2>1. \A i \in DOMAIN log.frames :
          \/ log.frames[i].seq <= state.cp
          \/ log.frames[i].seq = IF i > 1 /\ log.frames[i - 1].seq > state.cp
                                THEN log.frames[i - 1].seq + 1 ELSE state.cp + 1
    BY DEF Good, Inv, DiskInv, LogContinuesSnapshot
  <2>2. PICK i \in DOMAIN log.frames : i = cur + 1
    BY <1>2
  <2>3. log.frames[i] = f /\ (i > 1 <=> cur # 0) /\ i - 1 = cur
    BY <1>1, <2>2
  <2> HIDE DEF f
  <2> QED BY <1>1, <2>1, <2>3
<1>5. CASE cur = 0
  BY <1>1, <1>2, <1>3, <1>4, <1>5 DEF Passed
<1>6. CASE cur # 0
  <2>1. Passed = log.frames[cur].seq /\ Passed \in Nat /\ Passed < f.seq
    BY <1>1, <1>2, <1>6 DEF Passed, LogInv, LogNumbers
  <2>2. f.seq <= cp \/ f.seq = IF Passed > cp THEN Passed + 1 ELSE cp + 1
    BY <1>1, <1>4, <1>6, <2>1
  <2> HIDE DEF f
  <2> QED BY SMTT(30), <1>1, <1>2, <1>3, <2>1, <2>2 DEF f
<1> QED BY <1>5, <1>6

LEMMA ReplayFrameKeeps ==
  ASSUME Good, NEW oid \in Oids, ReplayFrame(oid)
  PROVE  Kept
<1> DEFINE f == log.frames[cur + 1]
<1>1. HistoryInv' /\ DiskInv' /\ Recoverable' = Recoverable /\ Recoverable \in Nat
  BY SameDisk DEF ReplayFrame, Good, Numbers
<1>2. /\ cur + 1 \in DOMAIN log.frames
      /\ Replays(f) /\ f.seq \in Nat
      /\ f.seq > cp => f.seq = nextSeq /\ mem = hist[f.seq]
      /\ f.seq <= cp => nextSeq = cp + 1
  BY NextFrame DEF ReplayFrame
<1>3. /\ mem' = IF f.seq > cp THEN Redo(mem, f, oid).mem ELSE mem
      /\ nextSeq' = IF f.seq >= nextSeq THEN f.seq + 1 ELSE nextSeq
      /\ cur' = cur + 1 /\ pc' = "replay" /\ cp' = cp
      /\ log' = log /\ state' = state /\ hist' = hist
  BY DEF ReplayFrame, disk, ghost
<1>4. /\ cp = state.cp /\ log.made /\ cur <= Len(log.frames) /\ mem = hist[nextSeq]
      /\ cur \in Nat /\ cp \in Nat /\ nextSeq \in Nat /\ cur + 1 <= Len(log.frames)
  BY <1>2 DEF ReplayFrame, Good, Numbers, LogNumbers, Inv, ReplayInv
<1>5. Passed' = f.seq
  BY <1>3, <1>4 DEF Passed
<1> HIDE DEF f
<1>6. mem' = hist[nextSeq'] /\ nextSeq' - 1 = IF Passed' > cp THEN Passed' ELSE cp
  <2>1. CASE f.seq > cp
    BY <1>2, <1>3, <1>5, <2>1 DEF Replays
  <2>2. CASE ~(f.seq > cp)
    BY <1>2, <1>3, <1>4, <1>5, <2>2
  <2> QED BY <2>1, <2>2
<1>7. ReplayInv'
  BY <1>3, <1>4, <1>6 DEF ReplayInv
<1>8. ClosedInv' /\ OpenInv' /\ WriteInv'
  BY <1>3 DEF ClosedInv, OpenInv, WriteInv
<1> QED BY <1>1, <1>7, <1>8 DEF Kept, Inv

(* No load of an orderly collection fails. *)
LEMMA LoadsSucceed ==
  ASSUME Orderly, Good
  PROVE  ~LoadFails /\ ~ReplayMalformed /\ \A oid \in Oids : ~ReplayRefused(oid)
<1>1. ~LoadFails
  BY DEF LoadFails, Orderly
<1>2. ~ReplayMalformed
  BY DEF ReplayMalformed, Good, Inv, DiskInv, LogInv
<1>3. ASSUME NEW oid \in Oids PROVE ~ReplayRefused(oid)
  BY NextFrame DEF ReplayRefused, Replays
<1> QED BY <1>1, <1>2, <1>3

LEMMA FinishLoadKeeps ==
  ASSUME Good, Numbers', FinishLoad
  PROVE  Kept
<1>0. /\ log \in Logs /\ LogNumbers(log) /\ log.made /\ cur = Len(log.frames)
      /\ nextSeq - 1 = IF Passed > state.cp THEN Passed ELSE state.cp
      /\ mem = hist[nextSeq] /\ nextSeq \in Nat \ {0}
      /\ Recoverable \in Nat /\ Recoverable < Len(hist) /\ kept \in Nat /\ kept <= Recoverable
      /\ Len(hist) \in Nat /\ IsHistory(hist) /\ DOMAIN hist = 1 .. Len(hist)
  BY DEF FinishLoad, Good, TypeOK, Numbers, Inv, HistoryInv, ReplayInv
<1>1. Recoverable = nextSeq - 1
  BY <1>0 DEF Recoverable, LastSeq, Passed, LogNumbers
<1>2. /\ log' = [log EXCEPT !.tail = "clean"]
      /\ log'.frames = log.frames /\ log'.made = log.made /\ log'.synced = log.synced
      /\ log'.tail = "clean"
  BY <1>0 DEF FinishLoad, Logs
<1>3. /\ Len(hist') = nextSeq
      /\ \A n \in 1 .. nextSeq : hist'[n] = hist[n]
  <2>1. hist \in Seq({hist[n] : n \in DOMAIN hist}) /\ nextSeq \in Nat
    BY <1>0 DEF IsHistory
  <2>2. /\ Len(hist') = IF nextSeq < Len(hist) THEN nextSeq ELSE Len(hist)
        /\ \A i \in 1 .. Len(hist') : hist'[i] = hist[i]
    BY <2>1, PrefixProperties DEF FinishLoad
  <2> QED BY <1>0, <1>1, <2>2
<1>4. DiskInv' /\ Recoverable' = Recoverable
  BY <1>0, <1>1, <1>2, <1>3, SameFrames DEF FinishLoad
<1>5. HistoryInv'
  <2>1. \A n \in DOMAIN hist' : n \in DOMAIN hist /\ hist'[n] = hist[n]
    BY <1>0, <1>1, <1>3 DEF Numbers
  <2>2. hist'[1] = Fresh
    BY <1>0, <1>3 DEF Good, Inv, HistoryInv
  <2>3. kept' <= Recoverable
    BY <1>0, <1>1 DEF FinishLoad
  <2> QED BY <1>0, <1>1, <1>3, <1>4, <2>1, <2>2, <2>3 DEF Good, Inv, HistoryInv
<1>6. ClosedInv' /\ ReplayInv' /\ OpenInv' /\ WriteInv'
  BY <1>0, <1>1, <1>2, <1>3, <1>4 DEF FinishLoad, ClosedInv, ReplayInv, OpenInv, WriteInv
<1> QED BY <1>0, <1>4, <1>5, <1>6 DEF Kept, Inv

-----------------------------------------------------------------------------
(***************************************************************************)
(* Writing.                                                                *)
(***************************************************************************)
LEMMA WriteKeeps ==
  ASSUME Orderly, Good, Numbers', NEW w \in Workload, NEW oid \in Oids, Write(w, oid)
  PROVE  Kept
<1> DEFINE result == Exec(mem, w, oid)
           new == [seq |-> nextSeq, first |-> mem.next, req |-> w]
<1>0. /\ Len(hist) = nextSeq /\ mem = hist[nextSeq] /\ Recoverable = nextSeq - 1
      /\ log.made /\ log.tail = "clean" /\ pc = "idle" /\ cur = 0
      /\ nextSeq \in Nat \ {0} /\ Recoverable \in Nat
      /\ IsHistory(hist) /\ DOMAIN hist = 1 .. Len(hist) /\ IsPlain(mem)
      /\ kept \in Nat /\ kept <= Recoverable
  <2>1. /\ pc = "idle" /\ log.made /\ log.tail = "clean" /\ cur = 0
        /\ Len(hist) = nextSeq /\ mem = hist[nextSeq] /\ Recoverable = nextSeq - 1
    BY DEF Write, Good, Inv, OpenInv, WriteInv
  <2>2. /\ nextSeq \in Nat \ {0} /\ Recoverable \in Nat /\ kept \in Nat
        /\ IsHistory(hist) /\ DOMAIN hist = 1 .. Len(hist) /\ kept <= Recoverable
    BY DEF Good, TypeOK, Numbers, Inv, HistoryInv
  <2>3. IsPlain(hist[nextSeq])
    BY <2>1, <2>2 DEF Good, Inv, HistoryInv
  <2> QED BY <2>1, <2>2, <2>3
<1>1. w \in Requests /\ ReplaysAlike(w)
  BY CanopyAssumption DEF Orderly
<1>2. new \in Frames /\ new.first = mem.next /\ new.req = w /\ new.seq = nextSeq
  BY <1>0, <1>1 DEF Frames, IsPlain, IsMemory
<1>3. /\ IsPlain(result.mem)
      /\ ~IsLogged(mem, w, result) => result.mem = mem
      /\ IsLogged(mem, w, result) =>
           \A other \in Oids : /\ Redo(mem, new, other).mem = result.mem
                               /\ ~IsRefused(new, Redo(mem, new, other))
  <2> HIDE DEF new
  <2> QED BY <1>0, <1>1, <1>2, ReplayRepeatsCall
<1>4. mem' = result.mem /\ UNCHANGED <<cp, cur, reloading, disk, kept, sure>>
  BY DEF Write
<1>5. CASE ~IsLogged(mem, w, result)
  <2>1. UNCHANGED <<pc, frame, nextSeq, hist>>
    BY <1>5 DEF Write
  <2>2. HistoryInv' /\ DiskInv' /\ Recoverable' = Recoverable
    BY <1>4, <2>1, SameDisk DEF ghost, Good
  <2>3. mem' = mem
    BY <1>3, <1>4, <1>5
  <2>4. ClosedInv' /\ ReplayInv' /\ OpenInv' /\ WriteInv'
    BY <1>0, <1>4, <2>1, <2>2, <2>3 DEF disk, ClosedInv, ReplayInv, OpenInv, WriteInv
  <2> QED BY <1>0, <2>2, <2>4 DEF Kept, Inv
<1>6. CASE IsLogged(mem, w, result)
  <2>1. /\ pc' = "append" /\ frame' = new /\ nextSeq' = nextSeq + 1
        /\ hist' = Append(Prefix(hist, nextSeq), result.mem)
    BY <1>6 DEF Write
  <2> DEFINE S == {hist[n] : n \in DOMAIN hist} \cup {result.mem}
  <2>2. /\ Len(hist') = nextSeq + 1
        /\ \A n \in 1 .. nextSeq : hist'[n] = hist[n]
        /\ hist'[nextSeq + 1] = result.mem
    <3>1. hist \in Seq(S) /\ result.mem \in S
      BY <1>0, SeqMonotonic DEF IsHistory
    <3> HIDE DEF S
    <3>2. /\ Prefix(hist, nextSeq) \in Seq(S)
          /\ Len(Prefix(hist, nextSeq)) = nextSeq
          /\ \A i \in 1 .. nextSeq : Prefix(hist, nextSeq)[i] = hist[i]
      BY <1>0, <3>1, PrefixProperties
    <3> HIDE DEF result
    <3> QED BY <1>0, <2>1, <3>1, <3>2, AppendProperties
  <2>3. DiskInv' /\ Recoverable' = Recoverable /\ LastSeq(log)' = LastSeq(log)
    <3>1. \A n \in 1 .. Recoverable + 1 : hist'[n] = hist[n]
      BY <1>0, <2>2
    <3>2. Len(hist') > Recoverable /\ log' = log /\ log'.tail # "buried"
      BY <1>0, <1>4, <2>2 DEF disk
    <3> QED BY <1>4, <3>1, <3>2, SameFrames DEF disk
  <2>4. HistoryInv'
    <3>1. ASSUME NEW n \in DOMAIN hist' PROVE IsPlain(hist'[n])
      <4>1. n \in 1 .. nextSeq + 1
        BY <2>2, <3>1 DEF Numbers
      <4>2. CASE n \in 1 .. nextSeq
        BY <1>0, <2>2, <4>2 DEF Good, Inv, HistoryInv
      <4>3. CASE n = nextSeq + 1
        BY <1>3, <2>2, <4>3
      <4> QED BY <1>0, <4>1, <4>2, <4>3
    <3>2. hist'[1] = Fresh
      BY <1>0, <2>2 DEF Good, Inv, HistoryInv
    <3> QED BY <1>0, <1>4, <2>2, <2>3, <3>1, <3>2 DEF HistoryInv
  <2>5. Replays(frame)'
    <3>1. hist'[new.seq] = mem /\ hist'[new.seq + 1] = result.mem /\ new.seq \in 1 .. Len(hist') - 1
      BY <1>0, <1>2, <2>2
    <3> HIDE DEF new, result
    <3> QED BY <1>3, <1>6, <2>1, <3>1 DEF Replays
  <2>6. frame'.seq = nextSeq' - 1 /\ mem' = hist'[nextSeq'] /\ Len(hist') = nextSeq'
    BY <1>0, <1>2, <1>4, <2>1, <2>2
  <2>7. ClosedInv' /\ ReplayInv' /\ OpenInv' /\ WriteInv'
    <3>1. Recoverable' = nextSeq' - 2
      BY <1>0, <2>1, <2>3
    <3> HIDE DEF new, result
    <3> QED BY <1>0, <1>4, <2>1, <2>5, <2>6, <3>1
          DEF disk, ClosedInv, ReplayInv, OpenInv, WriteInv
  <2> QED BY <1>0, <2>3, <2>4, <2>7 DEF Kept, Inv
<1> QED BY <1>5, <1>6

(* A write that has logged its frame and has no more to do than to return,  *)
(* or to take the checkpoint.                                               *)
LEMMA AppendFrameKeeps ==
  ASSUME Good, Numbers', AppendFrame
  PROVE  Kept
<1>0. /\ pc = "append" /\ log' = WithFrame(log) /\ cur = 0
      /\ Len(hist) = nextSeq /\ mem = hist[nextSeq] /\ Recoverable = nextSeq - 2
      /\ log.made /\ log.tail = "clean" /\ nextSeq \in Nat
  BY DEF AppendFrame, Good, Numbers, Inv, OpenInv, WriteInv
<1>1. /\ UNCHANGED <<oldLogs, state, oldStates, hist, sure, mem, nextSeq, cp, cur>>
      /\ kept' \in {kept, nextSeq - 1}
      /\ pc' = "sync" \/ (~SyncFull /\ pc' \in {"snapshot", "idle"})
  BY DEF AppendFrame, Appended, Return, Promise, ghost
<1>2. HistoryInv' /\ DiskInv' /\ Recoverable' = nextSeq - 1 /\ LastSeq(log)' = nextSeq - 1
  BY <1>0, <1>1, FrameInLog
<1>3. log'.made /\ log'.tail = "clean"
  <2>1. log \in Logs /\ log' = [log EXCEPT !.frames = Append(log.frames, frame)]
    BY <1>0 DEF WithFrame, Good, TypeOK
  <2> QED BY <1>0, <2>1 DEF Logs
<1>4. ClosedInv' /\ ReplayInv' /\ OpenInv' /\ WriteInv'
  BY <1>0, <1>1, <1>2, <1>3 DEF ClosedInv, ReplayInv, OpenInv, WriteInv
<1> QED BY <1>0, <1>2, <1>4 DEF Kept, Inv

LEMMA SyncFrameKeeps ==
  ASSUME Orderly, Good, SyncFrame
  PROVE  Kept
<1>0. /\ pc = "sync" /\ cur = 0 /\ LastSeq(log) = nextSeq - 1
      /\ Len(hist) = nextSeq /\ mem = hist[nextSeq] /\ Recoverable = nextSeq - 1
      /\ log.made /\ log.tail = "clean" /\ nextSeq \in Nat
  BY DEF SyncFrame, Good, Numbers, Inv, OpenInv, WriteInv
<1>1. /\ log' = [log EXCEPT !.synced = Len(log.frames)] /\ oldLogs' = {}
      /\ UNCHANGED <<state, oldStates, hist, mem, nextSeq, cp, cur>>
      /\ sure' \in {sure, nextSeq - 1} /\ kept' \in {kept, nextSeq - 1}
      /\ pc' \in {"snapshot", "idle"}
  BY DEF SyncFrame, Appended, Return, Promise, Orderly
<1>2. /\ HistoryInv' /\ DiskInv'
      /\ Recoverable' = Recoverable /\ LastSeq(log)' = LastSeq(log)
      /\ log'.synced = Len(log'.frames) /\ log'.made = log.made /\ log'.tail = log.tail
  BY <1>0, <1>1, LogSynced
<1>3. ClosedInv' /\ ReplayInv' /\ OpenInv' /\ WriteInv'
  BY <1>0, <1>1, <1>2 DEF ClosedInv, ReplayInv, OpenInv, WriteInv
<1> QED BY <1>0, <1>2, <1>3 DEF Kept, Inv

LEMMA AppendFailsKeeps ==
  ASSUME Good, Numbers', AppendFails
  PROVE  Kept
<1>0. /\ pc \in {"append", "sync"} /\ cur = 0 /\ log.tail = "clean" /\ nextSeq \in Nat
      /\ Recoverable = IF pc = "append" THEN nextSeq - 2 ELSE nextSeq - 1
  BY DEF AppendFails, Good, Numbers, Inv, OpenInv, WriteInv
<1>1. /\ UNCHANGED <<cur, oldLogs, state, oldStates, ghost>>
      /\ pc' = "load" /\ mem' = Fresh /\ nextSeq' = 1 /\ cp' = 0
  BY DEF AppendFails, Reload
<1>2. HistoryInv' /\ DiskInv' /\ Recoverable' >= Recoverable
  <2>1. CASE log' = log
    BY <1>0, <1>1, <2>1, SameDisk DEF disk, Good
  <2>2. CASE pc = "append" /\ log' = WithFrame(log)
    BY <1>0, <1>1, <2>2, FrameInLog DEF ghost
  <2>3. CASE log' = [log EXCEPT !.tail = "torn"]
    BY <1>0, <1>1, <2>3, NewTail
  <2>4. [log EXCEPT !.tail = IF @ = "clean" THEN "torn" ELSE "buried"] = [log EXCEPT !.tail = "torn"]
    BY <1>0
  <2> QED BY <2>1, <2>2, <2>3, <2>4 DEF AppendFails
<1>3. ClosedInv' /\ ReplayInv' /\ OpenInv' /\ WriteInv'
  BY <1>0, <1>1 DEF ClosedInv, ReplayInv, OpenInv, WriteInv
<1> QED BY <1>2, <1>3 DEF Kept, Inv

-----------------------------------------------------------------------------
(***************************************************************************)
(* The checkpoint.                                                         *)
(***************************************************************************)

(* Memory, history and the sequence numbers stay as they are in it. *)
LEMMA CheckpointProcess ==
  ASSUME Good, pc \in {"snapshot", "stateSync", "reset", "logSync"}
  PROVE  /\ cur = 0 /\ log.made /\ log.tail = "clean"
         /\ Len(hist) = nextSeq /\ mem = hist[nextSeq] /\ Recoverable = nextSeq - 1
         /\ nextSeq \in Nat \ {0} /\ sure <= nextSeq - 1 /\ kept <= nextSeq - 1
         /\ sure \in Nat /\ kept \in Nat /\ LastSeq(log) \in Nat /\ LastSeq(log) <= nextSeq - 1
         /\ hist[1] = Fresh /\ \A n \in DOMAIN hist : IsPlain(hist[n])
         /\ LogInv(log) /\ LogNumbers(log)
BY SureIsRecoverable DEF Good, Numbers, Inv, HistoryInv, DiskInv, OpenInv, WriteInv

LEMMA RenameStateKeeps ==
  ASSUME Good, RenameState
  PROVE  Kept
<1>0. /\ cur = 0 /\ log.made /\ log.tail = "clean"
      /\ Len(hist) = nextSeq /\ mem = hist[nextSeq] /\ Recoverable = nextSeq - 1
      /\ nextSeq \in Nat \ {0} /\ sure <= nextSeq - 1 /\ LastSeq(log) = nextSeq - 1
      /\ SyncFull => oldLogs = {} /\ log.synced = Len(log.frames)
  BY CheckpointProcess DEF RenameState, Good, Inv, WriteInv
<1>1. /\ pc' = "stateSync" /\ oldStates' = oldStates \cup {state}
      /\ UNCHANGED <<mem, nextSeq, cp, cur, log, oldLogs, hist, kept, sure>>
      /\ state'.made /\ state'.cp = nextSeq - 1 /\ state'.mem = mem
  BY DEF RenameState, ghost
<1>2. Recoverable' = nextSeq - 1 /\ LastSeq(log)' = nextSeq - 1
  BY <1>0, <1>1 DEF Recoverable, LastSeq
<1>3. HistoryInv'
  BY <1>0, <1>1, <1>2 DEF Good, Inv, HistoryInv
<1>4. \A f : Replays(f) => Replays(f)'
  BY <1>1 DEF Replays
<1>5. \A l \in {log} \cup oldLogs : LogInv(l)'
  BY <1>0, <1>2, <1>4 DEF Good, Inv, DiskInv, LogInv
<1>6. \A s \in {state} \cup oldStates : StateInv(s)'
  BY <1>0, <1>1, <1>2 DEF Good, Inv, DiskInv, StateInv
<1>7. StateInv(state)'
  BY <1>0, <1>1, <1>2 DEF StateInv
<1>8. LogContinuesSnapshot'
  <2>1. ASSUME NEW l \in {log} \cup oldLogs, NEW i \in DOMAIN l.frames
        PROVE  l.frames[i].seq <= state'.cp
    BY <1>0, <1>1 DEF Good, Inv, DiskInv, LogInv
  <2>2. {state'} \cup oldStates' = {state'} \cup ({state} \cup oldStates)
    BY <1>1
  <2> QED BY <1>1, <2>1, <2>2 DEF LogContinuesSnapshot, Good, Inv, DiskInv
<1>9. OldStateInv'
  <2>1. \A s \in {state} \cup oldStates : s.cp <= nextSeq - 1
    BY <1>0 DEF Good, Inv, DiskInv, StateInv
  <2>2. state'.cp <= nextSeq - 1
    BY <1>0, <1>1
  <2> QED BY <1>1, <1>2, <2>1, <2>2 DEF OldStateInv
<1>10. SureInv'
  BY <1>0, <1>1 DEF Good, Inv, DiskInv, SureInv
<1>11. ClosedInv' /\ ReplayInv' /\ OpenInv' /\ WriteInv'
  BY <1>0, <1>1, <1>2 DEF ClosedInv, ReplayInv, OpenInv, WriteInv
<1>12. DiskInv'
  BY <1>1, <1>5, <1>6, <1>7, <1>8, <1>9, <1>10 DEF DiskInv
<1> QED BY <1>0, <1>2, <1>3, <1>11, <1>12 DEF Kept, Inv

(* A directory fsync leaves one version of each file, and what a call       *)
(* promises when it returns can be recovered.                               *)
LEMMA FewerVersions ==
  ASSUME Good, UNCHANGED <<log, state, hist>>,
         oldLogs' \subseteq oldLogs, oldStates' \subseteq oldStates,
         kept' \in {kept, Recoverable}, SureInv'
  PROVE  HistoryInv' /\ DiskInv' /\ Recoverable' = Recoverable /\ LastSeq(log)' = LastSeq(log)
<1>1. Recoverable' = Recoverable /\ LastSeq(log)' = LastSeq(log)
  BY DEF Recoverable, LastSeq
<1>2. HistoryInv'
  BY <1>1 DEF Good, Numbers, Inv, HistoryInv
<1>3. \A f : Replays(f) => Replays(f)'
  BY DEF Replays
<1>4. (\A l \in {log} \cup oldLogs : LogInv(l))'
  BY <1>1, <1>3 DEF Good, Inv, DiskInv, LogInv
<1>5. (\A s \in {state} \cup oldStates : StateInv(s))'
  BY <1>1 DEF Good, Inv, DiskInv, StateInv
<1>6. LogContinuesSnapshot'
  <2>1. {log'} \cup oldLogs' \subseteq {log} \cup oldLogs
    OBVIOUS
  <2>2. {state'} \cup oldStates' \subseteq {state} \cup oldStates
    OBVIOUS
  <2> QED BY <2>1, <2>2 DEF Good, Inv, DiskInv, LogContinuesSnapshot
<1>7. OldStateInv'
  BY <1>1 DEF Good, Inv, DiskInv, OldStateInv
<1> QED BY <1>1, <1>2, <1>4, <1>5, <1>6, <1>7 DEF DiskInv

LEMMA SyncStateNameKeeps ==
  ASSUME Orderly, Good, SyncStateName
  PROVE  Kept
<1>0. /\ cur = 0 /\ log.made /\ log.tail = "clean"
      /\ Len(hist) = nextSeq /\ mem = hist[nextSeq] /\ Recoverable = nextSeq - 1
      /\ nextSeq \in Nat \ {0} /\ state.cp = nextSeq - 1
  BY CheckpointProcess DEF SyncStateName, Good, Inv, WriteInv
<1>1. /\ pc' = "reset" /\ oldStates' = {} /\ oldLogs' = {} /\ sure' = nextSeq - 1
      /\ UNCHANGED <<mem, nextSeq, cur, log, state, hist, kept>>
  BY DEF SyncStateName, SyncDirectory, Orderly
<1>2. SureInv'
  BY <1>0, <1>1 DEF SureInv
<1>3. HistoryInv' /\ DiskInv' /\ Recoverable' = Recoverable /\ LastSeq(log)' = LastSeq(log)
  BY <1>1, <1>2, FewerVersions
<1>4. ClosedInv' /\ ReplayInv' /\ OpenInv' /\ WriteInv'
  BY <1>0, <1>1, <1>3 DEF ClosedInv, ReplayInv, OpenInv, WriteInv
<1> QED BY <1>0, <1>3, <1>4 DEF Kept, Inv

LEMMA RenameLogKeeps ==
  ASSUME Good, RenameLog
  PROVE  Kept
<1>0. /\ cur = 0 /\ Len(hist) = nextSeq /\ mem = hist[nextSeq] /\ Recoverable = nextSeq - 1
      /\ nextSeq \in Nat \ {0} /\ sure <= nextSeq - 1
      /\ state.cp = nextSeq - 1 /\ oldStates = {}
  BY CheckpointProcess DEF RenameLog, Good, Inv, WriteInv
<1>1. /\ pc' = "logSync" /\ oldLogs' = oldLogs \cup {log} /\ log' = EmptyLog
      /\ UNCHANGED <<mem, nextSeq, cp, cur, state, oldStates, hist, kept, sure>>
  BY DEF RenameLog, ghost
<1>2. log'.frames = <<>> /\ log'.made /\ log'.tail = "clean" /\ DOMAIN <<>> = {}
  BY <1>1 DEF EmptyLog
<1>3. Recoverable' = nextSeq - 1 /\ LastSeq(log)' = 0
  BY <1>0, <1>1, <1>2 DEF Recoverable, LastSeq
<1>4. HistoryInv'
  BY <1>0, <1>1, <1>3 DEF Good, Inv, HistoryInv
<1>5. \A f : Replays(f) => Replays(f)'
  BY <1>1 DEF Replays
<1>6. \A l \in {log} \cup oldLogs : LogInv(l)'
  BY <1>0, <1>3, <1>5 DEF Good, Inv, DiskInv, LogInv
<1>7. LogInv(log)'
  BY <1>2 DEF LogInv
<1>8. (\A s \in {state} \cup oldStates : StateInv(s))'
  BY <1>0, <1>1, <1>3 DEF Good, Inv, DiskInv, StateInv
<1>9. LogContinuesSnapshot'
  <2>1. {log'} \cup oldLogs' = {log'} \cup ({log} \cup oldLogs)
    BY <1>1
  <2>2. \A i \in DOMAIN log'.frames : FALSE
    BY <1>2
  <2> QED BY <1>1, <2>1, <2>2 DEF LogContinuesSnapshot, Good, Inv, DiskInv
<1>10. OldStateInv' /\ SureInv'
  BY <1>0, <1>1 DEF OldStateInv, SureInv
<1>11. ClosedInv' /\ ReplayInv' /\ OpenInv' /\ WriteInv'
  BY <1>0, <1>1, <1>2, <1>3 DEF ClosedInv, ReplayInv, OpenInv, WriteInv
<1>12. DiskInv'
  BY <1>1, <1>6, <1>7, <1>8, <1>9, <1>10 DEF DiskInv
<1> QED BY <1>0, <1>3, <1>4, <1>11, <1>12 DEF Kept, Inv

LEMMA SyncLogNameKeeps ==
  ASSUME Orderly, Good, SyncLogName
  PROVE  Kept
<1>0. /\ cur = 0 /\ log.made /\ log.tail = "clean"
      /\ Len(hist) = nextSeq /\ mem = hist[nextSeq] /\ Recoverable = nextSeq - 1
      /\ nextSeq \in Nat \ {0} /\ sure <= nextSeq - 1 /\ state.cp = nextSeq - 1
  BY CheckpointProcess DEF SyncLogName, Good, Inv, WriteInv
<1>1. /\ pc' = "idle" /\ oldStates' = {} /\ oldLogs' = {} /\ sure' \in {sure, nextSeq - 1}
      /\ kept' = nextSeq - 1 /\ UNCHANGED <<mem, nextSeq, cp, cur, log, state, hist>>
  BY DEF SyncLogName, SyncDirectory, Return, Promise, Orderly
<1>2. SureInv'
  BY <1>0, <1>1 DEF SureInv
<1>3. HistoryInv' /\ DiskInv' /\ Recoverable' = Recoverable /\ LastSeq(log)' = LastSeq(log)
  BY <1>0, <1>1, <1>2, FewerVersions
<1>4. ClosedInv' /\ ReplayInv' /\ OpenInv' /\ WriteInv'
  BY <1>0, <1>1, <1>3 DEF ClosedInv, ReplayInv, OpenInv, WriteInv
<1> QED BY <1>0, <1>3, <1>4 DEF Kept, Inv

(* A checkpoint that fails leaves a write that the log has.                 *)
LEMMA CheckpointFailsKeeps ==
  ASSUME Good, CheckpointFails
  PROVE  Kept
<1>0. /\ cur = 0 /\ log.made /\ log.tail = "clean" /\ LogNumbers(log)
      /\ Len(hist) = nextSeq /\ mem = hist[nextSeq] /\ Recoverable = nextSeq - 1
      /\ nextSeq \in Nat \ {0} /\ sure <= nextSeq - 1
      /\ pc = "snapshot" => LastSeq(log) = nextSeq - 1
      /\ pc = "snapshot" /\ SyncFull => oldLogs = {} /\ log.synced = Len(log.frames)
      /\ pc # "snapshot" => state.cp = nextSeq - 1 /\ oldStates = {}
  BY CheckpointProcess DEF CheckpointFails, Good, Inv, WriteInv
<1>1. /\ pc' = "idle" /\ sure' = IF SyncFull THEN nextSeq - 1 ELSE sure
      /\ kept' = nextSeq - 1 /\ UNCHANGED <<mem, nextSeq, cp, cur, disk, hist>>
  BY DEF CheckpointFails, Return, Promise
<1>2. SureInv'
  <2>1. CASE ~SyncFull
    BY <1>1, <2>1 DEF disk, Good, Inv, DiskInv, SureInv
  <2>2. CASE SyncFull /\ pc = "snapshot" /\ log.frames = <<>>
    <3>1. sure' = 0
      BY <1>0, <1>1, <2>2 DEF LastSeq
    <3> QED BY <1>1, <3>1 DEF disk, SureInv, Good, Numbers
  <2>3. CASE SyncFull /\ pc = "snapshot" /\ log.frames # <<>>
    <3>1. log.synced \in DOMAIN log.frames /\ log.frames[log.synced].seq = nextSeq - 1
      BY <1>0, <2>3 DEF LastSeq, LogNumbers
    <3> QED BY <1>0, <1>1, <2>3, <3>1 DEF disk, SureInv
  <2>4. CASE pc # "snapshot"
    BY <1>0, <1>1, <2>4 DEF disk, SureInv
  <2> QED BY <2>1, <2>2, <2>3, <2>4
<1>3. HistoryInv' /\ DiskInv' /\ Recoverable' = Recoverable /\ LastSeq(log)' = LastSeq(log)
  BY <1>0, <1>1, <1>2, FewerVersions DEF disk
<1>4. ClosedInv' /\ ReplayInv' /\ OpenInv' /\ WriteInv'
  BY <1>0, <1>1, <1>3 DEF disk, ClosedInv, ReplayInv, OpenInv, WriteInv
<1> QED BY <1>0, <1>3, <1>4 DEF Kept, Inv

-----------------------------------------------------------------------------
(***************************************************************************)
(* The end of a process and of the machine.                                *)
(***************************************************************************)
LEMMA ClosedProcess ==
  ASSUME pc' = "closed", mem' = Fresh, NoProxy
  PROVE  ClosedInv' /\ ReplayInv' /\ OpenInv' /\ WriteInv'
BY DEF NoProxy, ClosedInv, ReplayInv, OpenInv, WriteInv

LEMMA ShutdownKeeps ==
  ASSUME Orderly, Good, Shutdown
  PROVE  Kept
<1>1. pc' = "closed" /\ mem' = Fresh /\ NoProxy /\ UNCHANGED <<state, oldStates, hist, kept>>
  BY DEF Shutdown
<1>2. HistoryInv' /\ DiskInv' /\ Recoverable' = Recoverable /\ Recoverable \in Nat
  <2>1. CASE /\ log' = [log EXCEPT !.synced = Len(log.frames)]
             /\ oldLogs' = {} /\ sure' = nextSeq - 1
    <3>1. sure' = Recoverable
      BY <2>1 DEF Shutdown, Good, Inv, OpenInv
    <3> QED BY <1>1, <2>1, <3>1, LogSynced DEF Good, Numbers
  <2>2. CASE UNCHANGED <<log, oldLogs, sure>>
    BY <1>1, <2>2, SameDisk DEF disk, ghost, Good, Numbers
  <2> QED BY <2>1, <2>2 DEF Shutdown, Orderly
<1> QED BY <1>1, <1>2, ClosedProcess DEF Kept, Inv

LEMMA KillKeeps ==
  ASSUME Good, Kill
  PROVE  Kept
<1>1. /\ pc' = "closed" /\ mem' = Fresh /\ NoProxy
      /\ UNCHANGED <<oldLogs, state, oldStates, ghost>>
  BY DEF Kill
<1>2. HistoryInv' /\ DiskInv' /\ Recoverable' = Recoverable /\ Recoverable \in Nat
  <2>1. CASE log' = log
    BY <1>1, <2>1, SameDisk DEF disk, Good, Numbers
  <2>2. CASE log' = [log EXCEPT !.tail = "torn"]
    BY <1>1, <2>2, NewTail DEF Good, Numbers
  <2> QED BY <2>1, <2>2 DEF Kill
<1> QED BY <1>1, <1>2, ClosedProcess DEF Kept, Inv

(* What a power cut leaves of a log: some of its first frames, all of those *)
(* that were on the device.                                                 *)
LEMMA CutLog ==
  ASSUME NEW l, l \in Logs, l.synced <= Len(l.frames), l.tail # "buried",
         NEW n \in l.synced .. Len(l.frames), NEW c \in CutLogs(l, n)
  PROVE  /\ c.made = l.made /\ c.synced = n /\ c.tail # "buried"
         /\ Len(c.frames) = n /\ DOMAIN c.frames = 1 .. n
         /\ n \in Nat /\ n <= Len(l.frames) /\ Len(l.frames) \in Nat
         /\ \A i \in 1 .. n : c.frames[i] = l.frames[i]
         /\ l.frames = <<>> => c.frames = <<>>
<1>1. /\ l.frames \in Seq(Frames) /\ Len(l.frames) \in Nat /\ l.synced \in Nat
      /\ n \in Nat /\ n <= Len(l.frames)
  BY LenProperties DEF Logs
<1>2. c.made = l.made /\ c.synced = n /\ c.frames = SubSeq(l.frames, 1, n) /\ c.tail # "buried"
  BY DEF CutLogs
<1>3. /\ SubSeq(l.frames, 1, n) \in Seq(Frames) /\ Len(SubSeq(l.frames, 1, n)) = n
      /\ \A i \in 1 .. n : SubSeq(l.frames, 1, n)[i] = l.frames[i]
  BY <1>1, SubSeqProperties
<1>4. DOMAIN SubSeq(l.frames, 1, n) = 1 .. n
  BY <1>3, LenProperties
<1>5. l.frames = <<>> => n = 0
  BY <1>1, EmptySeq
<1>6. n = 0 => SubSeq(l.frames, 1, n) = <<>>
  BY <1>3, EmptySeq
<1> QED BY <1>1, <1>2, <1>3, <1>4, <1>5, <1>6

LEMMA PowerCutKeeps ==
  ASSUME Good, Numbers', PowerCut
  PROVE  Inv' /\ Recoverable' <= Recoverable
<1>1. /\ pc' = "closed" /\ mem' = Fresh /\ NoProxy /\ UNCHANGED <<hist, sure>>
      /\ oldLogs' = {} /\ oldStates' = {} /\ kept' = sure
      /\ state' \in {state} \cup oldStates
  BY DEF PowerCut
<1>0. PICK l \in {log} \cup oldLogs :
        \E n \in l.synced .. Len(l.frames) : log' \in CutLogs(l, n)
  BY DEF PowerCut
<1>2. PICK n \in l.synced .. Len(l.frames) : log' \in CutLogs(l, n)
  BY <1>0
<1>3. /\ LogInv(l) /\ LogNumbers(l) /\ l \in Logs /\ StateInv(state') /\ state'.cp \in Nat
      /\ Recoverable \in Nat /\ Recoverable' \in Nat /\ LastSeq(log)' <= Recoverable'
      /\ state'.cp <= Recoverable' /\ Recoverable' \in {LastSeq(log)', state'.cp}
      /\ sure \in Nat /\ Len(hist) \in Nat /\ Recoverable < Len(hist)
  BY <1>1 DEF Good, TypeOK, Numbers, Inv, DiskInv, HistoryInv
<1>4. /\ log'.made = l.made /\ log'.synced = n /\ log'.tail # "buried"
      /\ Len(log'.frames) = n /\ DOMAIN log'.frames = 1 .. n
      /\ n \in Nat /\ n <= Len(l.frames)
      /\ \A i \in 1 .. n : log'.frames[i] = l.frames[i]
      /\ l.frames = <<>> => log'.frames = <<>>
  BY <1>2, <1>3, CutLog DEF LogNumbers, LogInv
<1>5. ASSUME NEW i \in 1 .. n
      PROVE  /\ i \in DOMAIN l.frames /\ l.frames[i].seq \in Nat
             /\ Replays(l.frames[i]) /\ l.frames[i].seq <= Recoverable
             /\ \A j \in 1 .. n : i < j => l.frames[i].seq < l.frames[j].seq
  BY <1>3, <1>4 DEF LogInv, LogNumbers
<1>6. LastSeq(log)' = IF n = 0 THEN 0 ELSE l.frames[n].seq
  <2>1. log'.frames = <<>> <=> n = 0
    BY <1>4 DEF Numbers, LogNumbers
  <2> QED BY <1>4, <2>1 DEF LastSeq
<1>7. \A i \in 1 .. n : l.frames[i].seq <= Recoverable'
  <2>1. ASSUME NEW i \in 1 .. n PROVE l.frames[i].seq <= LastSeq(log)'
    <3>1. n \in 1 .. n /\ n # 0 /\ (i < n \/ i = n)
      BY <1>4
    <3>2. l.frames[n].seq \in Nat /\ l.frames[i].seq \in Nat
      BY <1>5, <3>1
    <3>3. i < n => l.frames[i].seq < l.frames[n].seq
      BY <1>5, <3>1
    <3> QED BY <1>6, <3>1, <3>2, <3>3
  <2>2. LastSeq(log)' \in Nat
    BY DEF Numbers
  <2> QED BY <1>3, <1>5, <2>1, <2>2
<1>8. Recoverable' <= Recoverable
  <2>1. LastSeq(log)' <= Recoverable
    <3>1. CASE n = 0
      BY <1>3, <1>6, <3>1
    <3>2. CASE n # 0
      BY <1>4, <1>5, <1>6, <3>2
    <3> QED BY <3>1, <3>2
  <2>2. state'.cp <= Recoverable
    BY <1>3 DEF StateInv
  <2> QED BY <1>3, <2>1, <2>2
<1>9. \A f : Replays(f) => Replays(f)'
  BY <1>1 DEF Replays
<1>10. LogInv(log)'
  <2>1. ASSUME NEW i \in DOMAIN log'.frames
        PROVE  /\ Replays(log.frames[i])' /\ log'.frames[i].seq <= Recoverable'
               /\ \A j \in DOMAIN log'.frames : i < j => log'.frames[i].seq < log'.frames[j].seq
    <3>1. i \in 1 .. n /\ log'.frames[i] = l.frames[i]
      BY <1>4, <2>1
    <3>2. Replays(l.frames[i])'
      BY <1>5, <1>9, <3>1
    <3> QED BY <1>4, <1>5, <1>7, <3>1, <3>2 DEF Replays
  <2>2. ~log'.made => log'.frames = <<>>
    BY <1>3, <1>4 DEF LogInv
  <2> QED BY <1>4, <2>1, <2>2 DEF LogInv
<1>11. StateInv(state)'
  <2>1. state'.mem = hist[state'.cp + 1] /\ (~state'.made => state'.cp = 0)
    BY <1>3 DEF StateInv
  <2> QED BY <1>1, <1>3, <2>1 DEF StateInv
<1>12. LogContinuesSnapshot'
  <2>1. ASSUME NEW i \in 1 .. n
        PROVE  \/ log'.frames[i].seq <= state'.cp
               \/ log'.frames[i].seq = IF i > 1 /\ log'.frames[i - 1].seq > state'.cp
                                       THEN log'.frames[i - 1].seq + 1 ELSE state'.cp + 1
    <3>1. \/ l.frames[i].seq <= state'.cp
          \/ l.frames[i].seq = IF i > 1 /\ l.frames[i - 1].seq > state'.cp
                               THEN l.frames[i - 1].seq + 1 ELSE state'.cp + 1
      BY <1>1, <1>5 DEF Good, Inv, DiskInv, LogContinuesSnapshot
    <3>2. log'.frames[i] = l.frames[i] /\ (i > 1 => log'.frames[i - 1] = l.frames[i - 1])
      BY <1>4
    <3> QED BY <3>1, <3>2
  <2> QED BY <1>1, <1>4, <2>1 DEF LogContinuesSnapshot
<1>13. SureInv' /\ sure <= Recoverable'
  <2>1. \/ sure <= state'.cp
        \/ l.synced \in DOMAIN l.frames /\ sure <= l.frames[l.synced].seq
    BY <1>1 DEF Good, Inv, DiskInv, SureInv
  <2>2. CASE sure <= state'.cp
    BY <1>1, <1>3, <2>2 DEF SureInv
  <2>3. CASE l.synced \in DOMAIN l.frames /\ sure <= l.frames[l.synced].seq
    <3>1. n \in 1 .. n /\ l.synced \in 1 .. n /\ (l.synced < n \/ l.synced = n)
      BY <1>3, <1>4, <2>3 DEF LogNumbers
    <3>2. /\ l.frames[n].seq \in Nat /\ l.frames[l.synced].seq \in Nat
          /\ l.frames[n].seq <= Recoverable'
          /\ l.synced < n => l.frames[l.synced].seq < l.frames[n].seq
      BY <1>5, <1>7, <3>1
    <3>3. sure <= l.frames[n].seq
      BY <1>3, <2>3, <3>1, <3>2
    <3>4. log'.synced \in DOMAIN log'.frames /\ log'.frames[log'.synced] = l.frames[n]
      BY <1>4, <3>1
    <3>5. SureInv'
      BY <1>1, <3>3, <3>4 DEF SureInv
    <3> QED BY <1>3, <3>2, <3>3, <3>5
  <2> QED BY <2>1, <2>2, <2>3
<1>14. HistoryInv'
  <2>1. Recoverable' < Len(hist')
    BY <1>1, <1>3, <1>8
  <2> QED BY <1>1, <1>13, <2>1 DEF Good, Inv, HistoryInv
<1>15. DiskInv'
  BY <1>1, <1>10, <1>11, <1>12, <1>13 DEF DiskInv, OldStateInv
<1> QED BY <1>1, <1>8, <1>14, <1>15, ClosedProcess DEF Inv

-----------------------------------------------------------------------------
(***************************************************************************)
(* The invariant and its consequences.                                     *)
(***************************************************************************)
LEMMA InitInv == Init => Inv
<1> SUFFICES ASSUME Init PROVE Inv
  OBVIOUS
<1>1. /\ Len(<<Fresh>>) = 1 /\ <<Fresh>>[1] = Fresh /\ DOMAIN <<Fresh>> = {1}
      /\ DOMAIN <<>> = {}
  OBVIOUS
<1>2. /\ log.frames = <<>> /\ log.tail = "clean" /\ state.cp = 0 /\ state.mem = Fresh
      /\ oldLogs = {} /\ oldStates = {} /\ kept = 0 /\ sure = 0 /\ hist = <<Fresh>>
      /\ pc = "closed" /\ mem = Fresh /\ nextSeq = 1 /\ cp = 0 /\ cur = 0
  BY DEF Init, NoLog, NoState
<1>3. LastSeq(log) = 0 /\ Recoverable = 0
  BY <1>2 DEF LastSeq, Recoverable
<1>4. HistoryInv
  BY <1>1, <1>2, <1>3, FreshIsPlain DEF HistoryInv
<1>5. DiskInv
  BY <1>1, <1>2, <1>3
     DEF DiskInv, LogInv, StateInv, LogContinuesSnapshot, OldStateInv, SureInv
<1>6. ClosedInv /\ ReplayInv /\ OpenInv /\ WriteInv
  BY <1>2 DEF ClosedInv, ReplayInv, OpenInv, WriteInv
<1> QED BY <1>4, <1>5, <1>6 DEF Inv

LEMMA StepKeeps ==
  ASSUME Orderly, TypeOK, Inv, [Next]_vars
  PROVE  Inv' /\ (Recoverable' >= Recoverable \/ PowerCut)
<1>1. Good /\ Numbers'
  <2>1. TypeOK'
    BY NextTypeOK
  <2>2. Numbers
    BY TypeNumbers
  <2>3. (TypeOK => Numbers)'
    BY TypeNumbers, PTL
  <2> QED BY <2>1, <2>2, <2>3 DEF Good
<1>2. CASE Loading
  BY <1>1, <1>2, OpenKeeps, LoadStateKeeps, FinishLoadKeeps, LoadsSucceed, ReplayFrameKeeps
     DEF Loading, Kept
<1>3. CASE \E w \in Workload, oid \in Oids : Write(w, oid)
  BY <1>1, <1>3, WriteKeeps DEF Kept
<1>4. CASE Writing
  BY <1>1, <1>4, AppendFrameKeeps, SyncFrameKeeps, AppendFailsKeeps, RenameStateKeeps,
     SyncStateNameKeeps, RenameLogKeeps, SyncLogNameKeeps, CheckpointFailsKeeps
     DEF Writing, Kept
<1>5. CASE Shutdown \/ Kill
  BY <1>1, <1>5, ShutdownKeeps, KillKeeps DEF Kept
<1>6. CASE PowerCut
  BY <1>1, <1>6, PowerCutKeeps
<1>7. CASE UNCHANGED vars
  <2>1. HistoryInv' /\ DiskInv' /\ Recoverable' = Recoverable /\ Recoverable \in Nat
    BY <1>1, <1>7, SameDisk DEF vars, Good, Numbers
  <2>2. ClosedInv' /\ ReplayInv' /\ OpenInv' /\ WriteInv'
    BY <1>7, <2>1 DEF vars, proc, disk, ghost, Inv, ClosedInv, ReplayInv, Passed, OpenInv,
                      WriteInv, LastSeq, Replays
  <2> QED BY <2>1, <2>2 DEF Inv
<1> QED BY <1>2, <1>3, <1>4, <1>5, <1>6, <1>7 DEF Next

(* The invariant holds of every orderly collection, whatever its documents, *)
(* calls, sync policy, checkpoint threshold and bounds.                     *)
THEOREM InvariantHolds ==
  ASSUME Orderly
  PROVE  Spec => []Inv
<1>1. Init => Inv
  BY InitInv
<1>2. TypeOK /\ Inv /\ [Next]_vars => Inv'
  BY StepKeeps
<1> QED BY <1>1, <1>2, TypeCorrect, PTL DEF Spec

(* load_from_log and the write calls: an open collection shows the state    *)
(* after its last logged write, whatever crashes came before.               *)
THEOREM RecoveryIsExact ==
  ASSUME Orderly
  PROVE  Spec => []LiveStateIsCommitted
<1>1. Inv => LiveStateIsCommitted
  BY DEF Inv, OpenInv, LiveStateIsCommitted
<1> QED BY <1>1, InvariantHolds, PTL

(* append_record_locked, sync_log_locked and checkpoint: no crash takes a   *)
(* write that the sync policy promised to keep through it.                  *)
THEOREM PromisesAreKept ==
  ASSUME Orderly
  PROVE  Spec => []NothingPromisedIsLost
<1>1. TypeOK /\ Inv => NothingPromisedIsLost
  <2> SUFFICES ASSUME TypeOK, Inv, pc = "idle" PROVE nextSeq - 1 >= kept
    BY DEF NothingPromisedIsLost
  <2>1. kept <= Recoverable /\ Recoverable = nextSeq - 1
    BY DEF Inv, HistoryInv, OpenInv
  <2> QED BY <2>1 DEF TypeOK
<1> QED BY <1>1, InvariantHolds, TypeCorrect, PTL

(* atomic_replace_file and reset_log: every pair of files a crash may leave *)
(* fits together.                                                           *)
THEOREM FilesFitTogether ==
  ASSUME Orderly
  PROVE  Spec => []LogContinuesSnapshot
<1>1. Inv => LogContinuesSnapshot
  BY DEF Inv, DiskInv
<1> QED BY <1>1, InvariantHolds, PTL

(* load_from_log: no replayed update is refused. *)
THEOREM ReplayIsAccepted ==
  ASSUME Orderly
  PROVE  Spec => []ReplayAccepts
<1>1. TypeOK /\ Inv => ReplayAccepts
  <2> SUFFICES ASSUME TypeOK, Inv, pc = "replay", cur < Len(log.frames),
                      log.frames[cur + 1].seq > cp, NEW oid \in Oids
               PROVE  ~IsRefused(log.frames[cur + 1], Redo(mem, log.frames[cur + 1], oid))
    BY DEF ReplayAccepts
  <2>1. Good
    BY TypeNumbers DEF Good
  <2> QED BY <2>1, NextFrame DEF Replays
<1> QED BY <1>1, InvariantHolds, TypeCorrect, PTL

(* checkpoint and reload_from_durable_state: no step but a power cut takes  *)
(* away a write that a restart would have found.                            *)
THEOREM NothingIsForgotten ==
  ASSUME Orderly
  PROVE  Spec => NoStepForgets
<1>1. TypeOK /\ Inv /\ [Next]_vars => [Recoverable' >= Recoverable \/ PowerCut]_vars
  BY StepKeeps
<1> QED BY <1>1, InvariantHolds, TypeCorrect, PTL DEF Spec, NoStepForgets

-----------------------------------------------------------------------------
(***************************************************************************)
(* The committed states as a prefix of the history.                        *)
(***************************************************************************)
LEMMA HistoryPrefix ==
  ASSUME NEW h, IsHistory(h), NEW r \in Nat, r < Len(h)
  PROVE  /\ SubSeq(h, 1, r + 1) \in Seq({h[n] : n \in DOMAIN h})
         /\ Len(SubSeq(h, 1, r + 1)) = r + 1
         /\ \A n \in 1 .. r + 1 : SubSeq(h, 1, r + 1)[n] = h[n]
<1> DEFINE S == {h[n] : n \in DOMAIN h}
<1>1. h \in Seq(S) /\ Len(h) \in Nat
  BY LenProperties DEF IsHistory
<1>2. r + 1 \in 0 .. Len(h)
  BY <1>1
<1> HIDE DEF S
<1>3. /\ SubSeq(h, 1, r + 1) \in Seq(S) /\ Len(SubSeq(h, 1, r + 1)) = r + 1
      /\ \A n \in 1 .. r + 1 : SubSeq(h, 1, r + 1)[n] = h[n]
  BY <1>1, <1>2, SubSeqProperties
<1> QED BY <1>3 DEF S

(* Two sequences with the same elements in the same places are the same. *)
LEMMA SameElements ==
  ASSUME NEW S, NEW T, NEW s \in Seq(S), NEW t \in Seq(T), Len(s) = Len(t),
         \A n \in 1 .. Len(s) : s[n] = t[n]
  PROVE  s = t
<1>1. s \in Seq(S \cup T) /\ t \in Seq(S \cup T)
  BY SeqMonotonic
<1> QED BY <1>1, SeqEqual

CommittedIsPrefix ==
  /\ Len(Committed) = Recoverable + 1 /\ Recoverable \in Nat
  /\ \A n \in 1 .. Recoverable + 1 : Committed[n] = hist[n]
  /\ Committed \in Seq({hist[n] : n \in DOMAIN hist})

LEMMA CommittedStates == Good => CommittedIsPrefix
BY HistoryPrefix DEF Good, TypeOK, Numbers, Inv, HistoryInv, Committed, CommittedIsPrefix

(* The history agrees on what could be recovered before. *)
HistoryAgrees == \A n \in 1 .. Recoverable + 1 : hist'[n] = hist[n]

LEMMA SameCommitted ==
  ASSUME Good, Good', Recoverable' = Recoverable, HistoryAgrees
  PROVE  Committed' = Committed
<1>1. CommittedIsPrefix
  BY CommittedStates
<1>2. CommittedIsPrefix'
  BY CommittedStates, PTL
<1>3. \A n \in 1 .. Len(Committed') : Committed'[n] = Committed[n]
  BY <1>1, <1>2 DEF HistoryAgrees, CommittedIsPrefix
<1> QED BY <1>1, <1>2, <1>3, SameElements DEF CommittedIsPrefix

-----------------------------------------------------------------------------
(***************************************************************************)
(* The steps of the contract, in terms of the code's variables.            *)
(***************************************************************************)
LEMMA Begins ==
  ASSUME Good, Good', Recoverable' = Recoverable, HistoryAgrees, pc' # "idle",
         UNCHANGED <<kept, sure>>
  PROVE  Contract!Next
<1>1. Committed' = Committed
  BY SameCommitted
<1> QED BY <1>1 DEF Contract!Next, Contract!Begin, Contract!Unanswered, Visible

LEMMA Settles ==
  ASSUME Good, Good', Recoverable' = Recoverable, HistoryAgrees, pc' # "idle",
         kept' = kept, sure' = Recoverable
  PROVE  Contract!Next
<1>1. Committed' = Committed /\ CommittedIsPrefix
  BY SameCommitted, CommittedStates
<1>2. Contract!Writes = Recoverable
  BY <1>1 DEF CommittedIsPrefix, Contract!Writes
<1> QED BY <1>1, <1>2 DEF Contract!Next, Contract!Settle, Contract!Unanswered, Visible

(* What an open collection shows is the last committed state. *)
LEMMA OpenShowsLast ==
  Good /\ pc = "idle" => /\ Recoverable = nextSeq - 1
                         /\ Len(Committed) - 1 = Recoverable
                         /\ {mem} = {Committed[Len(Committed)]}
<1> SUFFICES ASSUME Good, pc = "idle"
             PROVE  /\ Recoverable = nextSeq - 1
                    /\ Len(Committed) - 1 = Recoverable
                    /\ {mem} = {Committed[Len(Committed)]}
  OBVIOUS
<1>1. CommittedIsPrefix
  BY CommittedStates
<1>2. mem = hist[nextSeq] /\ Recoverable = nextSeq - 1 /\ nextSeq \in Nat \ {0}
  BY DEF Good, Numbers, Inv, OpenInv
<1> QED BY <1>1, <1>2 DEF CommittedIsPrefix

LEMMA Answers ==
  ASSUME Good, Good', Recoverable' = Recoverable, HistoryAgrees, pc' = "idle",
         kept' = Recoverable, sure' \in {sure, Recoverable}
  PROVE  Contract!Next
<1>1. Committed' = Committed /\ CommittedIsPrefix
  BY SameCommitted, CommittedStates
<1>2. Contract!Writes = Recoverable
  BY <1>1 DEF CommittedIsPrefix, Contract!Writes
<1>3. Len(Committed') - 1 = Recoverable' /\ {mem'} = {Committed'[Len(Committed')]}
  <2>1. (Good /\ pc = "idle" => /\ Recoverable = nextSeq - 1
                               /\ Len(Committed) - 1 = Recoverable
                               /\ {mem} = {Committed[Len(Committed)]})'
    BY OpenShowsLast, PTL
  <2> QED BY <2>1
<1>4. Contract!Answered
  BY <1>3 DEF Contract!Answered, Visible
<1> QED BY <1>1, <1>2, <1>4 DEF Contract!Next, Contract!Answer

LEMMA Commits ==
  ASSUME Good, Good', Recoverable' = Recoverable + 1, hist' = hist, pc # "idle",
         \/ pc' = "idle" /\ kept' = Recoverable'
         \/ pc' # "idle" /\ kept' = kept,
         sure' \in {sure, Recoverable'}
  PROVE  Contract!Next
<1>1. CommittedIsPrefix /\ CommittedIsPrefix'
  BY CommittedStates, PTL
<1>2. Len(Committed') = Len(Committed) + 1 /\ Len(Committed') - 1 = Recoverable'
  BY <1>1 DEF CommittedIsPrefix
<1>3. SubSeq(Committed', 1, Len(Committed)) = Committed
  <2> DEFINE S == {hist[n] : n \in DOMAIN hist}
  <2>1. /\ Committed \in Seq(S) /\ Committed' \in Seq(S)
        /\ Len(Committed) \in Nat /\ Len(Committed) = Recoverable + 1
    BY <1>1, <1>2 DEF CommittedIsPrefix
  <2>2. \A n \in 1 .. Len(Committed) : Committed'[n] = Committed[n]
    BY <1>1, <1>2 DEF CommittedIsPrefix
  <2> HIDE DEF S
  <2>3. \A n \in 1 .. Len(Committed) : Committed'[n] \in S
    BY <2>1, <2>2, LenProperties
  <2>4. /\ SubSeq(Committed', 1, Len(Committed)) \in Seq(S)
        /\ Len(SubSeq(Committed', 1, Len(Committed))) = Len(Committed)
        /\ \A n \in 1 .. Len(Committed) :
             SubSeq(Committed', 1, Len(Committed))[n] = Committed'[1 + n - 1]
    <3>1. Len(Committed) >= 1 /\ Len(Committed) - 1 + 1 = Len(Committed)
      BY <1>1, <2>1 DEF CommittedIsPrefix
    <3> QED BY <2>1, <2>3, <3>1, SubSeqProperties
  <2>5. \A n \in 1 .. Len(Committed) : SubSeq(Committed', 1, Len(Committed))[n] = Committed[n]
    BY <2>1, <2>2, <2>4
  <2> QED BY <2>1, <2>4, <2>5, SameElements
<1>4. Contract!Answered \/ Contract!Unanswered
  <2>1. CASE pc' = "idle" /\ kept' = Recoverable'
    <3>1. (Good /\ pc = "idle" => /\ Recoverable = nextSeq - 1
                                 /\ Len(Committed) - 1 = Recoverable
                                 /\ {mem} = {Committed[Len(Committed)]})'
      BY OpenShowsLast, PTL
    <3> QED BY <1>2, <2>1, <3>1 DEF Contract!Answered, Visible
  <2>2. CASE pc' # "idle" /\ kept' = kept
    BY <2>2 DEF Contract!Unanswered, Visible
  <2> QED BY <2>1, <2>2
<1> QED BY <1>2, <1>3, <1>4 DEF Contract!Next, Contract!Commit, Visible

LEMMA Loses ==
  ASSUME Good, Good', Recoverable' <= Recoverable, sure <= Recoverable',
         hist' = hist, pc' # "idle", kept' = sure, sure' = sure
  PROVE  Contract!Next
<1>1. CommittedIsPrefix /\ CommittedIsPrefix'
  BY CommittedStates, PTL
<1>0. sure \in Nat
  BY DEF Good, Numbers
<1>2. PICK r \in Nat, q \in Nat : r = Recoverable /\ q = Recoverable'
  BY <1>1, Zenon DEF CommittedIsPrefix
<1>3. q <= r /\ sure <= q
  BY <1>2, Zenon
<1>4. /\ Len(Committed) = r + 1 /\ \A n \in 1 .. r + 1 : Committed[n] = hist[n]
      /\ Len(Committed') = q + 1 /\ \A n \in 1 .. q + 1 : Committed'[n] = hist[n]
  BY <1>1, <1>2, Zenon DEF CommittedIsPrefix
<1>5. Len(Committed') \in sure + 1 .. Len(Committed)
  BY <1>0, <1>3, <1>4
<1>6. Committed' = SubSeq(Committed, 1, Len(Committed'))
  <2> DEFINE S == {hist[n] : n \in DOMAIN hist}
  <2>1. /\ Committed \in Seq(S) /\ Committed' \in Seq(S)
        /\ Len(Committed') \in Nat \ {0} /\ Len(Committed') <= Len(Committed)
        /\ Len(Committed) \in Nat
    <3>1. Committed \in Seq(S) /\ Committed' \in Seq(S)
      BY <1>1 DEF CommittedIsPrefix
    <3> HIDE DEF S
    <3> QED BY <1>3, <1>4, <3>1
  <2>2. \A n \in 1 .. Len(Committed') : Committed'[n] = Committed[n]
    BY <1>3, <1>4
  <2> HIDE DEF S
  <2>3. \A n \in 1 .. Len(Committed') : Committed[n] \in S
    BY <2>1, <2>2, LenProperties
  <2>4. /\ SubSeq(Committed, 1, Len(Committed')) \in Seq(S)
        /\ Len(SubSeq(Committed, 1, Len(Committed'))) = Len(Committed')
        /\ \A n \in 1 .. Len(Committed') :
             SubSeq(Committed, 1, Len(Committed'))[n] = Committed[1 + n - 1]
    <3>1. Len(Committed') >= 1 /\ Len(Committed') - 1 + 1 = Len(Committed')
      BY <2>1
    <3> QED BY <2>1, <2>3, <3>1, SubSeqProperties
  <2>5. \A n \in 1 .. Len(Committed') : SubSeq(Committed, 1, Len(Committed'))[n] = Committed'[n]
    BY <2>1, <2>2, <2>4
  <2> QED BY <2>1, <2>4, <2>5, SameElements
<1> QED BY <1>5, <1>6 DEF Contract!Next, Contract!Lose, Visible

-----------------------------------------------------------------------------
(***************************************************************************)
(* The steps of the code.                                                  *)
(***************************************************************************)
LEMMA SameHistory == hist' = hist => HistoryAgrees
BY DEF HistoryAgrees

(* Opening is no step of the contract until the collection is open. *)
LEMMA LoadingImplements ==
  ASSUME Orderly, Good, Good', Loading
  PROVE  Contract!Next
<1>1. CASE Open
  <2>1. Recoverable' = Recoverable
    BY <1>1, SameDisk DEF Open, Good
  <2> QED BY <1>1, <2>1, Begins, SameHistory DEF Open, ghost
<1>2. CASE LoadState
  <2>1. Recoverable' = Recoverable
    <3>1. CASE log.made
      BY <1>2, <3>1, SameDisk DEF LoadState, disk, ghost, Good
    <3>2. CASE ~log.made
      BY <1>2, <3>2, FirstLog DEF LoadState, ghost, Orderly, Good
    <3> QED BY <3>1, <3>2
  <2> QED BY <1>2, <2>1, Begins, SameHistory DEF LoadState, ghost
<1>3. CASE \E oid \in Oids : ReplayFrame(oid)
  <2>1. UNCHANGED <<pc, disk, ghost>> /\ pc = "replay"
    BY <1>3 DEF ReplayFrame
  <2>2. Recoverable' = Recoverable
    BY <2>1, SameDisk DEF Good
  <2> QED BY <2>1, <2>2, Begins, SameHistory DEF ghost
<1>4. CASE FinishLoad
  <2>0. Good /\ Good'
    OBVIOUS
  <2>1. /\ log.made /\ cur = Len(log.frames) /\ nextSeq \in Nat \ {0}
        /\ nextSeq - 1 = IF Passed > state.cp THEN Passed ELSE state.cp
        /\ LogNumbers(log) /\ IsHistory(hist) /\ kept <= Recoverable /\ Recoverable \in Nat
        /\ Recoverable < Len(hist) /\ kept \in Nat
    BY <1>4 DEF FinishLoad, Good, TypeOK, Numbers, Inv, HistoryInv, ReplayInv
  <2>2. Recoverable = nextSeq - 1
    BY <2>1 DEF Recoverable, LastSeq, Passed, LogNumbers
  <2>3. pc' = "idle" /\ nextSeq' = nextSeq /\ sure' = sure /\ hist' = Prefix(hist, nextSeq)
        /\ kept' = IF nextSeq - 1 > kept THEN nextSeq - 1 ELSE kept
    BY <1>4 DEF FinishLoad
  <2>4. Recoverable' = nextSeq' - 1
    BY <2>0, <2>3 DEF Good, Inv, OpenInv
  <2>5. HistoryAgrees
    <3>1. hist \in Seq({hist[n] : n \in DOMAIN hist}) /\ nextSeq \in Nat /\ Len(hist) \in Nat
      BY <2>1, LenProperties DEF IsHistory
    <3>2. /\ Len(hist') = nextSeq
          /\ \A i \in 1 .. Len(hist') : hist'[i] = hist[i]
      BY <2>1, <2>2, <2>3, <3>1, PrefixProperties
    <3> QED BY <2>1, <2>2, <3>2 DEF HistoryAgrees
  <2>6. kept' = Recoverable
    BY <2>1, <2>2, <2>3
  <2> QED BY <2>2, <2>3, <2>4, <2>5, <2>6, Answers
<1>5. CASE LoadFails \/ ReplayMalformed \/ \E oid \in Oids : ReplayRefused(oid)
  BY <1>5, LoadsSucceed
<1> QED BY <1>1, <1>2, <1>3, <1>4, <1>5 DEF Loading

(* A call that logs nothing is invisible, one that does begins. *)
LEMMA WriteImplements ==
  ASSUME Good, Good', NEW w \in Workload, NEW oid \in Oids, Write(w, oid)
  PROVE  Contract!Next \/ UNCHANGED Contract!vars
<1>1. /\ pc = "idle" /\ Len(hist) = nextSeq /\ mem = hist[nextSeq] /\ Recoverable = nextSeq - 1
      /\ nextSeq \in Nat \ {0} /\ IsHistory(hist)
  BY DEF Write, Good, TypeOK, Inv, OpenInv
<1>2. UNCHANGED <<disk, kept, sure>>
  BY DEF Write
<1>3. CASE UNCHANGED <<pc, nextSeq, hist>>
  <2>1. mem' = hist'[nextSeq']
    BY <1>1, <1>3 DEF Good, Inv, OpenInv
  <2>2. Recoverable' = Recoverable
    BY <1>2, <1>3, SameDisk DEF ghost, Good
  <2>3. Committed' = Committed /\ Visible' = Visible
    BY <1>1, <1>3, <2>1, <2>2, SameCommitted, SameHistory DEF Visible
  <2> QED BY <1>2, <2>3 DEF Contract!vars
<1>4. CASE /\ pc' = "append" /\ nextSeq' = nextSeq + 1
           /\ hist' = Append(Prefix(hist, nextSeq), Exec(mem, w, oid).mem)
  <2>1. Recoverable' = nextSeq' - 2
    BY <1>4 DEF Good, Inv, OpenInv
  <2>2. HistoryAgrees
    <3> DEFINE m == Exec(mem, w, oid).mem
               S == {hist[n] : n \in DOMAIN hist} \cup {m}
    <3>1. hist \in Seq(S) /\ m \in S
      BY <1>1, SeqMonotonic DEF IsHistory
    <3>2. hist' = Append(Prefix(hist, nextSeq), m)
      BY <1>4
    <3> HIDE DEF m, S
    <3>3. /\ Prefix(hist, nextSeq) \in Seq(S) /\ Len(Prefix(hist, nextSeq)) = nextSeq
          /\ \A i \in 1 .. nextSeq : Prefix(hist, nextSeq)[i] = hist[i]
      BY <1>1, <3>1, PrefixProperties
    <3>4. \A i \in 1 .. nextSeq : hist'[i] = hist[i]
      BY <1>1, <3>1, <3>2, <3>3, AppendProperties
    <3> QED BY <1>1, <3>4 DEF HistoryAgrees
  <2> QED BY <1>1, <1>2, <1>4, <2>1, <2>2, Begins
<1> QED BY <1>3, <1>4 DEF Write

(* A frame in the log commits the write. *)
LEMMA AppendImplements ==
  ASSUME Orderly, Good, Good', AppendFrame \/ SyncFrame \/ AppendFails
  PROVE  Contract!Next
<1>0. /\ pc # "idle" /\ nextSeq \in Nat /\ Numbers'
      /\ Recoverable = IF pc = "append" THEN nextSeq - 2 ELSE nextSeq - 1
  BY DEF AppendFrame, SyncFrame, AppendFails, Good, Numbers, Inv, OpenInv
<1>1. CASE AppendFrame
  <2>1. /\ pc = "append" /\ nextSeq' = nextSeq /\ hist' = hist /\ sure' = sure
        /\ \/ pc' = "idle" /\ kept' = nextSeq - 1
           \/ pc' \in {"sync", "snapshot"} /\ kept' = kept
    BY <1>1 DEF AppendFrame, Appended, Return, Promise, ghost
  <2>2. Recoverable' = nextSeq - 1
    BY <2>1 DEF Good, Inv, OpenInv
  <2> QED BY <1>0, <2>1, <2>2, Commits
<1>2. CASE SyncFrame
  <2>1. /\ pc = "sync" /\ nextSeq' = nextSeq /\ hist' = hist
        /\ \/ pc' = "idle" /\ kept' = nextSeq - 1 /\ sure' \in {sure, nextSeq - 1}
           \/ pc' = "snapshot" /\ kept' = kept /\ sure' = sure
    BY <1>2 DEF SyncFrame, Appended, Return, Promise
  <2>2. Recoverable' = nextSeq - 1 /\ Recoverable = nextSeq - 1
    BY <1>0, <2>1 DEF Good, Inv, OpenInv
  <2> QED BY <2>1, <2>2, Answers, Begins, SameHistory
<1>3. CASE AppendFails
  <2>1. /\ UNCHANGED <<oldLogs, state, oldStates, ghost>> /\ pc' = "load"
        /\ UNCHANGED <<hist, kept, sure>>
    BY <1>3 DEF AppendFails, Reload, ghost
  <2>2. CASE log' = log
    BY <2>1, <2>2, SameDisk, Begins, SameHistory DEF disk, Good
  <2>3. CASE pc = "append" /\ log' = WithFrame(log)
    <3>1. Recoverable' = nextSeq - 1
      BY <1>0, <2>1, <2>3, FrameInLog
    <3> QED BY <1>0, <2>1, <2>3, <3>1, Commits
  <2>4. CASE log' = [log EXCEPT !.tail = "torn"]
    BY <2>1, <2>4, NewTail, Begins, SameHistory
  <2>5. log.tail = "clean"
    BY <1>3 DEF AppendFails, Good, Inv, OpenInv
  <2>6. [log EXCEPT !.tail = IF @ = "clean" THEN "torn" ELSE "buried"] = [log EXCEPT !.tail = "torn"]
    BY <2>5
  <2> QED BY <1>3, <2>2, <2>3, <2>4, <2>6 DEF AppendFails
<1> QED BY <1>1, <1>2, <1>3

(* A checkpoint changes nothing that is committed, and its directory fsync  *)
(* makes all of it safe.                                                    *)
LEMMA CheckpointImplements ==
  ASSUME Orderly, Good, Good',
         RenameState \/ SyncStateName \/ RenameLog \/ SyncLogName \/ CheckpointFails
  PROVE  Contract!Next
<1>1. /\ pc \notin {"closed", "load", "replay", "append"}
      /\ pc' \notin {"closed", "load", "replay", "append"}
      /\ nextSeq' = nextSeq /\ hist' = hist
  BY DEF RenameState, SyncStateName, RenameLog, SyncLogName, CheckpointFails, Return, ghost
<1>2. Recoverable' = nextSeq - 1 /\ Recoverable = nextSeq - 1
  BY <1>1 DEF Good, Inv, OpenInv
<1>3. CASE RenameState \/ RenameLog
  <2>1. pc' # "idle" /\ UNCHANGED <<kept, sure>>
    BY <1>3 DEF RenameState, RenameLog, ghost
  <2> QED BY <1>1, <1>2, <2>1, Begins, SameHistory
<1>4. CASE SyncStateName
  <2>1. pc' # "idle" /\ kept' = kept /\ sure' = nextSeq - 1
    BY <1>4 DEF SyncStateName
  <2> QED BY <1>1, <1>2, <2>1, Settles, SameHistory
<1>5. CASE SyncLogName \/ CheckpointFails
  <2>1. pc' = "idle" /\ kept' = nextSeq - 1 /\ sure' \in {sure, nextSeq - 1}
    BY <1>5 DEF SyncLogName, CheckpointFails, Return, Promise
  <2> QED BY <1>1, <1>2, <2>1, Answers, SameHistory
<1> QED BY <1>3, <1>4, <1>5

(* The end of a process takes nothing back, that of the machine no more     *)
(* than what was not sure.                                                  *)
LEMMA EndImplements ==
  ASSUME Orderly, Good, Good', Shutdown \/ Kill \/ PowerCut
  PROVE  Contract!Next
<1>1. CASE Shutdown
  <2>1. /\ pc' = "closed" /\ UNCHANGED <<state, oldStates, hist, kept>>
        /\ Recoverable = nextSeq - 1
    BY <1>1 DEF Shutdown, Good, Inv, OpenInv
  <2>2. CASE /\ log' = [log EXCEPT !.synced = Len(log.frames)]
             /\ oldLogs' = {} /\ sure' = nextSeq - 1
    <3>1. Recoverable' = Recoverable
      BY <2>1, <2>2, LogSynced
    <3> QED BY <2>1, <2>2, <3>1, Settles, SameHistory
  <2>3. CASE UNCHANGED <<log, oldLogs, sure>>
    <3>1. Recoverable' = Recoverable
      BY <2>1, <2>3, SameDisk DEF disk, ghost, Good
    <3> QED BY <2>1, <2>3, <3>1, Begins, SameHistory
  <2> QED BY <1>1, <2>2, <2>3 DEF Shutdown, Orderly
<1>2. CASE Kill
  <2>1. /\ pc' = "closed" /\ UNCHANGED <<oldLogs, state, oldStates, ghost>>
        /\ UNCHANGED <<hist, kept, sure>>
        /\ log' = log \/ log' = [log EXCEPT !.tail = "torn"]
    BY <1>2 DEF Kill, ghost
  <2>2. Recoverable' = Recoverable
    BY <2>1, SameDisk, NewTail DEF disk, Good
  <2> QED BY <2>1, <2>2, Begins, SameHistory
<1>3. CASE PowerCut
  <2>1. pc' = "closed" /\ UNCHANGED <<hist, sure>> /\ kept' = sure
    BY <1>3 DEF PowerCut
  <2>2. Recoverable' <= Recoverable
    BY <1>3, PowerCutKeeps DEF Good
  <2>3. sure <= Recoverable'
    <3>1. (sure <= Recoverable)'
      BY SureIsRecoverable, PTL
    <3> QED BY <2>1, <3>1
  <2> QED BY <2>1, <2>2, <2>3, Loses
<1> QED BY <1>1, <1>2, <1>3

LEMMA InitImplements == Init => Contract!Init
<1> SUFFICES ASSUME Init PROVE Contract!Init
  OBVIOUS
<1>1. Recoverable = 0
  BY DEF Init, NoLog, NoState, Recoverable, LastSeq
<1>2. SubSeq(<<Fresh>>, 1, 1) = <<Fresh>>
  <2>1. <<Fresh>> \in Seq({Fresh}) /\ Len(<<Fresh>>) = 1 /\ <<Fresh>>[1] = Fresh
    OBVIOUS
  <2>2. \A i \in 1 .. 1 : <<Fresh>>[i] \in {Fresh}
    BY <2>1
  <2>3. /\ SubSeq(<<Fresh>>, 1, 1) \in Seq({Fresh}) /\ Len(SubSeq(<<Fresh>>, 1, 1)) = 1
        /\ SubSeq(<<Fresh>>, 1, 1)[1] = <<Fresh>>[1]
    BY <2>2, SubSeqProperties
  <2>4. \A n \in 1 .. 1 : SubSeq(<<Fresh>>, 1, 1)[n] = <<Fresh>>[n]
    BY <2>3
  <2> QED BY ONLY <2>1, <2>3, <2>4, SameElements
<1>3. Committed = <<Fresh>>
  BY <1>1, <1>2 DEF Init, Committed
<1> QED BY <1>3 DEF Init, Contract!Init, Visible

(* Canopy keeps the contract of a durable collection: for orderly calls and *)
(* disks, whatever the documents, the sync policy, the checkpoint threshold *)
(* and the crashes.                                                         *)
THEOREM CanopyKeepsContract ==
  ASSUME Orderly
  PROVE  Spec => KeepsContract
<1>1. Init => Contract!Init
  BY InitImplements
<1>2. TypeOK /\ Inv /\ TypeOK' /\ Inv' /\ [Next]_vars => [Contract!Next]_(Contract!vars)
  <2> SUFFICES ASSUME TypeOK, Inv, TypeOK', Inv', [Next]_vars
               PROVE  Contract!Next \/ UNCHANGED Contract!vars
    OBVIOUS
  <2>1. Good
    BY TypeNumbers DEF Good
  <2>2. Good'
    <3>1. (TypeOK => Numbers)'
      BY TypeNumbers, PTL
    <3> QED BY <3>1 DEF Good
  <2>3. CASE UNCHANGED vars
    BY <2>3 DEF vars, proc, disk, ghost, Contract!vars, Committed, Visible, Recoverable, LastSeq
  <2> QED BY <2>1, <2>2, <2>3, LoadingImplements, WriteImplements, AppendImplements,
             CheckpointImplements, EndImplements DEF Next, Writing
<1> QED BY <1>1, <1>2, InvariantHolds, TypeCorrect, PTL DEF Spec, KeepsContract, Contract!Spec
=============================================================================
