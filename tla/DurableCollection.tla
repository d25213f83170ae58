-------------------------- MODULE DurableCollection --------------------------
(***************************************************************************)
(* What Canopy promises of one durable collection, without memory, log or  *)
(* snapshot: a sequence of committed states that only grows, the last of   *)
(* which is what an open collection shows, until a power cut takes back    *)
(* some of those that were not yet safe.                                   *)
(***************************************************************************)
EXTENDS Integers, Sequences

CONSTANT Initial    \* the state of a collection nobody has written to

VARIABLES
  committed,  \* committed[n + 1]: the state after write n
  visible,    \* what a reader finds: one state, or {} while a call is in
              \*   progress or the collection is closed
  kept,       \* the last write a killed process may not lose
  sure        \* the last write a power cut may not lose

vars == <<committed, visible, kept, sure>>

Last == committed[Len(committed)]
Writes == Len(committed) - 1

Init ==
  /\ committed = <<Initial>>
  /\ visible = {}
  /\ kept = 0 /\ sure = 0

(* A call is answered with the last committed state on view. *)
Answered == visible' = {committed'[Len(committed')]} /\ kept' = Len(committed') - 1

Unanswered == visible' = {} /\ UNCHANGED kept

(* A call starts, fails before it committed, or the process ends. *)
Begin == UNCHANGED <<committed, sure>> /\ Unanswered

(* A write is committed, and may be answered and safe at the same time. *)
Commit ==
  /\ visible = {}
  /\ Len(committed') = Len(committed) + 1
  /\ SubSeq(committed', 1, Len(committed)) = committed
  /\ Answered \/ Unanswered
  /\ sure' \in {sure, Len(committed') - 1}

(* Everything committed so far is on the device. *)
Settle == UNCHANGED committed /\ Unanswered /\ sure' = Writes

(* The collection opens, or a call returns. *)
Answer == UNCHANGED committed /\ Answered /\ sure' \in {sure, Writes}

(* The power goes, and with it writes that were not sure. *)
Lose ==
  /\ visible' = {}
  /\ Len(committed') \in sure + 1 .. Len(committed)
  /\ committed' = SubSeq(committed, 1, Len(committed'))
  /\ kept' = sure /\ UNCHANGED sure

Next == Begin \/ Commit \/ Settle \/ Answer \/ Lose

Spec == Init /\ [][Next]_vars
=============================================================================
