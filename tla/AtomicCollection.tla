-------------------------- MODULE AtomicCollection --------------------------
(***************************************************************************)
(* What a caller may believe of an in-memory collection: each write call   *)
(* takes effect in one step, with an outcome allowed for the value it      *)
(* found, and between the calls nothing changes.                           *)
(***************************************************************************)

CONSTANTS
  Calls,          \* the write calls
  Initial,        \* the value of a new collection
  Outcomes(_, _)  \* Outcomes(value, w): what call w may do to value, [mem, err]

VARIABLES
  value,   \* the collection's value
  answer   \* the answer that is on its way to the caller

vars == <<value, answer>>

NoAnswer == [err |-> "none"]

Init ==
  /\ value = Initial
  /\ answer = NoAnswer

(* Call w takes effect. *)
Take(w) ==
  /\ answer = NoAnswer
  /\ \E o \in Outcomes(value, w) :
       value' = o.mem /\ answer' = [req |-> w, err |-> o.err]

(* The caller has its answer. *)
Deliver ==
  /\ answer # NoAnswer
  /\ answer' = NoAnswer
  /\ UNCHANGED value

Next == (\E w \in Calls : Take(w)) \/ Deliver

Spec == Init /\ [][Next]_vars
=============================================================================
