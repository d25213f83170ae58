----------------------------- MODULE MCInvariant -----------------------------
(***************************************************************************)
(* MCCanopy with the inductive invariant, on a workload that meets the     *)
(* conditions of the proofs.                                               *)
(***************************************************************************)
EXTENDS MCCanopy, CanopyInvariant

ASSUME OrderlyWorkload == Orderly
=============================================================================
