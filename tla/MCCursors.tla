------------------------------ MODULE MCCursors ------------------------------
(***************************************************************************)
(* Two readers for CursorService: one over HTTP, one in the engine's own   *)
(* process, in the same namespace or not, with batches of several sizes.   *)
(***************************************************************************)
EXTENDS CursorService

CONSTANTS remote, local

Setup(ns, m, n) ==
  [r \in {remote, local} |-> IF r = remote THEN [ns |-> "zoo", batch |-> m]
                             ELSE [ns |-> ns, batch |-> n]]

MCSetups == {Setup("zoo", 1, 1), Setup("zoo", 2, 0), Setup("farm", 1, 1)}
=============================================================================
