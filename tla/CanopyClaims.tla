---------------------------- MODULE CanopyClaims ----------------------------
(***************************************************************************)
(* What the repository says of Canopy and the code does not do: workloads  *)
(* under which TLC finds each sentence false.                              *)
(***************************************************************************)
EXTENDS MCCanopy

(* An upsert whose filter and spec have no _id. *)
SeededWorkload == {UpdateOf("isOne", "inc", FALSE, TRUE)}

(* A batch that a unique index stops, and an index declared unique. *)
UniqueWorkload == {IndexOf(TRUE), InsertOf(<<Doc("a", 0), Doc("b", 0)>>)}
UniqueIndexWorkload == {IndexOf(TRUE)}

(* storage-engine-spec.md 14.1: "insert documents, restart, and observe the *)
(* same documents", "update documents, restart, and observe the updated     *)
(* documents".                                                              *)
RestartObservesDocuments ==
  pc = "idle" /\ Len(hist) = nextSeq => mem.docs = hist[nextSeq].docs

(* storage-engine-spec.md 14.1: "create indexes, restart, and observe them  *)
(* still present and usable".                                               *)
RestartObservesIndexes ==
  pc = "idle" /\ Len(hist) = nextSeq => mem.idx = hist[nextSeq].idx

(* storage-engine-spec.md 6.2: after an unclean shutdown the engine must    *)
(* "reopen without manual repair for expected crash cases".                 *)
ReopensWithoutRepair == ReplayAccepts
=============================================================================
