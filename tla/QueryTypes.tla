----------------------------- MODULE QueryTypes -----------------------------
(***************************************************************************)
(* The types of QueryEngine: values of values, to any depth.                *)
(***************************************************************************)
EXTENDS QueryEngine

RECURSIVE IsValue(_)

IsFields(fields) == \A i \in DOMAIN fields : IsValue(fields[i][2])
IsValue(v) ==
  CASE v[1] = "int64" -> v[2] \in -IntBound .. IntBound - 1
    [] v[1] = "double" -> v[2] \in Doubles
    [] IsArray(v) -> \A i \in DOMAIN v[2] : IsValue(v[2][i])
    [] IsDocument(v) -> IsFields(v[2])
    [] OTHER -> v # Missing

(* A document holds values only, in the collection and in a stream: what an *)
(* expression leaves missing is in no document, and every int64 and double    *)
(* is one.                                                                    *)
TypeOK ==
  /\ writes \in 0 .. MaxWrites
  /\ phase \in {"idle", "running", "thrown"}
  /\ ran \in 0 .. MaxStages
  /\ IsStored(mem)
  /\ \A i \in DOMAIN mem.docs : IsFields(mem.docs[i].doc)
  /\ IsStream(docs)
  /\ \A i \in DOMAIN docs : IsFields(docs[i])
=============================================================================
