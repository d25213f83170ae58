-------------------------------- MODULE Lists --------------------------------
(***************************************************************************)
(* Lists made of sets and of other lists, as the loops of the code make    *)
(* them: the elements of a set in an order, and those elements of a list   *)
(* that pass a test.  Each element is at the place that the number of      *)
(* those before it says, a definition that can be reasoned about.          *)
(***************************************************************************)
EXTENDS Integers, Sequences, FiniteSets

IsList(s) == s \in Seq({s[i] : i \in DOMAIN s})

(* The elements of a finite set in a total order, given as a set of pairs. *)
Place(x, set, order) == 1 + Cardinality({y \in set : <<y, x>> \in order})

Arranged(set, order) == [i \in 1 .. Cardinality(set) |-> CHOOSE x \in set : Place(x, set, order) = i]

(* The elements of a finite set, each once, in some order. *)
Listed(set) ==
  CHOOSE list \in [1 .. Cardinality(set) -> set] :
    \A i, j \in DOMAIN list : list[i] = list[j] => i = j

(* The elements of a list at a set of positions, and those that pass a test. *)
Ascending(set) == Arranged(set, {o \in set \X set : o[1] < o[2]})

Picked(s, positions) == [k \in DOMAIN Ascending(positions) |-> s[Ascending(positions)[k]]]

Selected(s, Test(_)) == Picked(s, {i \in DOMAIN s : Test(s[i])})
=============================================================================
