---------------------------- MODULE IndexPlanner ----------------------------
(***************************************************************************)
(* How find() chooses an index and what it reads from it: the lookups of   *)
(* core/src/index/manager.cpp and the plans of core/src/query/planner.cpp. *)
(*                                                                         *)
(* The indexes are a function from names to entries                        *)
(* [paths, unique, ordered, keys]; keys is the ordered map, as a set of    *)
(* pairs <<key, record id>>.  The code walks an unordered_map and takes    *)
(* the first index that fits; the operators here return the set of all     *)
(* that fit, and each is a possible outcome.                               *)
(***************************************************************************)
EXTENDS Documents

NoEntry == [paths |-> <<>>, unique |-> FALSE, ordered |-> TRUE, keys |-> {}]

Existing(ix) == {n \in DOMAIN ix : ix[n] # NoEntry}

(* find_by_path and find_by_paths *)
ByPaths(ix, paths) == {n \in Existing(ix) : ix[n].paths = paths}

-----------------------------------------------------------------------------
(* Lookups in one index.                                                    *)

(* The record ids of a set of pairs, by key and then by record id. *)
KeyOrder(pairs, descending) ==
  {o \in pairs \X pairs :
     LET x == o[1]
         y == o[2]
     IN  \/ IF descending THEN x[1][1] > y[1][1] ELSE x[1][1] < y[1][1]
         \/ x[1][1] = y[1][1] /\ x[2] < y[2]}

InKeyOrder(pairs, descending) ==
  LET sorted == Arranged(pairs, KeyOrder(pairs, descending))
  IN  [i \in DOMAIN sorted |-> sorted[i][2]]

(* lookup_exact and lookup_exact_compound *)
LookupExact(entry, key) == InKeyOrder({x \in entry.keys : x[1] = key}, FALSE)

(* lookup_range: an open side reaches to the end of the map, nulls and all. *)
LookupRange(entry, low, high, descending) ==
  InKeyOrder({x \in entry.keys : /\ low # NoBound => AboveLow(x[1][1], low)
                                 /\ high # NoBound => BelowHigh(x[1][1], high)},
             descending)

-----------------------------------------------------------------------------
(* Plans.  A plan reads one index: the index over plan.paths, either at the *)
(* key plan.exact or between two bounds.                                    *)

NoKey == <<>>
NoPlan == [paths |-> <<>>, exact |-> NoKey, low |-> NoBound, high |-> NoBound]

(* A literal value, a regular expression included; the others are operators. *)
IsEquality(clause) == clause.op \in {"eq", "regex"}

(* parse_range_operator_doc: an empty range is no plan, nor is one with a   *)
(* null bound beside another bound.                                         *)
IsRangePlan(clause) ==
  /\ clause.op = "range"
  /\ clause.low # NoBound /\ clause.high # NoBound =>
       /\ Nullish \notin {clause.low.key, clause.high.key}
       /\ Comparable(clause.low.key, clause.high.key) =>
            /\ AboveLow(clause.high.key, clause.low)
            /\ BelowHigh(clause.low.key, clause.high)

(* match_compound_index: how many leading paths of an index the filter fixes. *)
PrefixLength(entry, fixed) ==
  Cardinality({k \in DOMAIN entry.paths : \A i \in 1 .. k : entry.paths[i] \in fixed})

(* The longest prefix wins, and of two equal ones the shorter index. *)
BestCompound(ix, fixed) ==
  {n \in Existing(ix) :
     \A m \in Existing(ix) :
       \/ PrefixLength(ix[n], fixed) > PrefixLength(ix[m], fixed)
       \/ /\ PrefixLength(ix[n], fixed) = PrefixLength(ix[m], fixed)
          /\ Len(ix[n].paths) <= Len(ix[m].paths)}

(* The plans for a filter made of equalities only: the matched prefix of the *)
(* index names the index to read, so it has to be an index of its own.       *)
CompoundPlans(ix, filter) ==
  LET fixed == DOMAIN filter
      prefix(n) == SubSeq(ix[n].paths, 1, PrefixLength(ix[n], fixed))
      key(n) == [i \in DOMAIN prefix(n) |-> filter[prefix(n)[i]].key]
  IN  {[NoPlan EXCEPT !.paths = prefix(n), !.exact = key(n)] :
         n \in {n \in BestCompound(ix, fixed) :
                  /\ \A p \in fixed : IsEquality(filter[p])
                  /\ PrefixLength(ix[n], fixed) >= 2}}

SingleClause(p, clause) ==
  IF IsEquality(clause) THEN [NoPlan EXCEPT !.paths = <<p>>, !.exact = <<clause.key>>]
  ELSE [NoPlan EXCEPT !.paths = <<p>>, !.low = clause.low, !.high = clause.high]

(* The single-field plan, if exactly one clause is indexable. *)
SinglePlan(ix, filter) ==
  LET indexable == {p \in DOMAIN filter : /\ ByPaths(ix, <<p>>) # {}
                                          /\ IsEquality(filter[p]) \/ IsRangePlan(filter[p])}
  IN  IF Cardinality(indexable) # 1 THEN NoPlan
      ELSE LET p == CHOOSE p \in indexable : TRUE IN SingleClause(p, filter[p])

(* plan_index_lookup *)
LookupPlans(ix, filter) ==
  IF CompoundPlans(ix, filter) # {} THEN CompoundPlans(ix, filter) ELSE {SinglePlan(ix, filter)}

(* snapshot_from_lookup_plan, through the index n *)
ReadPlan(entry, plan, descending) ==
  IF plan.exact # NoKey THEN LookupExact(entry, plan.exact)
  ELSE LookupRange(entry, plan.low, plan.high, descending)

(* Every list a plan may give: an empty one if there is no such index. *)
PlanResults(ix, plan) ==
  IF ByPaths(ix, plan.paths) = {} THEN {<<>>}
  ELSE {ReadPlan(ix[n], plan, FALSE) : n \in ByPaths(ix, plan.paths)}

(* plan_index_sort: the index a sort on one path reads, if any. *)
SortIndexes(ix, sort) == IF Len(sort) = 1 THEN ByPaths(ix, <<sort[1].path>>) ELSE {}

(* find() through the sorted index: narrowed by the filter's own plan only *)
(* if that plan is on the same path.                                       *)
SortedResults(entry, plan, sort) ==
  ReadPlan(entry, IF plan.paths = <<sort[1].path>> THEN plan ELSE NoPlan, ~sort[1].ascending)
=============================================================================
