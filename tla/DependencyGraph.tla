--------------------------- MODULE DependencyGraph ---------------------------
(***************************************************************************)
(* The dependency bookkeeping of service/src/pipeline.rs, shared by the    *)
(* validation of a RunPipeline request (ensure_acyclic) and by the         *)
(* scheduler (SchedulerState).                                             *)
(*                                                                         *)
(* A pipeline is its dep_map: a function from step ids to the list of step *)
(* ids the step names in `depends_on`.  The list is kept as a sequence and *)
(* not as a set because the code keeps it as a Vec: an id listed twice is  *)
(* counted twice, in remaining_deps and in rev_dep.                        *)
(***************************************************************************)
EXTENDS Integers, Sequences, FiniteSets

(* The ids named in the `depends_on` of step s, without repetition. *)
DepsOf(dep_map, s) == {dep_map[s][i] : i \in DOMAIN dep_map[s]}

(* The positions of `depends_on` of s that are not in the set `resolved`:  *)
(* what remaining_deps[s] is meant to count.                               *)
Pending(dep_map, resolved, s) ==
    {i \in DOMAIN dep_map[s] : dep_map[s][i] \notin resolved}

(* How often the code's rev_dep[d] lists s: once per occurrence. *)
Occurrences(dep_map, d, s) == {i \in DOMAIN dep_map[s] : dep_map[s][i] = d}

(* A slip to be caught: counting distinct ids where rev_dep has every entry. *)
InitialCountsDistinct(dep_map) ==
    [s \in DOMAIN dep_map |-> Cardinality(DepsOf(dep_map, s))]

InitialCounts(dep_map) == [s \in DOMAIN dep_map |-> Len(dep_map[s])]

(* initial_ready: the steps whose counter starts at zero. *)
InitialReady(dep_map) ==
    {s \in DOMAIN dep_map : InitialCounts(dep_map)[s] = 0}

(* A slip to be caught: one decrement per dependent, not per entry. *)
DecrementedOnce(dep_map, remaining, exempt, d) ==
    [s \in DOMAIN dep_map |->
        IF s \in exempt \/ Occurrences(dep_map, d, s) = {} THEN remaining[s]
        ELSE remaining[s] - 1]

(* The loop over rev_dep[d]: every entry takes one off the counter of the  *)
(* dependent.  `exempt` are the dependents the loop passes over.           *)
Decremented(dep_map, remaining, exempt, d) ==
    [s \in DOMAIN dep_map |->
        IF s \in exempt THEN remaining[s]
        ELSE remaining[s] - Cardinality(Occurrences(dep_map, d, s))]

(* The dependents whose counter that loop brings to zero. *)
Unblocked(dep_map, remaining, exempt, d) ==
    {s \in DOMAIN dep_map \ exempt :
        /\ Occurrences(dep_map, d, s) # {}
        /\ Decremented(dep_map, remaining, exempt, d)[s] = 0}

(***************************************************************************)
(* Reference definition of what ensure_acyclic decides: no non-empty set   *)
(* of steps in which every step depends on another one of the set.         *)
(***************************************************************************)
Acyclic(dep_map) ==
    \A S \in SUBSET DOMAIN dep_map :
        S # {} => \E s \in S : DepsOf(dep_map, s) \cap S = {}
==============================================================================
