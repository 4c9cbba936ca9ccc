--------------------------- MODULE ValidatePipeline ---------------------------
(***************************************************************************)
(* validate_pipeline (service/src/pipeline.rs): the checks a RunPipeline   *)
(* request passes before anything runs, in the code's order: a first loop  *)
(* over the steps, a second one over their dependencies, the construction  *)
(* of the DependencyGraph and Kahn's algorithm.  One action is one round   *)
(* of one of these loops.                                                  *)
(*                                                                         *)
(* `valid` stands for the per-step checks of names, file root and model,   *)
(* whose outcome depends on nothing else in the request.  The ready queue  *)
(* is a set: the result does not depend on the order of popping.           *)
(***************************************************************************)
EXTENDS DependencyGraph

CONSTANTS Ids,        \* step ids that may occur in a request
          Requests    \* the requests considered

StepRecord == [id : Ids, valid : BOOLEAN, depends_on : Seq(Ids)]

ASSUME RequestsAssumption == Requests \subseteq Seq(StepRecord)

VARIABLES
    steps,            \* the request
    phase,            \* which loop is running, or the verdict
    next,             \* index of the step the loop looks at
    id_set,           \* the ids seen by the first loop
    dep_map,          \* DependencyGraph.dep_map, once built
    remaining_deps,   \* ensure_acyclic's copy of the counters
    ready,            \* ensure_acyclic's queue
    sorted_count,     \* how many steps it has popped
    popped,           \* history: which ones
    reason            \* why the request was rejected

vars == <<steps, phase, next, id_set, dep_map, remaining_deps, ready,
          sorted_count, popped, reason>>
graph == <<dep_map, remaining_deps, ready, sorted_count, popped>>

Phases  == {"steps", "dependencies", "sorting", "accepted", "rejected"}
Reasons == {"none", "empty", "invalid", "duplicate", "missing", "cycle"}

EmptyMap == [s \in {} |-> <<>>]

Init ==
    /\ steps \in Requests
    /\ phase = "steps"
    /\ next = 1
    /\ id_set = {}
    /\ dep_map = EmptyMap
    /\ remaining_deps = EmptyMap
    /\ ready = {}
    /\ sorted_count = 0
    /\ popped = {}
    /\ reason = "none"

Reject(why) ==
    /\ phase' = "rejected"
    /\ reason' = why
    /\ UNCHANGED <<steps, next, id_set, graph>>

RejectEmpty ==
    /\ phase = "steps" /\ steps = <<>>
    /\ Reject("empty")

InFirstLoop  == phase = "steps" /\ next \in DOMAIN steps
InSecondLoop == phase = "dependencies" /\ next \in DOMAIN steps

RejectInvalid ==
    /\ InFirstLoop
    /\ ~steps[next].valid
    /\ Reject("invalid")

RejectDuplicate ==
    /\ InFirstLoop
    /\ steps[next].valid
    /\ steps[next].id \in id_set
    /\ Reject("duplicate")

AcceptStep ==
    /\ InFirstLoop
    /\ steps[next].valid
    /\ steps[next].id \notin id_set
    /\ id_set' = id_set \cup {steps[next].id}
    /\ next' = next + 1
    /\ UNCHANGED <<steps, phase, graph, reason>>

StartSecondLoop ==
    /\ phase = "steps" /\ steps # <<>> /\ next > Len(steps)
    /\ phase' = "dependencies"
    /\ next' = 1
    /\ UNCHANGED <<steps, id_set, graph, reason>>

Missing(k) ==
    {i \in DOMAIN steps[k].depends_on : steps[k].depends_on[i] \notin id_set}

RejectMissing ==
    /\ InSecondLoop
    /\ Missing(next) # {}
    /\ Reject("missing")

AcceptDependencies ==
    /\ InSecondLoop
    /\ Missing(next) = {}
    /\ next' = next + 1
    /\ UNCHANGED <<steps, phase, id_set, graph, reason>>

IndexOf(id) == CHOOSE k \in DOMAIN steps : steps[k].id = id

(* build_dependency_graph, and the start of ensure_acyclic *)
BuildGraph ==
    /\ phase = "dependencies" /\ next > Len(steps)
    /\ phase' = "sorting"
    /\ dep_map' = [s \in id_set |-> steps[IndexOf(s)].depends_on]
    /\ remaining_deps' = InitialCounts(dep_map')
    /\ ready' = InitialReady(dep_map')
    /\ UNCHANGED <<steps, next, id_set, sorted_count, popped, reason>>

(* A slip to be caught: the step is looked at but never taken off the queue. *)
PopWithoutRemoving(s) ==
    /\ phase = "sorting"
    /\ s \in ready
    /\ popped' = popped \cup {s}
    /\ sorted_count' = Cardinality(popped')
    /\ remaining_deps' = IF s \in popped THEN remaining_deps
                         ELSE Decremented(dep_map, remaining_deps, {}, s)
    /\ ready' = ready \cup Unblocked(dep_map, remaining_deps, {}, s)
    /\ UNCHANGED <<steps, phase, next, id_set, dep_map, reason>>

Pop(s) ==
    /\ phase = "sorting"
    /\ s \in ready
    /\ sorted_count' = sorted_count + 1
    /\ popped' = popped \cup {s}
    /\ remaining_deps' = Decremented(dep_map, remaining_deps, {}, s)
    /\ ready' = (ready \ {s}) \cup Unblocked(dep_map, remaining_deps, {}, s)
    /\ UNCHANGED <<steps, phase, next, id_set, dep_map, reason>>

RejectCycle ==
    /\ phase = "sorting" /\ ready = {}
    /\ sorted_count # Len(steps)
    /\ Reject("cycle")

(* A slip to be caught: the count is not compared. *)
AcceptWhenDrained ==
    /\ phase = "sorting" /\ ready = {}
    /\ phase' = "accepted"
    /\ UNCHANGED <<steps, next, id_set, graph, reason>>

Accept ==
    /\ phase = "sorting" /\ ready = {}
    /\ sorted_count = Len(steps)
    /\ phase' = "accepted"
    /\ UNCHANGED <<steps, next, id_set, graph, reason>>

Decided == phase \in {"accepted", "rejected"} /\ UNCHANGED vars

Next ==
    \/ RejectEmpty \/ RejectInvalid \/ RejectDuplicate \/ AcceptStep
    \/ StartSecondLoop \/ RejectMissing \/ AcceptDependencies
    \/ BuildGraph \/ (\E s \in Ids : Pop(s)) \/ RejectCycle \/ Accept
    \/ Decided

Spec == Init /\ [][Next]_vars

(* A function that is called runs to its return. *)
FairSpec == Spec /\ WF_vars(Next)

-----------------------------------------------------------------------------
(* Properties *)

TypeOK ==
    /\ steps \in Requests
    /\ phase \in Phases
    /\ next \in 1 .. Len(steps) + 1
    /\ id_set \subseteq Ids
    /\ DOMAIN dep_map \in SUBSET Ids
    /\ remaining_deps \in [DOMAIN dep_map -> Nat]
    /\ ready \subseteq DOMAIN dep_map
    /\ sorted_count \in Nat
    /\ popped \subseteq DOMAIN dep_map
    /\ reason \in Reasons

IdsOf(r) == {r[k].id : k \in DOMAIN r}

(* What the scheduler takes for granted holds of every accepted request:   *)
(* at least one step, all valid, ids unique, dependencies among the ids,   *)
(* the graph is that of the request and has no cycle.                      *)
AcceptsOnlyPipelines ==
    phase = "accepted" =>
        /\ steps # <<>>
        /\ \A k \in DOMAIN steps : steps[k].valid
        /\ \A j, k \in DOMAIN steps : steps[j].id = steps[k].id => j = k
        /\ DOMAIN dep_map = IdsOf(steps)
        /\ \A k \in DOMAIN steps : dep_map[steps[k].id] = steps[k].depends_on
        /\ \A s \in DOMAIN dep_map : DepsOf(dep_map, s) \subseteq DOMAIN dep_map
        /\ Acyclic(dep_map)

(* A request is rejected only for a reason that is true of it; "cycle" is  *)
(* never said of a graph without one, repeated dependencies included.      *)
RejectsForCause ==
    phase = "rejected" =>
        \/ reason = "empty" /\ steps = <<>>
        \/ reason = "invalid" /\ \E k \in DOMAIN steps : ~steps[k].valid
        \/ /\ reason = "duplicate"
           /\ \E j, k \in DOMAIN steps : j # k /\ steps[j].id = steps[k].id
        \/ /\ reason = "missing"
           /\ \E k \in DOMAIN steps : \E i \in DOMAIN steps[k].depends_on :
                  steps[k].depends_on[i] \notin IdsOf(steps)
        \/ reason = "cycle" /\ ~Acyclic(dep_map)

(* Validation comes to a verdict on every request. *)
Decides == <>(phase \in {"accepted", "rejected"})
==============================================================================
