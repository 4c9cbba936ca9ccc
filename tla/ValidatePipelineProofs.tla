------------------------ MODULE ValidatePipelineProofs ------------------------
(***************************************************************************)
(* For every set of requests: what validate_pipeline accepts is what the   *)
(* scheduler takes for granted, and what it rejects it rejects for a true  *)
(* reason.  The heart is Kahn's algorithm: the popped steps always form a  *)
(* set closed under dependencies without a cycle in it (SortingFacts).     *)
(***************************************************************************)
EXTENDS ValidatePipeline, DependencyGraphProofs

(* How many steps the first loop has accepted. *)
Checked == IF phase = "steps" THEN next - 1 ELSE Len(steps)

FirstLoopFacts ==
    phase # "rejected" =>
        /\ id_set = {steps[k].id : k \in 1 .. Checked}
        /\ \A k \in 1 .. Checked : steps[k].valid
        /\ \A j, k \in 1 .. Checked : steps[j].id = steps[k].id => j = k
        /\ IsFiniteSet(id_set) /\ Cardinality(id_set) = Checked
        /\ phase # "steps" => steps # <<>>

SecondLoopFacts ==
    /\ phase = "dependencies" => \A k \in 1 .. next - 1 : Missing(k) = {}
    /\ phase \in {"sorting", "accepted"} => \A k \in DOMAIN steps : Missing(k) = {}

GraphFacts ==
    /\ phase \in {"steps", "dependencies"} =>
           dep_map = EmptyMap /\ ready = {} /\ popped = {} /\ sorted_count = 0
    /\ phase \in {"sorting", "accepted"} =>
           /\ DOMAIN dep_map = id_set
           /\ \A k \in DOMAIN steps : dep_map[steps[k].id] = steps[k].depends_on
           /\ \A s \in DOMAIN dep_map : /\ dep_map[s] \in Seq(Ids)
                                        /\ DepsOf(dep_map, s) \subseteq DOMAIN dep_map

(* The popped steps have all their dependencies popped, the ready ones are *)
(* the others of which this is true, and no cycle lies in the popped set.  *)
SortingFacts ==
    phase \in {"sorting", "accepted"} =>
        /\ \A s \in DOMAIN dep_map :
               remaining_deps[s] = Cardinality(Pending(dep_map, popped, s))
        /\ ready = {s \in DOMAIN dep_map \ popped : DepsOf(dep_map, s) \subseteq popped}
        /\ \A s \in popped : DepsOf(dep_map, s) \subseteq popped
        /\ IsFiniteSet(popped) /\ sorted_count = Cardinality(popped)
        /\ \A S \in SUBSET popped :
               S # {} => \E s \in S : DepsOf(dep_map, s) \cap S = {}

IInv ==
    /\ TypeOK
    /\ FirstLoopFacts
    /\ SecondLoopFacts
    /\ GraphFacts
    /\ SortingFacts
    /\ phase = "accepted" => sorted_count = Len(steps)
    /\ RejectsForCause

-----------------------------------------------------------------------------
LEMMA RequestTypes ==
  ASSUME steps \in Requests
  PROVE  /\ steps \in Seq(StepRecord)
         /\ DOMAIN steps = 1 .. Len(steps) /\ Len(steps) \in Nat
         /\ steps = <<>> <=> Len(steps) = 0
         /\ \A k \in DOMAIN steps : /\ steps[k] \in StepRecord
                                    /\ steps[k].id \in Ids
                                    /\ steps[k].valid \in BOOLEAN
                                    /\ steps[k].depends_on \in Seq(Ids)
<1>1. steps \in Seq(StepRecord)
  BY RequestsAssumption
<1>2. \A k \in DOMAIN steps : steps[k] \in StepRecord
  BY <1>1
<1>3. DOMAIN steps = 1 .. Len(steps) /\ Len(steps) \in Nat /\ (steps = <<>> <=> Len(steps) = 0)
  BY <1>1
<1> QED
  BY <1>1, <1>2, <1>3 DEF StepRecord

LEMMA InitEstablishes == Init => IInv
<1> SUFFICES ASSUME Init PROVE IInv
  OBVIOUS
<1>1. /\ Checked = 0 /\ 1 .. 0 = {}
      /\ next \in 1 .. Len(steps) + 1
  BY RequestTypes DEF Init, Checked
<1>2. IsFiniteSet({}) /\ Cardinality({}) = 0
  BY FS_EmptySet
<1>3. TypeOK
  BY <1>1 DEF Init, TypeOK, EmptyMap, Phases, Reasons
<1>4. FirstLoopFacts
  BY <1>1, <1>2 DEF Init, FirstLoopFacts
<1> QED
  BY <1>3, <1>4
     DEF Init, IInv, SecondLoopFacts, GraphFacts, SortingFacts, RejectsForCause

(* The first loop takes one more step, with an id it has not seen. *)
LEMMA AcceptStepPreserves ==
  ASSUME IInv, AcceptStep
  PROVE  IInv'
<1> USE DEF IInv, AcceptStep, InFirstLoop, graph
<1>1. /\ DOMAIN steps = 1 .. Len(steps) /\ Len(steps) \in Nat
      /\ next \in 1 .. Len(steps) /\ steps[next].id \in Ids
  BY RequestTypes DEF TypeOK
<1>2. /\ Checked = next - 1 /\ Checked' = next
      /\ 1 .. Checked' = (1 .. Checked) \cup {next} /\ next \notin 1 .. Checked
  BY <1>1 DEF Checked
<1>3. TypeOK'
  BY <1>1 DEF TypeOK
<1>4. FirstLoopFacts'
  <2>1. id_set' = {steps[k].id : k \in 1 .. Checked'}
    BY <1>2 DEF FirstLoopFacts
  <2>2. \A k \in 1 .. Checked' : steps[k].valid
    BY <1>2 DEF FirstLoopFacts
  <2>3. \A j, k \in 1 .. Checked' : steps[j].id = steps[k].id => j = k
    BY <1>2 DEF FirstLoopFacts
  <2>4. IsFiniteSet(id_set') /\ Cardinality(id_set') = Checked'
    <3>1. /\ IsFiniteSet(id_set) /\ Cardinality(id_set) = next - 1
      BY <1>2 DEF FirstLoopFacts
    <3>2. /\ IsFiniteSet(id_set \cup {steps[next].id})
          /\ Cardinality(id_set \cup {steps[next].id}) = Cardinality(id_set) + 1
      BY <3>1, FS_AddElement
    <3> QED
      BY <1>1, <1>2, <3>1, <3>2
  <2> QED
    BY <2>1, <2>2, <2>3, <2>4 DEF FirstLoopFacts
<1> QED
  BY <1>3, <1>4 DEF SecondLoopFacts, GraphFacts, SortingFacts, RejectsForCause

LEMMA StartSecondLoopPreserves ==
  ASSUME IInv, StartSecondLoop
  PROVE  IInv'
<1> USE DEF IInv, StartSecondLoop, graph
<1>1. Len(steps) \in Nat /\ next \in 1 .. Len(steps) + 1
  BY RequestTypes DEF TypeOK
<1>2. Checked = Len(steps) /\ Checked' = Len(steps)
  BY <1>1 DEF Checked
<1>3. TypeOK'
  BY <1>1 DEF TypeOK, Phases
<1>4. FirstLoopFacts'
  BY <1>2 DEF FirstLoopFacts
<1> QED
  BY <1>1, <1>3, <1>4 DEF SecondLoopFacts, GraphFacts, SortingFacts, RejectsForCause

LEMMA AcceptDependenciesPreserves ==
  ASSUME IInv, AcceptDependencies
  PROVE  IInv'
<1> USE DEF IInv, AcceptDependencies, InSecondLoop, graph
<1>1. /\ DOMAIN steps = 1 .. Len(steps) /\ Len(steps) \in Nat
      /\ next \in 1 .. Len(steps)
  BY RequestTypes DEF TypeOK
<1>2. 1 .. next' - 1 = (1 .. next - 1) \cup {next}
  BY <1>1
<1>3. TypeOK'
  BY <1>1 DEF TypeOK
<1>4. FirstLoopFacts'
  BY DEF FirstLoopFacts, Checked
<1>5. SecondLoopFacts'
  BY <1>2 DEF SecondLoopFacts, Missing
<1> QED
  BY <1>3, <1>4, <1>5 DEF GraphFacts, SortingFacts, RejectsForCause

(* The graph built is that of the request, with nothing popped yet.        *)
LEMMA BuildGraphPreserves ==
  ASSUME IInv, BuildGraph
  PROVE  IInv'
<1> USE DEF IInv, BuildGraph
<1>1. /\ DOMAIN steps = 1 .. Len(steps) /\ Len(steps) \in Nat
      /\ next \in 1 .. Len(steps) + 1
      /\ \A k \in DOMAIN steps : /\ steps[k].id \in Ids
                                 /\ steps[k].depends_on \in Seq(Ids)
  BY RequestTypes DEF TypeOK
<1>2. /\ Checked = Len(steps) /\ Checked' = Len(steps)
      /\ 1 .. next - 1 = DOMAIN steps
  BY <1>1 DEF Checked
<1>3. /\ id_set = {steps[k].id : k \in DOMAIN steps}
      /\ \A j, k \in DOMAIN steps : steps[j].id = steps[k].id => j = k
  BY <1>1, <1>2 DEF FirstLoopFacts
<1>4. \A k \in DOMAIN steps : IndexOf(steps[k].id) = k
  BY <1>3 DEF IndexOf
<1>5. /\ DOMAIN dep_map' = id_set
      /\ \A k \in DOMAIN steps : dep_map'[steps[k].id] = steps[k].depends_on
  BY <1>3, <1>4
<1>6. \A k \in DOMAIN steps : Missing(k) = {}
  BY <1>2 DEF SecondLoopFacts
<1>7. ASSUME NEW s \in id_set
      PROVE  /\ dep_map'[s] \in Seq(Ids)
             /\ DepsOf(dep_map', s) \subseteq id_set
  <2>1. PICK k \in DOMAIN steps : s = steps[k].id
    BY <1>3
  <2>2. dep_map'[s] = steps[k].depends_on
    BY <1>5, <2>1
  <2>3. Missing(k) = {}
    BY <1>6
  <2> QED
    BY <1>1, <2>2, <2>3 DEF Missing, DepsOf
<1>8. \A s \in id_set :
          /\ remaining_deps'[s] = Cardinality(Pending(dep_map', popped', s))
          /\ remaining_deps'[s] \in Nat
          /\ remaining_deps'[s] = 0 <=> DepsOf(dep_map', s) \subseteq popped'
  <2> SUFFICES ASSUME NEW s \in id_set
               PROVE  /\ remaining_deps'[s] = Cardinality(Pending(dep_map', popped', s))
                      /\ remaining_deps'[s] \in Nat
                      /\ remaining_deps'[s] = 0 <=> DepsOf(dep_map', s) \subseteq popped'
    OBVIOUS
  <2>1. popped' = {}
    BY DEF GraphFacts
  <2>2. s \in DOMAIN dep_map' /\ dep_map'[s] \in Seq(Ids)
    BY <1>5, <1>7
  <2>3. InitialCounts(dep_map')[s] = Cardinality(Pending(dep_map', {}, s))
    BY <2>2, InitialCountsExact
  <2>4. Cardinality(Pending(dep_map', {}, s)) \in Nat
    BY <2>2, PendingFinite
  <2>5. Cardinality(Pending(dep_map', {}, s)) = 0 <=> DepsOf(dep_map', s) \subseteq {}
    BY <2>2, ZeroIffResolved
  <2> QED
    BY <2>1, <2>3, <2>4, <2>5
<1>9. TypeOK'
  <2>1. remaining_deps' \in [id_set -> Nat]
    BY <1>5, <1>8 DEF InitialCounts
  <2>2. ready' \subseteq id_set
    BY <1>5 DEF InitialReady
  <2> QED
    BY <1>5, <2>1, <2>2 DEF TypeOK, Phases, GraphFacts
<1>10. FirstLoopFacts'
  BY <1>2 DEF FirstLoopFacts
<1>11. SecondLoopFacts'
  BY <1>6 DEF SecondLoopFacts, Missing
<1>12. GraphFacts'
  BY <1>5, <1>7 DEF GraphFacts
<1>13. SortingFacts'
  <2>1. ready' = {s \in id_set \ popped' : DepsOf(dep_map', s) \subseteq popped'}
    BY <1>5, <1>8 DEF InitialReady, GraphFacts
  <2>2. popped' = {} /\ sorted_count' = 0
    BY DEF GraphFacts
  <2> QED
    BY <1>5, <1>8, <2>1, <2>2, FS_EmptySet DEF SortingFacts
<1> QED
  BY <1>9, <1>10, <1>11, <1>12, <1>13 DEF RejectsForCause

(* Popping a step: its dependencies are popped, so a set of popped steps   *)
(* that contains it still has a member none of the others is a dependency  *)
(* of, and the counters go on counting what is not popped.                 *)
LEMMA PopPreserves ==
  ASSUME IInv, NEW s \in Ids, Pop(s)
  PROVE  IInv'
<1> USE DEF IInv, Pop
<1>1. /\ s \in DOMAIN dep_map /\ s \notin popped /\ popped \subseteq DOMAIN dep_map
      /\ DepsOf(dep_map, s) \subseteq popped
      /\ \A t \in DOMAIN dep_map : dep_map[t] \in Seq(Ids)
  BY DEF SortingFacts, GraphFacts, TypeOK
<1>2. \A t \in popped' : DepsOf(dep_map, t) \subseteq popped
  BY <1>1 DEF SortingFacts
<1>3. ASSUME NEW t \in DOMAIN dep_map
      PROVE  /\ remaining_deps'[t] = Cardinality(Pending(dep_map, popped', t))
             /\ remaining_deps'[t] \in Nat
             /\ remaining_deps'[t] = 0 <=> DepsOf(dep_map, t) \subseteq popped'
  <2>1. remaining_deps'[t] = remaining_deps[t] - Cardinality(Occurrences(dep_map, s, t))
    BY DEF Decremented
  <2>2. remaining_deps[t] = Cardinality(Pending(dep_map, popped, t))
    BY DEF SortingFacts
  <2>3. Cardinality(Pending(dep_map, popped, t)) - Cardinality(Occurrences(dep_map, s, t))
          = Cardinality(Pending(dep_map, popped', t))
    BY <1>1, DecrementExact
  <2>4. Cardinality(Pending(dep_map, popped', t)) \in Nat
    BY <1>1, PendingFinite
  <2>5. Cardinality(Pending(dep_map, popped', t)) = 0
          <=> DepsOf(dep_map, t) \subseteq popped'
    BY <1>1, ZeroIffResolved
  <2> QED
    BY <2>1, <2>2, <2>3, <2>4, <2>5
<1>4. ready' = {t \in DOMAIN dep_map \ popped' : DepsOf(dep_map, t) \subseteq popped'}
  <2>1. \A t \in DOMAIN dep_map : Occurrences(dep_map, s, t) # {} <=> s \in DepsOf(dep_map, t)
    BY DEF Occurrences, DepsOf
  <2>2. Unblocked(dep_map, remaining_deps, {}, s)
          = {t \in DOMAIN dep_map : /\ s \in DepsOf(dep_map, t)
                                    /\ DepsOf(dep_map, t) \subseteq popped'}
    BY <1>3, <2>1 DEF Unblocked
  <2>3. ready = {t \in DOMAIN dep_map \ popped : DepsOf(dep_map, t) \subseteq popped}
    BY DEF SortingFacts
  <2> QED
    BY <1>1, <1>2, <2>2, <2>3
<1>5. IsFiniteSet(popped') /\ sorted_count' = Cardinality(popped') /\ sorted_count' \in Nat
  BY <1>1, FS_AddElement DEF SortingFacts, TypeOK
<1>6. ASSUME NEW S \in SUBSET popped', S # {}
      PROVE  \E t \in S : DepsOf(dep_map, t) \cap S = {}
  <2>1. CASE S \subseteq {s}
    BY <1>1, <1>6, <2>1
  <2>2. CASE ~(S \subseteq {s})
    <3>1. S \ {s} \in SUBSET popped /\ S \ {s} # {}
      BY <2>2
    <3>2. PICK t \in S \ {s} : DepsOf(dep_map, t) \cap (S \ {s}) = {}
      BY <3>1 DEF SortingFacts
    <3>3. s \notin DepsOf(dep_map, t)
      BY <1>1, <1>2, <3>1
    <3> QED
      BY <3>2, <3>3
  <2> QED
    BY <2>1, <2>2
<1>7. TypeOK'
  <2>1. remaining_deps' \in [DOMAIN dep_map -> Nat]
    BY <1>3 DEF Decremented
  <2> QED
    BY <1>1, <1>4, <1>5, <2>1 DEF TypeOK
<1>8. SortingFacts'
  BY <1>1, <1>2, <1>3, <1>4, <1>5, <1>6 DEF SortingFacts
<1> QED
  BY <1>7, <1>8
     DEF FirstLoopFacts, Checked, SecondLoopFacts, Missing, GraphFacts, RejectsForCause

(* The reasons of the two loops are read off the request. *)
LEMMA LoopRejectsPreserve ==
  ASSUME IInv, RejectEmpty \/ RejectInvalid \/ RejectDuplicate \/ RejectMissing
  PROVE  IInv'
<1> USE DEF IInv, Reject, InFirstLoop, InSecondLoop, graph
<1>1. /\ DOMAIN steps = 1 .. Len(steps) /\ Len(steps) \in Nat
      /\ next \in 1 .. Len(steps) + 1
  BY RequestTypes DEF TypeOK
<1>2. TypeOK' /\ phase' = "rejected"
  BY DEF TypeOK, Phases, Reasons, RejectEmpty, RejectInvalid, RejectDuplicate,
         RejectMissing
<1>3. CASE RejectDuplicate
  <2>1. id_set = {steps[k].id : k \in 1 .. next - 1} /\ steps[next].id \in id_set
    BY <1>3 DEF RejectDuplicate, FirstLoopFacts, Checked
  <2>2. PICK j \in 1 .. next - 1 : steps[j].id = steps[next].id
    BY <2>1
  <2>3. j \in DOMAIN steps /\ next \in DOMAIN steps /\ j # next
    BY <1>1, <1>3 DEF RejectDuplicate
  <2>4. RejectsForCause'
    BY <1>3, <2>2, <2>3 DEF RejectDuplicate, RejectsForCause
  <2> QED
    BY <1>2, <2>4 DEF FirstLoopFacts, SecondLoopFacts, GraphFacts, SortingFacts
<1>4. CASE RejectMissing
  <2>1. id_set = {steps[k].id : k \in DOMAIN steps}
    BY <1>1, <1>4 DEF RejectMissing, FirstLoopFacts, Checked
  <2>2. RejectsForCause'
    BY <1>4, <2>1 DEF RejectMissing, Missing, RejectsForCause, IdsOf
  <2> QED
    BY <1>2, <2>2 DEF FirstLoopFacts, SecondLoopFacts, GraphFacts, SortingFacts
<1>5. CASE RejectEmpty \/ RejectInvalid
  <2>1. RejectsForCause'
    BY <1>5 DEF RejectEmpty, RejectInvalid, RejectsForCause
  <2> QED
    BY <1>2, <2>1 DEF FirstLoopFacts, SecondLoopFacts, GraphFacts, SortingFacts
<1> QED
  BY <1>3, <1>4, <1>5

(* A step count that differs from the number of popped steps leaves a set  *)
(* of steps of which each one depends on another: a cycle.                 *)
LEMMA RejectCyclePreserves ==
  ASSUME IInv, RejectCycle
  PROVE  IInv'
<1> USE DEF IInv, RejectCycle, Reject, graph
<1>1. TypeOK' /\ phase' = "rejected" /\ reason' = "cycle" /\ dep_map' = dep_map
  BY DEF TypeOK, Phases, Reasons
<1>2. /\ DOMAIN dep_map = id_set /\ Cardinality(id_set) = Len(steps)
      /\ popped \subseteq id_set
      /\ sorted_count = Cardinality(popped)
      /\ \A s \in id_set \ popped : ~(DepsOf(dep_map, s) \subseteq popped)
      /\ \A s \in id_set : DepsOf(dep_map, s) \subseteq id_set
  BY DEF GraphFacts, FirstLoopFacts, Checked, SortingFacts, TypeOK
<1>3. id_set \ popped # {}
  BY <1>2
<1>4. \A s \in id_set \ popped : DepsOf(dep_map, s) \cap (id_set \ popped) # {}
  BY <1>2
<1>5. ~Acyclic(dep_map)
  BY <1>2, <1>3, <1>4 DEF Acyclic
<1>6. RejectsForCause'
  BY <1>1, <1>5 DEF RejectsForCause
<1> QED
  BY <1>1, <1>6 DEF FirstLoopFacts, SecondLoopFacts, GraphFacts, SortingFacts

LEMMA AcceptPreserves ==
  ASSUME IInv, Accept
  PROVE  IInv'
<1> USE DEF IInv, Accept, graph
<1>1. TypeOK'
  BY DEF TypeOK, Phases
<1> QED
  BY <1>1 DEF FirstLoopFacts, Checked, SecondLoopFacts, Missing, GraphFacts,
              SortingFacts, RejectsForCause

LEMMA NextPreserves ==
  ASSUME IInv, [Next]_vars
  PROVE  IInv'
<1>1. CASE UNCHANGED vars
  <2> USE <1>1 DEF vars, IInv
  <2>1. TypeOK'
    BY DEF TypeOK
  <2>2. FirstLoopFacts'
    BY DEF FirstLoopFacts, Checked
  <2>3. SecondLoopFacts' /\ GraphFacts'
    BY DEF SecondLoopFacts, Missing, GraphFacts
  <2>4. SortingFacts' /\ RejectsForCause'
    BY DEF SortingFacts, RejectsForCause
  <2> QED
    BY <2>1, <2>2, <2>3, <2>4
<1> QED
  BY <1>1, AcceptStepPreserves, StartSecondLoopPreserves,
     AcceptDependenciesPreserves, BuildGraphPreserves, PopPreserves,
     LoopRejectsPreserve, RejectCyclePreserves, AcceptPreserves
     DEF Next, Decided

(* The loops' facts hold throughout the validation. *)
THEOREM ValidationInvariant == Spec => []IInv
<1>1. Init => IInv
  BY InitEstablishes
<1>2. IInv /\ [Next]_vars => IInv'
  BY NextPreserves
<1> QED
  BY <1>1, <1>2, PTL DEF Spec

LEMMA AcceptsOnlyPipelinesHolds == IInv => AcceptsOnlyPipelines
<1> SUFFICES ASSUME IInv, phase = "accepted"
             PROVE  AcceptsOnlyPipelines
  BY DEF AcceptsOnlyPipelines
<1>1. DOMAIN steps = 1 .. Len(steps) /\ Checked = Len(steps)
  BY RequestTypes DEF IInv, TypeOK, Checked
<1>2. /\ DOMAIN dep_map = id_set /\ IsFiniteSet(id_set)
      /\ Cardinality(id_set) = Len(steps)
      /\ popped \in SUBSET id_set /\ Cardinality(popped) = Len(steps)
  BY <1>1 DEF IInv, TypeOK, FirstLoopFacts, GraphFacts, SortingFacts
<1>3. popped = DOMAIN dep_map
  BY <1>2, FS_Subset
<1>4. Acyclic(dep_map)
  BY <1>3 DEF IInv, SortingFacts, Acyclic
<1> QED
  BY <1>1, <1>4 DEF AcceptsOnlyPipelines, IInv, FirstLoopFacts, GraphFacts, IdsOf

(* An accepted request is a pipeline: unique valid steps, dependencies     *)
(* among them, no cycle.  This is what SchedulerState relies on.           *)
THEOREM AcceptedIsPipeline == Spec => []AcceptsOnlyPipelines
BY ValidationInvariant, AcceptsOnlyPipelinesHolds, PTL

(* No request is rejected without a true reason. *)
THEOREM RejectedForCause == Spec => []RejectsForCause
BY ValidationInvariant, PTL DEF IInv

(* The counters of Kahn's algorithm never go below zero. *)
THEOREM ValidationTypes == Spec => []TypeOK
BY ValidationInvariant, PTL DEF IInv
==============================================================================
