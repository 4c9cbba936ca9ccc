------------------------ MODULE PipelineSchedulerProofs ------------------------
(***************************************************************************)
(* The safety properties of PipelineScheduler, and that it implements      *)
(* PipelineContract, for every finite set of steps and every set of        *)
(* depends_on lists.  All of them follow from one inductive invariant,     *)
(* IInv, whose parts say how the scheduler's sets, the step tasks, the     *)
(* StepDone messages and the events sent to the client agree.              *)
(***************************************************************************)
EXTENDS PipelineScheduler, DependencyGraphProofs

-----------------------------------------------------------------------------
(* The inductive invariant *)

(* A step is in at most one of the scheduler's sets. *)
SetsDisjoint ==
    /\ ready \cap active_steps = {}
    /\ ready \cap Resolved = {}
    /\ active_steps \cap Resolved = {}
    /\ completed \cap skipped = {}
    /\ failed \cap skipped = {}
    /\ ~overall_timed_out => failed \subseteq completed

(* What has left the waiting state has all its dependencies resolved. *)
DependenciesResolved ==
    \A s \in ready \cup active_steps \cup Resolved :
        DepsOf(dep_map, s) \subseteq Resolved

(* A task exists for the active and the completed steps, and the completed *)
(* ones are over.                                                          *)
TasksMatch ==
    \A s \in Steps :
        /\ task[s] # "unborn" <=> s \in active_steps \cup completed
        /\ s \in completed => task[s] = "ended"
        /\ s \in active_steps /\ phase \in {"starting", "running", "finished"} =>
               (task[s] = "ended" <=> \E m \in done_rx : m.id = s)

(* A StepDone in flight is of an active step and tells what was reported.  *)
MessagesMatch ==
    \A m \in done_rx :
        /\ m.id \in active_steps
        /\ m.success <=> report[m.id] = "succeeded"

(* The events the client has seen are those of the step's situation. *)
ReportsMatch ==
    \A s \in Steps :
        /\ task[s] = "executing" => report[s] = "started"
        /\ task[s] = "reported" => report[s] \in {"succeeded", "failed", "timed_out"}
        /\ task[s] = "ended" =>
               report[s] \in {"started", "succeeded", "failed", "timed_out"}
        /\ s \in skipped <=> report[s] = "skipped"
        /\ task[s] = "unborn" /\ s \notin skipped =>
               report[s] = IF s \in failed THEN "timed_out" ELSE "none"
        /\ ~overall_timed_out => report[s] # "timed_out"
        /\ s \in completed /\ ~overall_timed_out =>
               (s \in failed <=> report[s] # "succeeded")

(* A skipped step has a dependency that went wrong. *)
SkipHasCause ==
    \A s \in skipped : \E d \in DepsOf(dep_map, s) :
        d \in Resolved /\ report[d] # "succeeded"

(* Where the loop is. *)
PhaseMatches ==
    /\ phase = "starting" =>
           active_steps = {} /\ completed = {} /\ skipped = {} /\ ~overall_timed_out
    /\ overall_timed_out => ready = {} /\ active_steps \cup failed # {}
    /\ phase = "finished" =>
           /\ ready = {} /\ active_steps = {}
           /\ overall_timed_out => Unfinished = {}
           /\ summary.skipped_steps = skipped
           /\ summary.all_succeeded <=> AllSucceeded

IInv ==
    /\ TypeOK
    /\ SetsDisjoint
    /\ CountsExact
    /\ NoStepStuck
    /\ DependenciesResolved
    /\ StartsAfterDependencies
    /\ TasksMatch
    /\ MessagesMatch
    /\ ReportsMatch
    /\ SkipHasCause
    /\ PhaseMatches

-----------------------------------------------------------------------------
(* The lists of a pipeline are sequences of step ids. *)
LEMMA PipelineLists ==
  ASSUME dep_map \in Pipelines
  PROVE  /\ DOMAIN dep_map = Steps
         /\ \A s \in Steps : dep_map[s] \in Seq(Steps)
         /\ \A s \in Steps : DepsOf(dep_map, s) \subseteq Steps
<1>1. dep_map \in [Steps -> DepLists]
  BY DEF Pipelines
<1>2. \A s \in Steps : dep_map[s] \in Seq(Steps)
  BY <1>1, DepListsAssumption
<1>3. ASSUME NEW s \in Steps
      PROVE  DepsOf(dep_map, s) \subseteq Steps
  <2>1. dep_map[s] \in Seq(Steps)
    BY <1>2
  <2> QED
    BY <2>1 DEF DepsOf
<1> QED
  BY <1>1, <1>2, <1>3

(* The initial states satisfy the invariant: every counter counts its whole *)
(* list, and the ready steps are those with an empty one.                   *)
LEMMA InitEstablishes == Init => IInv
<1> SUFFICES ASSUME Init PROVE IInv
  OBVIOUS
<1> USE DEF Init
<1>0. /\ dep_map \in Pipelines
      /\ DOMAIN dep_map = Steps
      /\ \A s \in Steps : dep_map[s] \in Seq(Steps)
  BY PipelineLists
<1>1. Resolved = {}
  BY DEF Resolved
<1>2. \A s \in Steps : remaining_deps[s] = Cardinality(Pending(dep_map, Resolved, s))
  BY <1>0, <1>1, InitialCountsExact
<1>3. \A s \in Steps : Cardinality(Pending(dep_map, Resolved, s)) \in Nat
  BY <1>0, PendingFinite
<1>4. remaining_deps \in [Steps -> Nat]
  BY <1>0, <1>2, <1>3 DEF InitialCounts
<1>5. \A s \in Steps : remaining_deps[s] = 0 <=> DepsOf(dep_map, s) \subseteq Resolved
  BY <1>0, <1>2, ZeroIffResolved
<1>6. ready = {s \in Steps : remaining_deps[s] = 0}
  BY <1>0 DEF InitialReady
<1>7. TypeOK
  BY <1>0, <1>4, <1>6
     DEF TypeOK, Phases, TaskStates, Reports, StepDone
<1>8. NoStepStuck
  <2> SUFFICES ASSUME NEW s \in Steps, s \notin ready
               PROVE  Pending(dep_map, Resolved, s) # {}
    BY DEF NoStepStuck
  <2>1. remaining_deps[s] # 0
    BY <1>6
  <2> QED
    BY <1>0, <1>5, <2>1, ZeroIffResolved
<1>9. DependenciesResolved
  BY <1>0, <1>1, <1>5, <1>6 DEF DependenciesResolved
<1>10. CountsExact
  BY <1>2 DEF CountsExact
<1> QED
  BY <1>1, <1>7, <1>8, <1>9, <1>10
     DEF IInv, SetsDisjoint, StartsAfterDependencies, TasksMatch, MessagesMatch,
         ReportsMatch, SkipHasCause, PhaseMatches

(* What resolving step s does to the counters and to the ready queue.  The  *)
(* dependents the code passes over (already completed or skipped) are       *)
(* never dependents of s, since their own dependencies were all resolved.   *)
LEMMA UnblockPreserves ==
  ASSUME IInv, ~overall_timed_out,
         NEW s \in Steps, s \notin Resolved, DepsOf(dep_map, s) \subseteq Resolved,
         NEW STATE left, left \subseteq ready, ready \subseteq left \cup {s}, s \notin left,
         dep_map' = dep_map, overall_timed_out' = overall_timed_out,
         phase' = phase,
         Resolved' = Resolved \cup {s},
         active_steps' = active_steps \ {s},
         UnblockDependents(s, left)
  PROVE  /\ CountsExact' /\ NoStepStuck' /\ DependenciesResolved'
         /\ remaining_deps' \in [Steps -> Nat]
         /\ ready' \subseteq Steps
         /\ ready' \cap active_steps' = {}
         /\ ready' \cap Resolved' = {}
<1>0. /\ DOMAIN dep_map = Steps
      /\ \A t \in Steps : dep_map[t] \in Seq(Steps)
      /\ ready \subseteq Steps /\ Resolved \subseteq Steps
      /\ active_steps \subseteq Steps
      /\ remaining_deps \in [Steps -> Nat]
  BY PipelineLists DEF IInv, TypeOK, Resolved
<1>1. /\ remaining_deps' = Decremented(dep_map, remaining_deps, Resolved', s)
      /\ ready' = left \cup Unblocked(dep_map, remaining_deps, Resolved', s)
  BY DEF UnblockDependents, Resolved
<1>2. \A t \in ready \cup active_steps \cup Resolved \cup {s} :
          DepsOf(dep_map, t) \subseteq Resolved
  BY DEF IInv, DependenciesResolved
<1>3. \A t \in Steps : remaining_deps[t] = Cardinality(Pending(dep_map, Resolved, t))
  BY DEF IInv, CountsExact
<1>4. ASSUME NEW t \in Steps
      PROVE  remaining_deps'[t] = Cardinality(Pending(dep_map, Resolved', t))
  <2>1. CASE t \in Resolved'
    <3>1. /\ Pending(dep_map, Resolved, t) = {}
          /\ Pending(dep_map, Resolved', t) = {}
      BY <1>2, <2>1 DEF Pending, DepsOf
    <3>2. remaining_deps'[t] = remaining_deps[t]
      BY <1>0, <1>1, <2>1 DEF Decremented
    <3> QED
      BY <1>3, <3>1, <3>2
  <2>2. CASE t \notin Resolved'
    <3>1. remaining_deps'[t] = remaining_deps[t] - Cardinality(Occurrences(dep_map, s, t))
      BY <1>0, <1>1, <2>2 DEF Decremented
    <3>2. Cardinality(Pending(dep_map, Resolved, t))
            - Cardinality(Occurrences(dep_map, s, t))
            = Cardinality(Pending(dep_map, Resolved \cup {s}, t))
      BY <1>0, DecrementExact
    <3> QED
      BY <1>3, <3>1, <3>2
  <2> QED
    BY <2>1, <2>2
<1>5. \A t \in Steps : Cardinality(Pending(dep_map, Resolved', t)) \in Nat
  BY <1>0, PendingFinite
<1>6. remaining_deps' \in [Steps -> Nat]
  <2>1. remaining_deps' = [t \in Steps |-> remaining_deps'[t]]
    BY <1>0, <1>1 DEF Decremented
  <2> QED
    BY <1>4, <1>5, <2>1
<1>7. \A t \in Steps : /\ remaining_deps'[t] = 0 <=> DepsOf(dep_map, t) \subseteq Resolved'
                       /\ Pending(dep_map, Resolved', t) = {}
                              <=> DepsOf(dep_map, t) \subseteq Resolved'
  <2> SUFFICES ASSUME NEW t \in Steps
               PROVE  /\ remaining_deps'[t] = 0 <=> DepsOf(dep_map, t) \subseteq Resolved'
                      /\ Pending(dep_map, Resolved', t) = {}
                              <=> DepsOf(dep_map, t) \subseteq Resolved'
    OBVIOUS
  <2>1. t \in DOMAIN dep_map /\ dep_map[t] \in Seq(Steps)
    BY <1>0
  <2>2. /\ Cardinality(Pending(dep_map, Resolved', t)) = 0
              <=> DepsOf(dep_map, t) \subseteq Resolved'
        /\ Pending(dep_map, Resolved', t) = {}
              <=> DepsOf(dep_map, t) \subseteq Resolved'
    BY <2>1, ZeroIffResolved
  <2> QED
    BY <1>4, <2>2
<1>8. ready' = left \cup {t \in Steps \ Resolved' :
                            /\ s \in DepsOf(dep_map, t)
                            /\ DepsOf(dep_map, t) \subseteq Resolved'}
  <2>1. \A t \in Steps : Occurrences(dep_map, s, t) # {} <=> s \in DepsOf(dep_map, t)
    BY DEF Occurrences, DepsOf
  <2>2. Unblocked(dep_map, remaining_deps, Resolved', s)
          = {t \in Steps \ Resolved' : Occurrences(dep_map, s, t) # {}
                                          /\ remaining_deps'[t] = 0}
    BY <1>0, <1>1 DEF Unblocked
  <2> QED
    BY <1>1, <1>7, <2>1, <2>2
<1>9. CountsExact'
  BY <1>4 DEF CountsExact
<1>10. NoStepStuck'
  <2> SUFFICES ASSUME phase # "aborted", NEW t \in Steps,
                      t \notin ready' \cup active_steps' \cup Resolved',
                      Pending(dep_map, Resolved', t) = {}
               PROVE  FALSE
    BY DEF NoStepStuck
  <2>1. DepsOf(dep_map, t) \subseteq Resolved \cup {s}
    BY <1>7
  <2>2. t \notin ready \cup active_steps \cup Resolved
    BY <1>8
  <2>3. Pending(dep_map, Resolved, t) # {}
    BY <2>2 DEF IInv, NoStepStuck
  <2>4. s \in DepsOf(dep_map, t)
    BY <2>1, <2>3, <1>0, ZeroIffResolved
  <2> QED
    BY <1>8, <2>1, <2>4
<1>11. DependenciesResolved'
  <2> SUFFICES ASSUME NEW t \in ready' \cup active_steps' \cup Resolved'
               PROVE  DepsOf(dep_map, t) \subseteq Resolved'
    BY DEF DependenciesResolved
  <2> QED
    BY <1>2, <1>8
<1>12. /\ ready' \subseteq Steps
       /\ ready' \cap Resolved' = {}
       /\ ready' \cap active_steps' = {}
  <2>1. ready \cap active_steps = {} /\ ready \cap Resolved = {}
        /\ active_steps \cap Resolved = {}
    BY DEF IInv, SetsDisjoint
  <2>2. ASSUME NEW t \in active_steps, s \in DepsOf(dep_map, t) PROVE FALSE
    BY <1>2, <2>2
  <2> QED
    BY <1>0, <1>8, <2>1, <2>2
<1> QED
  BY <1>6, <1>9, <1>10, <1>11, <1>12
-----------------------------------------------------------------------------
(* The actions that leave every set of the scheduler as it is cannot       *)
(* disturb the parts of the invariant that speak of nothing else.          *)
LEMMA SchedulerUntouched ==
  ASSUME IInv, UNCHANGED <<dep_map, scheduler, overall_timed_out, phase>>
  PROVE  SetsDisjoint' /\ CountsExact' /\ NoStepStuck' /\ DependenciesResolved'
BY DEF IInv, scheduler, Resolved, SetsDisjoint, CountsExact, NoStepStuck,
       DependenciesResolved

(* Entering the loop changes nothing but the phase. *)
LEMMA BeginPreserves ==
  ASSUME IInv, Begin
  PROVE  IInv'
<1> USE DEF IInv, Resolved, scheduler, Begin
<1>1. TypeOK'
  BY DEF TypeOK, Phases, TaskStates, Reports, StepDone
<1>2. SetsDisjoint'
  BY DEF SetsDisjoint
<1>3. CountsExact'
  BY DEF CountsExact
<1>4. NoStepStuck'
  BY DEF NoStepStuck
<1>5. DependenciesResolved'
  BY DEF DependenciesResolved
<1>6. StartsAfterDependencies'
  BY DEF StartsAfterDependencies
<1>7. TasksMatch'
  BY DEF TasksMatch
<1>8. MessagesMatch'
  BY DEF MessagesMatch
<1>9. ReportsMatch'
  BY DEF ReportsMatch
<1>10. SkipHasCause'
  BY DEF SkipHasCause
<1>11. PhaseMatches'
  BY DEF PhaseMatches, Unfinished, AllSucceeded
<1> QED
  BY <1>1, <1>2, <1>3, <1>4, <1>5, <1>6, <1>7, <1>8, <1>9, <1>10, <1>11

(* Giving up before the loop: nothing has been launched. *)
LEMMA TempDirFailsPreserves ==
  ASSUME IInv, TempDirFails
  PROVE  IInv'
<1> USE DEF IInv, Resolved, scheduler, TempDirFails
<1>1. TypeOK'
  BY DEF TypeOK, Phases, TaskStates, Reports, StepDone
<1>2. SetsDisjoint'
  BY DEF SetsDisjoint
<1>3. CountsExact'
  BY DEF CountsExact
<1>4. NoStepStuck'
  BY DEF NoStepStuck
<1>5. DependenciesResolved'
  BY DEF DependenciesResolved
<1>6. StartsAfterDependencies'
  BY DEF StartsAfterDependencies
<1>7. TasksMatch'
  BY DEF TasksMatch
<1>8. MessagesMatch'
  BY DEF MessagesMatch
<1>9. ReportsMatch'
  BY DEF ReportsMatch
<1>10. SkipHasCause'
  BY DEF SkipHasCause
<1>11. PhaseMatches'
  BY DEF PhaseMatches, Unfinished, AllSucceeded
<1> QED
  BY <1>1, <1>2, <1>3, <1>4, <1>5, <1>6, <1>7, <1>8, <1>9, <1>10, <1>11

(* Launching: every dependency is resolved and, as the step is not to be   *)
(* skipped, none of them failed or was skipped, so each one succeeded.     *)
LEMMA LaunchReadyPreserves ==
  ASSUME IInv, NEW s \in Steps, LaunchReady(s)
  PROVE  IInv'
<1> USE DEF IInv, Resolved, scheduler, LaunchReady, Looping, Send, Goto
<1>1. TypeOK'
  BY DEF TypeOK, Phases, TaskStates, Reports, StepDone
<1>2. SetsDisjoint'
  BY DEF SetsDisjoint
<1>3. CountsExact'
  BY DEF CountsExact
<1>4. NoStepStuck'
  BY DEF NoStepStuck
<1>5. DependenciesResolved'
  BY DEF DependenciesResolved
<1>6. StartsAfterDependencies'
  BY DEF StartsAfterDependencies, TypeOK, TasksMatch, ReportsMatch,
       DependenciesResolved, ShouldSkip, SetsDisjoint
<1>7. TasksMatch'
  BY DEF TasksMatch, TypeOK, SetsDisjoint, MessagesMatch
<1>8. MessagesMatch'
  BY DEF MessagesMatch, TypeOK, SetsDisjoint, TasksMatch, StepDone
<1>9. ReportsMatch'
  BY DEF ReportsMatch, TypeOK, SetsDisjoint, TasksMatch
<1>10. SkipHasCause'
  BY DEF SkipHasCause
<1>11. PhaseMatches'
  BY DEF PhaseMatches, Unfinished, AllSucceeded
<1> QED
  BY <1>1, <1>2, <1>3, <1>4, <1>5, <1>6, <1>7, <1>8, <1>9, <1>10, <1>11

(* A failed launch takes the step out of the queue and ends the loop, so   *)
(* the part about stuck steps no longer applies.                           *)
LEMMA LaunchFailsPreserves ==
  ASSUME IInv, NEW s \in Steps, LaunchFails(s)
  PROVE  IInv'
<1> USE DEF IInv, Resolved, scheduler, LaunchFails, Looping
<1>1. TypeOK'
  BY DEF TypeOK, Phases, TaskStates, Reports, StepDone
<1>2. SetsDisjoint'
  BY DEF SetsDisjoint
<1>3. CountsExact'
  BY DEF CountsExact
<1>4. NoStepStuck'
  BY DEF NoStepStuck
<1>5. DependenciesResolved'
  BY DEF DependenciesResolved
<1>6. StartsAfterDependencies'
  BY DEF StartsAfterDependencies
<1>7. TasksMatch'
  BY DEF TasksMatch
<1>8. MessagesMatch'
  BY DEF MessagesMatch
<1>9. ReportsMatch'
  BY DEF ReportsMatch
<1>10. SkipHasCause'
  BY DEF SkipHasCause
<1>11. PhaseMatches'
  BY DEF PhaseMatches, Unfinished, AllSucceeded
<1> QED
  BY <1>1, <1>2, <1>3, <1>4, <1>5, <1>6, <1>7, <1>8, <1>9, <1>10, <1>11

(* The deadline: the ready queue is empty and some step is active. *)
LEMMA DeadlineHitsPreserves ==
  ASSUME IInv, DeadlineHits
  PROVE  IInv'
<1> USE DEF IInv, Resolved, scheduler, DeadlineHits, Waiting, Looping
<1>1. TypeOK'
  BY DEF TypeOK, Phases, TaskStates, Reports, StepDone
<1>2. SetsDisjoint'
  BY DEF SetsDisjoint
<1>3. CountsExact'
  BY DEF CountsExact
<1>4. NoStepStuck'
  BY DEF NoStepStuck
<1>5. DependenciesResolved'
  BY DEF DependenciesResolved
<1>6. StartsAfterDependencies'
  BY DEF StartsAfterDependencies
<1>7. TasksMatch'
  BY DEF TasksMatch
<1>8. MessagesMatch'
  BY DEF MessagesMatch
<1>9. ReportsMatch'
  BY DEF ReportsMatch
<1>10. SkipHasCause'
  BY DEF SkipHasCause
<1>11. PhaseMatches'
  BY DEF PhaseMatches, Unfinished, AllSucceeded
<1> QED
  BY <1>1, <1>2, <1>3, <1>4, <1>5, <1>6, <1>7, <1>8, <1>9, <1>10, <1>11

(* Draining: the step is active, hence not resolved, and becomes so. *)
LEMMA DrainDonePreserves ==
  ASSUME IInv, NEW m \in StepDone, DrainDone(m)
  PROVE  IInv'
<1> USE DEF IInv, Resolved, scheduler, DrainDone
<1>1. TypeOK'
  BY DEF TypeOK, Phases, TaskStates, Reports, StepDone
<1>2. SetsDisjoint'
  BY DEF SetsDisjoint, MessagesMatch, StepDone, TypeOK
<1>3. CountsExact'
  BY DEF CountsExact
<1>4. NoStepStuck'
  BY DEF NoStepStuck
<1>5. DependenciesResolved'
  BY DEF DependenciesResolved, MessagesMatch, StepDone, TypeOK
<1>6. StartsAfterDependencies'
  BY DEF StartsAfterDependencies
<1>7. TasksMatch'
  BY DEF TasksMatch, MessagesMatch, StepDone, TypeOK, SetsDisjoint
<1>8. MessagesMatch'
  BY DEF MessagesMatch, TypeOK, StepDone, SetsDisjoint
<1>9. ReportsMatch'
  BY DEF ReportsMatch, MessagesMatch, TypeOK, SetsDisjoint, TasksMatch,
       StepDone
<1>10. SkipHasCause'
  BY DEF SkipHasCause
<1>11. PhaseMatches'
  BY DEF PhaseMatches, Unfinished, AllSucceeded
<1> QED
  BY <1>1, <1>2, <1>3, <1>4, <1>5, <1>6, <1>7, <1>8, <1>9, <1>10, <1>11

(* Sweeping: the step was never launched, so no step that was launched     *)
(* depends on it.                                                          *)
LEMMA SweepPreserves ==
  ASSUME IInv, NEW s \in Steps, SweepUnfinished(s)
  PROVE  IInv'
<1> USE DEF IInv, Resolved, scheduler, SweepUnfinished, Send
<1>1. TypeOK'
  BY DEF TypeOK, Phases, TaskStates, Reports, StepDone
<1>2. SetsDisjoint'
  BY DEF SetsDisjoint, Unfinished
<1>3. CountsExact'
  BY DEF CountsExact
<1>4. NoStepStuck'
  BY DEF NoStepStuck
<1>5. DependenciesResolved'
  BY DEF DependenciesResolved
<1>6. StartsAfterDependencies'
  BY DEF StartsAfterDependencies, TypeOK, Unfinished, TasksMatch
<1>7. TasksMatch'
  BY DEF TasksMatch
<1>8. MessagesMatch'
  BY DEF MessagesMatch
<1>9. ReportsMatch'
  BY DEF ReportsMatch, TypeOK, Unfinished, TasksMatch
<1>10. SkipHasCause'
  BY DEF SkipHasCause
<1>11. PhaseMatches'
  BY DEF PhaseMatches, Unfinished, AllSucceeded
<1> QED
  BY <1>1, <1>2, <1>3, <1>4, <1>5, <1>6, <1>7, <1>8, <1>9, <1>10, <1>11

(* Finishing records the summary. *)
LEMMA FinishPreserves ==
  ASSUME IInv, FinishPipeline
  PROVE  IInv'
<1> USE DEF IInv, Resolved, scheduler, FinishPipeline
<1>1. TypeOK'
  BY DEF TypeOK, Phases, TaskStates, Reports, StepDone, AllSucceeded
<1>2. SetsDisjoint'
  BY DEF SetsDisjoint
<1>3. CountsExact'
  BY DEF CountsExact
<1>4. NoStepStuck'
  BY DEF NoStepStuck
<1>5. DependenciesResolved'
  BY DEF DependenciesResolved
<1>6. StartsAfterDependencies'
  BY DEF StartsAfterDependencies
<1>7. TasksMatch'
  BY DEF TasksMatch
<1>8. MessagesMatch'
  BY DEF MessagesMatch
<1>9. ReportsMatch'
  BY DEF ReportsMatch
<1>10. SkipHasCause'
  BY DEF SkipHasCause
<1>11. PhaseMatches'
  BY DEF PhaseMatches, Unfinished, AllSucceeded
<1> QED
  BY <1>1, <1>2, <1>3, <1>4, <1>5, <1>6, <1>7, <1>8, <1>9, <1>10, <1>11

(* A task reports: it was executing, so nothing depended on its report.    *)
LEMMA TaskReportsPreserves ==
  ASSUME IInv, NEW s \in Steps, TaskReports(s)
  PROVE  IInv'
<1> USE DEF IInv, Resolved, scheduler, TaskReports, Send, Goto
<1>1. SetsDisjoint' /\ CountsExact' /\ NoStepStuck' /\ DependenciesResolved'
  BY SchedulerUntouched
<1>2. TypeOK'
  BY DEF TypeOK, Phases, TaskStates, Reports, StepDone
<1>3. StartsAfterDependencies'
  BY DEF StartsAfterDependencies
<1>4. TasksMatch'
  BY DEF TasksMatch
<1>5. MessagesMatch'
  BY DEF MessagesMatch, TypeOK, TasksMatch, StepDone
<1>6. ReportsMatch'
  BY DEF ReportsMatch, TypeOK, TasksMatch
<1>7. SkipHasCause'
  BY DEF SkipHasCause, TypeOK, TasksMatch, SetsDisjoint
<1>8. PhaseMatches'
  BY DEF PhaseMatches, Unfinished, AllSucceeded
<1> QED
  BY <1>1, <1>2, <1>3, <1>4, <1>5, <1>6, <1>7, <1>8

(* Cancellation reports in the same way, after the deadline. *)
LEMMA TaskCancelledPreserves ==
  ASSUME IInv, NEW s \in Steps, TaskCancelled(s)
  PROVE  IInv'
<1> USE DEF IInv, Resolved, scheduler, TaskCancelled, Send, Goto
<1>1. SetsDisjoint' /\ CountsExact' /\ NoStepStuck' /\ DependenciesResolved'
  BY SchedulerUntouched
<1>2. TypeOK'
  BY DEF TypeOK, Phases, TaskStates, Reports, StepDone
<1>3. StartsAfterDependencies'
  BY DEF StartsAfterDependencies
<1>4. TasksMatch'
  BY DEF TasksMatch
<1>5. MessagesMatch'
  BY DEF MessagesMatch, TypeOK, TasksMatch, StepDone
<1>6. ReportsMatch'
  BY DEF ReportsMatch, TypeOK, TasksMatch
<1>7. SkipHasCause'
  BY DEF SkipHasCause
<1>8. PhaseMatches'
  BY DEF PhaseMatches, Unfinished, AllSucceeded
<1> QED
  BY <1>1, <1>2, <1>3, <1>4, <1>5, <1>6, <1>7, <1>8

(* A silent failure hands over an unsuccessful StepDone; the report stays. *)
LEMMA TaskFailsSilentlyPreserves ==
  ASSUME IInv, NEW s \in Steps, TaskFailsSilently(s)
  PROVE  IInv'
<1> USE DEF IInv, Resolved, scheduler, TaskFailsSilently, Goto
<1> DEFINE m == [id |-> s, success |-> FALSE]
<1>1. m \in StepDone /\ m.id = s /\ (m.success <=> FALSE)
  BY DEF StepDone
<1>2. done_rx' = done_rx \cup {m}
  OBVIOUS
<1> HIDE DEF m
<1>3. SetsDisjoint' /\ CountsExact' /\ NoStepStuck' /\ DependenciesResolved'
  BY SchedulerUntouched
<1>4. TypeOK'
  BY <1>1, <1>2 DEF TypeOK, Phases, TaskStates, Reports, StepDone
<1>5. StartsAfterDependencies'
  BY DEF StartsAfterDependencies
<1>6. TasksMatch'
  BY <1>1, <1>2 DEF TasksMatch, TypeOK
<1>7. MessagesMatch'
  BY <1>1, <1>2 DEF MessagesMatch, TasksMatch, ReportsMatch, TypeOK
<1>8. ReportsMatch'
  BY DEF ReportsMatch
<1>9. SkipHasCause'
  BY DEF SkipHasCause
<1>10. PhaseMatches'
  BY DEF PhaseMatches, Unfinished, AllSucceeded
<1> QED
  BY <1>3, <1>4, <1>5, <1>6, <1>7, <1>8, <1>9, <1>10

(* The StepDone of a task that has reported says what it reported. *)
LEMMA TaskEndsPreserves ==
  ASSUME IInv, NEW s \in Steps, TaskEnds(s)
  PROVE  IInv'
<1> USE DEF IInv, Resolved, scheduler, TaskEnds, Goto
<1> DEFINE m == [id |-> s, success |-> (report[s] = "succeeded")]
<1>1. m \in StepDone /\ m.id = s /\ (m.success <=> (report[s] = "succeeded"))
  BY DEF StepDone
<1>2. done_rx' = done_rx \cup {m}
  OBVIOUS
<1> HIDE DEF m
<1>3. SetsDisjoint' /\ CountsExact' /\ NoStepStuck' /\ DependenciesResolved'
  BY SchedulerUntouched
<1>4. TypeOK'
  BY <1>1, <1>2 DEF TypeOK, Phases, TaskStates, Reports, StepDone
<1>5. StartsAfterDependencies'
  BY DEF StartsAfterDependencies
<1>6. TasksMatch'
  BY <1>1, <1>2 DEF TasksMatch, TypeOK
<1>7. MessagesMatch'
  BY <1>1, <1>2 DEF MessagesMatch, TasksMatch, ReportsMatch, TypeOK
<1>8. ReportsMatch'
  BY DEF ReportsMatch
<1>9. SkipHasCause'
  BY DEF SkipHasCause
<1>10. PhaseMatches'
  BY DEF PhaseMatches, Unfinished, AllSucceeded
<1> QED
  BY <1>3, <1>4, <1>5, <1>6, <1>7, <1>8, <1>9, <1>10

(* After an abort tasks only end. *)
LEMMA TaskOrphanedPreserves ==
  ASSUME IInv, NEW s \in Steps, TaskOrphaned(s)
  PROVE  IInv'
<1> USE DEF IInv, Resolved, scheduler, TaskOrphaned, Goto
<1>1. SetsDisjoint' /\ CountsExact' /\ NoStepStuck' /\ DependenciesResolved'
  BY SchedulerUntouched
<1>2. TypeOK'
  BY DEF TypeOK, Phases, TaskStates, Reports, StepDone
<1>3. StartsAfterDependencies'
  BY DEF StartsAfterDependencies
<1>4. TasksMatch'
  BY DEF TasksMatch
<1>5. MessagesMatch'
  BY DEF MessagesMatch
<1>6. ReportsMatch'
  BY DEF ReportsMatch
<1>7. SkipHasCause'
  BY DEF SkipHasCause
<1>8. PhaseMatches'
  BY DEF PhaseMatches, Unfinished, AllSucceeded
<1> QED
  BY <1>1, <1>2, <1>3, <1>4, <1>5, <1>6, <1>7, <1>8

(* Skipping: the step, whose dependencies are resolved, becomes resolved,  *)
(* and ShouldSkip names the dependency that went wrong.                    *)
LEMMA SkipReadyPreserves ==
  ASSUME IInv, NEW s \in Steps, SkipReady(s)
  PROVE  IInv'
<1> USE DEF IInv, SkipReady, Looping, Send
<1>1. /\ s \in ready /\ s \notin Resolved /\ s \notin active_steps
      /\ DepsOf(dep_map, s) \subseteq Resolved
  BY DEF SetsDisjoint, DependenciesResolved
<1>2. /\ Resolved' = Resolved \cup {s}
      /\ active_steps' = active_steps \ {s}
  BY <1>1 DEF Resolved
<1>3. /\ CountsExact' /\ NoStepStuck' /\ DependenciesResolved'
      /\ remaining_deps' \in [Steps -> Nat] /\ ready' \subseteq Steps
      /\ ready' \cap active_steps' = {} /\ ready' \cap Resolved' = {}
  <2> DEFINE left == ready \ {s}
  <2>1. left \subseteq ready /\ ready \subseteq left \cup {s} /\ s \notin left
    OBVIOUS
  <2>2. UnblockDependents(s, left)
    OBVIOUS
  <2> HIDE DEF left
  <2> QED
    BY <1>1, <1>2, <2>1, <2>2, UnblockPreserves
<1>4. TypeOK'
  BY <1>3 DEF TypeOK, Reports
<1>5. SetsDisjoint'
  BY <1>1, <1>2, <1>3 DEF SetsDisjoint, Resolved
<1>6. task[s] = "unborn" /\ report[s] = "none"
  BY <1>1 DEF TasksMatch, ReportsMatch, Resolved, SetsDisjoint, TypeOK
<1>7. StartsAfterDependencies'
  BY <1>6 DEF StartsAfterDependencies, TypeOK
<1>8. TasksMatch'
  BY DEF TasksMatch
<1>9. MessagesMatch'
  BY <1>1 DEF MessagesMatch, TypeOK, StepDone
<1>10. ReportsMatch'
  BY <1>1, <1>6 DEF ReportsMatch, TypeOK, Resolved, SetsDisjoint
<1>11. SkipHasCause'
  <2>1. PICK d \in DepsOf(dep_map, s) : d \in failed \cup skipped
    BY DEF ShouldSkip
  <2>2. d \in Resolved /\ d # s /\ d \in Steps
    BY <1>1, <2>1 DEF TypeOK, Resolved
  <2>3. report[d] # "succeeded"
    BY <2>1, <2>2 DEF ReportsMatch, SetsDisjoint, Resolved
  <2>4. report'[d] # "succeeded" /\ d \in Resolved'
    BY <1>2, <2>2, <2>3 DEF TypeOK
  <2> QED
    BY <1>1, <1>2, <2>1, <2>4 DEF SkipHasCause, TypeOK
<1>12. PhaseMatches'
  BY DEF PhaseMatches
<1> QED
  BY <1>3, <1>4, <1>5, <1>7, <1>8, <1>9, <1>10, <1>11, <1>12

(* Recording: the message is of an active step, whose dependencies are     *)
(* resolved and whose task is over, and it tells what the client was told. *)
LEMMA RecordDonePreserves ==
  ASSUME IInv, NEW m \in StepDone, RecordDone(m)
  PROVE  IInv'
<1> USE DEF IInv, RecordDone, Waiting, Looping
<1>1. /\ m.id \in Steps /\ m.id \in active_steps
      /\ m.id \notin Resolved /\ m.id \notin ready
      /\ DepsOf(dep_map, m.id) \subseteq Resolved
  BY DEF SetsDisjoint, DependenciesResolved, MessagesMatch, StepDone
<1>2. Resolved' = Resolved \cup {m.id}
  BY DEF Resolved
<1>3. /\ CountsExact' /\ NoStepStuck' /\ DependenciesResolved'
      /\ remaining_deps' \in [Steps -> Nat] /\ ready' \subseteq Steps
      /\ ready' \cap active_steps' = {} /\ ready' \cap Resolved' = {}
  BY <1>1, <1>2, UnblockPreserves
<1>4. TypeOK'
  BY <1>1, <1>3 DEF TypeOK
<1>5. SetsDisjoint'
  BY <1>1, <1>2, <1>3 DEF SetsDisjoint, Resolved
<1>6. StartsAfterDependencies'
  BY DEF StartsAfterDependencies
<1>7. task[m.id] = "ended"
  BY <1>1 DEF TasksMatch
<1>8. TasksMatch'
  <2>1. \A n \in done_rx : n.id = m.id => n = m
    BY DEF MessagesMatch, TypeOK, StepDone
  <2> QED
    BY <1>1, <1>7, <2>1 DEF TasksMatch, MessagesMatch, TypeOK
<1>9. MessagesMatch'
  <2>1. \A n \in done_rx : n.id = m.id => n = m
    BY DEF MessagesMatch, TypeOK, StepDone
  <2> QED
    BY <2>1 DEF MessagesMatch
<1>10. ReportsMatch'
  BY <1>1, <1>7 DEF ReportsMatch, MessagesMatch, Resolved, SetsDisjoint
<1>11. SkipHasCause'
  BY <1>2 DEF SkipHasCause
<1>12. PhaseMatches'
  BY DEF PhaseMatches
<1> QED
  BY <1>3, <1>4, <1>5, <1>6, <1>8, <1>9, <1>10, <1>11, <1>12

-----------------------------------------------------------------------------
(* The invariant holds of every behaviour *)

(* One case per action; a step that changes nothing keeps the invariant.   *)
LEMMA NextPreserves ==
  ASSUME IInv, [Next]_vars
  PROVE  IInv'
<1>1. CASE Scheduler
  BY <1>1, BeginPreserves, TempDirFailsPreserves, LaunchReadyPreserves,
     LaunchFailsPreserves, SkipReadyPreserves, RecordDonePreserves,
     DrainDonePreserves, DeadlineHitsPreserves, SweepPreserves, FinishPreserves
     DEF Scheduler
<1>2. ASSUME NEW s \in Steps, StepTask(s)
      PROVE  IInv'
  BY <1>2, TaskReportsPreserves, TaskFailsSilentlyPreserves,
     TaskCancelledPreserves, TaskEndsPreserves, TaskOrphanedPreserves
     DEF StepTask
<1>3. CASE UNCHANGED vars
  BY <1>3
     DEF vars, scheduler, IInv, Resolved, TypeOK, SetsDisjoint, CountsExact,
         NoStepStuck, DependenciesResolved, StartsAfterDependencies, TasksMatch,
         MessagesMatch, ReportsMatch, SkipHasCause, PhaseMatches, Unfinished,
         AllSucceeded
<1> QED
  BY <1>1, <1>2, <1>3 DEF Next, Terminated

(* The inductive invariant holds in every reachable state of the scheduler. *)
THEOREM SchedulerInvariant == Spec => []IInv
<1>1. Init => IInv
  BY InitEstablishes
<1>2. IInv /\ [Next]_vars => IInv'
  BY NextPreserves
<1> QED
  BY <1>1, <1>2, PTL DEF Spec

(* The scheduler's state keeps its types; in particular a dependency       *)
(* counter, a usize, never goes below zero.                                *)
THEOREM TypeCorrect == Spec => []TypeOK
BY SchedulerInvariant, PTL DEF IInv

(* The counters of pipeline.rs count exactly the unresolved entries of     *)
(* depends_on until the deadline hits, repeated entries included.          *)
THEOREM CountersExact == Spec => []CountsExact
BY SchedulerInvariant, PTL DEF IInv

(* A step's executable is launched only after every step it depends on has *)
(* succeeded and its task is over.                                         *)
THEOREM LaunchedAfterDependencies == Spec => []StartsAfterDependencies
BY SchedulerInvariant, PTL DEF IInv

(* A step whose dependencies are resolved is always in one of the sets.    *)
THEOREM NeverStuck == Spec => []NoStepStuck
BY SchedulerInvariant, PTL DEF IInv

-----------------------------------------------------------------------------
(* What holds when the pipeline finishes *)

(* Within the deadline every step is resolved in the end: among the others *)
(* one would have no dependency left, as the request has no cycle, and     *)
(* such a step is never stuck.                                             *)
LEMMA AllResolvedAtFinish ==
  ASSUME IInv, phase = "finished", ~overall_timed_out
  PROVE  Resolved = Steps
<1>1. /\ DOMAIN dep_map = Steps /\ Acyclic(dep_map)
      /\ \A s \in Steps : dep_map[s] \in Seq(Steps) /\ DepsOf(dep_map, s) \subseteq Steps
  BY PipelineLists DEF IInv, TypeOK, Pipelines
<1>2. Resolved \subseteq Steps
  BY DEF IInv, TypeOK, Resolved
<1>3. ready = {} /\ active_steps = {}
  BY DEF IInv, PhaseMatches
<1>4. ASSUME Steps \ Resolved # {}
      PROVE  FALSE
  <2>1. PICK s \in Steps \ Resolved : DepsOf(dep_map, s) \cap (Steps \ Resolved) = {}
    BY <1>1, <1>4 DEF Acyclic
  <2>2. DepsOf(dep_map, s) \subseteq Resolved
    BY <1>1, <2>1
  <2>3. Pending(dep_map, Resolved, s) = {}
    BY <1>1, <2>2, ZeroIffResolved
  <2>4. s \in ready \cup active_steps \cup Resolved
    BY <2>3 DEF IInv, NoStepStuck
  <2> QED
    BY <1>3, <2>4
<1> QED
  BY <1>2, <1>4

LEMMA SkippedExactlyHolds == IInv => SkippedExactly
<1> SUFFICES ASSUME IInv, phase = "finished", ~overall_timed_out, NEW s \in Steps
             PROVE  report[s] = "skipped" <=>
                      \E d \in DepsOf(dep_map, s) : report[d] # "succeeded"
  BY DEF SkippedExactly
<1>1. report[s] = "skipped" => \E d \in DepsOf(dep_map, s) : report[d] # "succeeded"
  BY DEF IInv, ReportsMatch, SkipHasCause
<1>2. ASSUME NEW d \in DepsOf(dep_map, s), report[d] # "succeeded"
      PROVE  report[s] = "skipped"
  <2>1. task[s] = "unborn"
    BY <1>2 DEF IInv, StartsAfterDependencies
  <2>2. s \in skipped
    BY <2>1, AllResolvedAtFinish DEF IInv, TasksMatch, Resolved
  <2> QED
    BY <2>2 DEF IInv, ReportsMatch
<1> QED
  BY <1>1, <1>2

LEMMA NoStepForgottenHolds == IInv => NoStepForgotten
<1> SUFFICES ASSUME IInv, phase = "finished", NEW s \in Steps
             PROVE  \/ report[s] \in {"succeeded", "failed", "timed_out", "skipped"}
                    \/ Lost(s)
  BY DEF NoStepForgotten
<1>1. s \in completed \/ s \in skipped \/ s \in failed
  <2>1. CASE overall_timed_out
    BY <2>1 DEF IInv, PhaseMatches, Unfinished
  <2>2. CASE ~overall_timed_out
    BY <2>2, AllResolvedAtFinish DEF Resolved
  <2> QED
    BY <2>1, <2>2 DEF IInv, TypeOK
<1>2. CASE s \in completed
  BY <1>2 DEF IInv, TasksMatch, ReportsMatch, Lost
<1>3. CASE s \in skipped
  BY <1>3 DEF IInv, ReportsMatch
<1>4. CASE s \in failed /\ s \notin completed /\ s \notin skipped
  <2>1. task[s] = "unborn"
    BY <1>4 DEF IInv, TasksMatch, PhaseMatches
  <2> QED
    BY <1>4, <2>1 DEF IInv, ReportsMatch
<1> QED
  BY <1>1, <1>2, <1>3, <1>4

LEMMA NothingRunsHolds == IInv => NothingRunsAfterFinish
BY DEF IInv, NothingRunsAfterFinish, PhaseMatches, TasksMatch, TypeOK, TaskStates

LEMMA SummaryExactHolds == IInv => SummaryExact
<1> SUFFICES ASSUME IInv, phase = "finished"
             PROVE  /\ summary.all_succeeded <=>
                         ~overall_timed_out /\ \A s \in Steps : report[s] = "succeeded"
                    /\ summary.skipped_steps = {s \in Steps : report[s] = "skipped"}
  BY DEF SummaryExact
<1>1. /\ summary.skipped_steps = skipped
      /\ summary.all_succeeded <=> AllSucceeded
      /\ active_steps = {}
  BY DEF IInv, PhaseMatches
<1>2. skipped = {s \in Steps : report[s] = "skipped"}
  BY DEF IInv, ReportsMatch, TypeOK
<1>3. ASSUME AllSucceeded
      PROVE  ~overall_timed_out /\ \A s \in Steps : report[s] = "succeeded"
  <2>1. completed = Steps
    BY <1>3, StepsAssumption, FS_Subset DEF AllSucceeded, IInv, TypeOK
  <2>2. ~overall_timed_out
    BY <1>1, <1>3 DEF AllSucceeded, IInv, PhaseMatches
  <2> QED
    BY <1>3, <2>1, <2>2 DEF AllSucceeded, IInv, ReportsMatch
<1>4. ASSUME ~overall_timed_out, \A s \in Steps : report[s] = "succeeded"
      PROVE  AllSucceeded
  <2>1. skipped = {}
    BY <1>2, <1>4
  <2>2. completed = Steps
    BY <1>4, <2>1, AllResolvedAtFinish DEF Resolved
  <2>3. failed = {}
    BY <1>4, <2>2 DEF IInv, ReportsMatch, TypeOK
  <2> QED
    BY <2>1, <2>2, <2>3 DEF AllSucceeded
<1> QED
  BY <1>1, <1>2, <1>3, <1>4

(* When a pipeline finishes within its deadline, exactly the steps with a  *)
(* dependency that did not succeed were skipped: every independent branch  *)
(* was run to its end.                                                     *)
THEOREM FailurePolicy == Spec => []SkippedExactly
BY SchedulerInvariant, SkippedExactlyHolds, PTL

(* PipelineCompleted is sent only when every step has had its final event, *)
(* except those whose execution failed inside the service.                 *)
THEOREM NothingForgotten == Spec => []NoStepForgotten
BY SchedulerInvariant, NoStepForgottenHolds, PTL

(* PipelineCompleted tells exactly what the step events told.              *)
THEOREM SummaryIsExact == Spec => []SummaryExact
BY SchedulerInvariant, SummaryExactHolds, PTL

(* No step executes once PipelineCompleted has been sent and the exclusive *)
(* lock is about to be released.                                           *)
THEOREM QuietAfterFinish == Spec => []NothingRunsAfterFinish
BY SchedulerInvariant, NothingRunsHolds, PTL

-----------------------------------------------------------------------------
(* The scheduler implements the contract with the client *)

LEMMA InitRefines == Init => Contract!Init
<1> SUFFICES ASSUME Init PROVE Contract!Init
  OBVIOUS
<1>1. dep_map \in {g \in [Steps -> DepLists] : Contract!Acyclic(g)}
  BY DEF Init, Pipelines, Acyclic, DepsOf, Contract!Acyclic, Contract!DepsOf
<1>2. StatusSeen = [s \in Steps |-> "pending"]
  BY DEF Init, StatusSeen
<1> QED
  BY <1>1, <1>2 DEF Init, Contract!Init, OutcomeSeen

(* What the client has seen of a resolved step is settled, and it is       *)
(* "succeeded" exactly when that was reported.                             *)
LEMMA ResolvedIsSettled ==
  ASSUME IInv, NEW d \in Resolved
  PROVE  /\ StatusSeen[d] \in Contract!Settled
         /\ report[d] # "succeeded" => StatusSeen[d] \in Contract!Failures
<1>1. d \in Steps /\ (d \in completed => task[d] = "ended")
  BY DEF IInv, TypeOK, Resolved, TasksMatch
<1>2. report[d] \in {"started", "succeeded", "failed", "timed_out", "skipped"}
      /\ (report[d] = "started" => task[d] = "ended")
  BY <1>1 DEF IInv, ReportsMatch, Resolved
<1> QED
  BY <1>1, <1>2 DEF StatusSeen, Contract!Settled, Contract!Failures

LEMMA DepStatusSeen ==
  ASSUME NEW s \in Steps
  PROVE  Contract!DepStatus(s) = {StatusSeen[d] : d \in DepsOf(dep_map, s)}
BY DEF Contract!DepStatus, Contract!StatusOf, Contract!DepsOf, DepsOf

LEMMA LaunchRefines ==
  ASSUME IInv, NEW s \in Steps, LaunchReady(s)
  PROVE  Contract!Start(s)
<1> USE DEF LaunchReady, Looping, Send, Goto
<1>1. task[s] = "unborn" /\ report[s] = "none" /\ report \in [Steps -> Reports]
      /\ task \in [Steps -> TaskStates]
  BY DEF IInv, SetsDisjoint, TasksMatch, ReportsMatch, Resolved, TypeOK
<1>2. \A d \in DepsOf(dep_map, s) : report[d] = "succeeded" /\ d \in Steps
  <2>1. StartsAfterDependencies'
    BY LaunchReadyPreserves DEF IInv
  <2>2. \A d \in DepsOf(dep_map, s) : report'[d] = "succeeded"
    BY <1>1, <2>1 DEF StartsAfterDependencies
  <2>3. DepsOf(dep_map, s) \subseteq Steps /\ s \notin DepsOf(dep_map, s)
    BY PipelineLists
       DEF IInv, TypeOK, DependenciesResolved, SetsDisjoint
  <2> QED
    BY <1>1, <2>2, <2>3
<1>3. StatusSeen' = [StatusSeen EXCEPT ![s] = "running"]
  BY <1>1 DEF StatusSeen
<1>4. Contract!DepStatus(s) \subseteq {"succeeded"}
  BY <1>2, DepStatusSeen DEF StatusSeen
<1> QED
  BY <1>1, <1>3, <1>4 DEF Contract!Start, Contract!Move, OutcomeSeen, StatusSeen

LEMMA SkipRefines ==
  ASSUME IInv, NEW s \in Steps, SkipReady(s)
  PROVE  Contract!Skip(s)
<1> USE DEF SkipReady, Looping, Send
<1>1. task[s] = "unborn" /\ report[s] = "none" /\ report \in [Steps -> Reports]
  BY DEF IInv, SetsDisjoint, TasksMatch, ReportsMatch, Resolved, TypeOK
<1>2. StatusSeen' = [StatusSeen EXCEPT ![s] = "skipped"]
  BY <1>1 DEF StatusSeen
<1>3. DepsOf(dep_map, s) \subseteq Resolved
  BY DEF IInv, DependenciesResolved
<1>4. PICK d \in DepsOf(dep_map, s) : d \in failed \cup skipped
  BY DEF ShouldSkip
<1>5. report[d] # "succeeded"
  BY <1>3, <1>4 DEF IInv, TypeOK, ReportsMatch, SetsDisjoint, Resolved
<1>6. StatusSeen[d] \in Contract!Failures
  BY <1>3, <1>5, ResolvedIsSettled
<1>7. /\ Contract!DepStatus(s) \subseteq Contract!Settled
      /\ Contract!DepStatus(s) \cap Contract!Failures # {}
  BY <1>3, <1>6, ResolvedIsSettled, DepStatusSeen
<1> QED
  BY <1>1, <1>2, <1>7 DEF Contract!Skip, Contract!Move, OutcomeSeen, StatusSeen

(* The summary is sent when every step is settled, and it is the one the   *)
(* contract demands, since SummaryExact holds afterwards.                  *)
LEMMA FinishRefines ==
  ASSUME IInv, FinishPipeline
  PROVE  Contract!Close
<1> USE DEF FinishPipeline, scheduler
<1>1. IInv'
  BY FinishPreserves
<1>2. NoStepForgotten' /\ SummaryExact'
  BY <1>1, NoStepForgottenHolds, SummaryExactHolds, PTL
<1>3. StatusSeen' = StatusSeen
  BY DEF StatusSeen
<1>4. \A s \in Steps : /\ StatusSeen[s] \in Contract!Settled
                       /\ report[s] = "succeeded" <=> StatusSeen[s] = "succeeded"
                       /\ report[s] = "skipped" <=> StatusSeen[s] = "skipped"
  BY <1>2 DEF NoStepForgotten, Lost, StatusSeen, Contract!Settled, Contract!Failures
<1>5. /\ summary'.all_succeeded
           <=> ~overall_timed_out /\ Contract!StatusOf(Steps) \subseteq {"succeeded"}
      /\ summary'.skipped_steps = {s \in Steps : StatusSeen[s] = "skipped"}
  BY <1>2, <1>4 DEF SummaryExact, Contract!StatusOf
<1>6. summary'.all_succeeded \in BOOLEAN
  BY <1>1 DEF IInv, TypeOK
<1>7. Contract!StatusOf(Steps) \subseteq Contract!Settled
  BY <1>4 DEF Contract!StatusOf
<1> QED
  BY <1>3, <1>5, <1>6, <1>7 DEF Contract!Close, OutcomeSeen

(* The remaining actions of the loop send nothing about a single step,     *)
(* except the sweep, which times out a step that was never launched.       *)
LEMMA SweepRefines ==
  ASSUME IInv, NEW s \in Steps, SweepUnfinished(s)
  PROVE  Contract!TimeOut(s)
<1> USE DEF SweepUnfinished, Send
<1>1. task[s] = "unborn" /\ report[s] = "none" /\ report \in [Steps -> Reports]
  BY DEF IInv, TasksMatch, ReportsMatch, TypeOK, Unfinished
<1>2. StatusSeen' = [StatusSeen EXCEPT ![s] = "timed_out"]
  BY <1>1 DEF StatusSeen
<1> QED
  BY <1>1, <1>2 DEF Contract!TimeOut, Contract!Move, OutcomeSeen, StatusSeen

LEMMA LoopRefines ==
  ASSUME IInv,
         \/ Begin \/ TempDirFails \/ DeadlineHits
         \/ \E s \in Steps : LaunchFails(s)
         \/ \E m \in StepDone : RecordDone(m) \/ DrainDone(m)
  PROVE  Contract!Abort \/ Contract!Expire \/ UNCHANGED Contract!vars
<1>1. StatusSeen' = StatusSeen
  BY DEF Begin, TempDirFails, DeadlineHits, LaunchFails, RecordDone, DrainDone,
         StatusSeen
<1> QED
  BY <1>1 DEF Begin, TempDirFails, DeadlineHits, LaunchFails, RecordDone,
     DrainDone, Waiting, Looping, OutcomeSeen, Contract!Abort, Contract!Expire,
     Contract!vars

(* A step task moves its step from "running", or only hands over its       *)
(* StepDone, which the client does not see.                                *)
LEMMA TaskRefines ==
  ASSUME IInv, NEW s \in Steps, StepTask(s)
  PROVE  \/ Contract!Complete(s) \/ Contract!Lose(s) \/ Contract!TimeOut(s)
         \/ UNCHANGED Contract!vars
<1> USE DEF Send, Goto
<1>1. /\ report \in [Steps -> Reports] /\ task \in [Steps -> TaskStates]
      /\ task[s] = "executing" => report[s] = "started"
      /\ task[s] = "reported" => report[s] \in {"succeeded", "failed", "timed_out"}
  BY DEF IInv, TypeOK, ReportsMatch
<1>2. CASE TaskReports(s)
  <2>1. PICK event \in {"succeeded", "failed"} : report' = [report EXCEPT ![s] = event]
    BY <1>2 DEF TaskReports
  <2>2. StatusSeen' = [StatusSeen EXCEPT ![s] = event]
    BY <1>1, <1>2, <2>1 DEF TaskReports, StatusSeen
  <2>3. StatusSeen[s] = "running"
    BY <1>1, <1>2 DEF TaskReports, StatusSeen
  <2> QED
    BY <1>2, <2>2, <2>3 DEF TaskReports, Contract!Complete, Contract!Move, OutcomeSeen
<1>3. CASE TaskFailsSilently(s)
  <2>1. StatusSeen' = [StatusSeen EXCEPT ![s] = "lost"]
    BY <1>1, <1>3 DEF TaskFailsSilently, StatusSeen
  <2>2. StatusSeen[s] = "running"
    BY <1>1, <1>3 DEF TaskFailsSilently, StatusSeen
  <2> QED
    BY <1>3, <2>1, <2>2 DEF TaskFailsSilently, Contract!Lose, Contract!Move, OutcomeSeen
<1>4. CASE TaskCancelled(s)
  <2>1. StatusSeen' = [StatusSeen EXCEPT ![s] = "timed_out"]
    BY <1>1, <1>4 DEF TaskCancelled, StatusSeen
  <2>2. StatusSeen[s] = "running"
    BY <1>1, <1>4 DEF TaskCancelled, StatusSeen
  <2> QED
    BY <1>4, <2>1, <2>2 DEF TaskCancelled, Contract!TimeOut, Contract!Move, OutcomeSeen
<1>5. CASE TaskEnds(s)
  <2>1. StatusSeen' = StatusSeen
    BY <1>1, <1>5 DEF TaskEnds, StatusSeen
  <2> QED
    BY <1>5, <2>1 DEF TaskEnds, Contract!vars, OutcomeSeen
<1>6. CASE TaskOrphaned(s)
  <2>1. CASE task[s] = "executing"
    <3>1. StatusSeen' = [StatusSeen EXCEPT ![s] = "lost"]
      BY <1>1, <1>6, <2>1 DEF TaskOrphaned, StatusSeen
    <3>2. StatusSeen[s] = "running"
      BY <1>1, <2>1 DEF StatusSeen
    <3> QED
      BY <1>6, <3>1, <3>2 DEF TaskOrphaned, Contract!Lose, Contract!Move, OutcomeSeen
  <2>2. CASE task[s] = "reported"
    <3>1. StatusSeen' = StatusSeen
      BY <1>1, <1>6, <2>2 DEF TaskOrphaned, StatusSeen
    <3> QED
      BY <1>6, <3>1 DEF TaskOrphaned, Contract!vars, OutcomeSeen
  <2> QED
    BY <1>6, <2>1, <2>2 DEF TaskOrphaned
<1> QED
  BY <1>2, <1>3, <1>4, <1>5, <1>6 DEF StepTask

LEMMA NextRefines ==
  ASSUME IInv, [Next]_vars
  PROVE  [Contract!Next]_Contract!vars
<1>1. CASE Scheduler
  <2>1. ASSUME NEW s \in Steps, LaunchReady(s) \/ SkipReady(s) \/ SweepUnfinished(s)
        PROVE  Contract!StepMoves(s)
    BY <2>1, LaunchRefines, SkipRefines, SweepRefines DEF Contract!StepMoves
  <2> QED
    BY <1>1, <2>1, LoopRefines, FinishRefines DEF Scheduler, Contract!Next
<1>2. ASSUME NEW s \in Steps, StepTask(s)
      PROVE  [Contract!Next]_Contract!vars
  BY <1>2, TaskRefines DEF Contract!Next, Contract!StepMoves
<1>3. CASE UNCHANGED vars
  BY <1>3 DEF vars, scheduler, Contract!vars, StatusSeen, OutcomeSeen
<1> QED
  BY <1>1, <1>2, <1>3 DEF Next, Terminated

(* Whatever the scheduler loop and the step tasks send, in any order, is   *)
(* allowed by the contract with the client.                                *)
THEOREM ImplementsContract == Spec => KeepsContract
<1>1. Init => Contract!Init
  BY InitRefines
<1>2. IInv /\ [Next]_vars => [Contract!Next]_Contract!vars
  BY NextRefines
<1> QED
  BY <1>1, <1>2, SchedulerInvariant, PTL DEF Spec, KeepsContract, Contract!Spec
==============================================================================
