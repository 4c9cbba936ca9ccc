-------------------------- MODULE PipelineScheduler --------------------------
(***************************************************************************)
(* The scheduler loop of RunPipeline (service/src/pipeline.rs): the        *)
(* SchedulerState, run_pipeline_task that drives it, and one task per step *)
(* (run_step_task), seen from the scheduler: it reports to the client and  *)
(* hands a StepDone to the loop.                                           *)
(*                                                                         *)
(* The loop is one asynchronous task.  An action of this module is what it *)
(* does up to and including one send to the client; the step tasks run     *)
(* between two such sends.  Queues are sets here, so that any order of the *)
(* ready queue and of the done channel is covered; module RunPipeline adds *)
(* the channels with their capacities, the executors and the client.  Time *)
(* is abstract: the deadline may hit whenever the loop looks at it.        *)
(***************************************************************************)
EXTENDS DependencyGraph

CONSTANTS Steps,      \* the step ids of the request
          DepLists    \* the `depends_on` lists a step may carry

ASSUME DepListsAssumption == DepLists \subseteq Seq(Steps)
ASSUME StepsAssumption == IsFiniteSet(Steps)

VARIABLES
    dep_map,            \* the validated request; never changes
    ready,              \* SchedulerState.ready
    active_steps,       \* SchedulerState.active_steps
    completed,          \* SchedulerState.completed
    failed,             \* SchedulerState.failed
    skipped,            \* SchedulerState.skipped
    remaining_deps,     \* SchedulerState.remaining_deps
    overall_timed_out,  \* local of run_pipeline_task
    phase,              \* where run_pipeline_task is
    task,               \* where every step's run_step_task is
    done_rx,            \* the StepDone messages not received yet
    report,             \* the last lifecycle event sent for every step
    summary             \* what PipelineCompleted said

scheduler == <<ready, active_steps, completed, failed, skipped, remaining_deps>>
vars == <<dep_map, scheduler, overall_timed_out, phase, task, done_rx,
          report, summary>>

Phases    == {"starting", "running", "finished", "aborted"}
TaskStates == {"unborn", "executing", "reported", "ended"}
Reports   == {"none", "started", "succeeded", "failed", "timed_out", "skipped"}
StepDone  == [id : Steps, success : BOOLEAN]

(* A request that validate_pipeline has accepted. *)
Pipelines == {g \in [Steps -> DepLists] : Acyclic(g)}

Init ==
    /\ dep_map \in Pipelines
    /\ ready = InitialReady(dep_map)
    /\ active_steps = {}
    /\ completed = {}
    /\ failed = {}
    /\ skipped = {}
    /\ remaining_deps = InitialCounts(dep_map)
    /\ overall_timed_out = FALSE
    /\ phase = "starting"
    /\ task = [s \in Steps |-> "unborn"]
    /\ done_rx = {}
    /\ report = [s \in Steps |-> "none"]
    /\ summary = [all_succeeded |-> FALSE, skipped_steps |-> {}]

Send(s, event) == report' = [report EXCEPT ![s] = event]
Goto(s, state) == task' = [task EXCEPT ![s] = state]

(* Two slips to be caught: a skipped dependency is overlooked, or all the  *)
(* dependencies must have gone wrong where any one should do.              *)
ShouldSkipOnFailureOnly(s) == DepsOf(dep_map, s) \cap failed # {}
ShouldSkipIfAllWrong(s) ==
    DepsOf(dep_map, s) # {} /\ DepsOf(dep_map, s) \subseteq failed \cup skipped

ShouldSkip(s) == DepsOf(dep_map, s) \cap (failed \cup skipped) # {}

(* A slip to be caught: a failed step unblocks nobody. *)
UnblockUnlessFailed(s, left) ==
    LET exempt == IF s \in failed' THEN Steps ELSE completed' \cup skipped'
    IN  /\ remaining_deps' = Decremented(dep_map, remaining_deps, exempt, s)
        /\ ready' = left \cup Unblocked(dep_map, remaining_deps, exempt, s)

(* The second half of skip_step and record_step_done: s has just been put  *)
(* in completed' or skipped'; `left` is the ready queue without s.         *)
UnblockDependents(s, left) ==
    LET exempt == completed' \cup skipped'
    IN  /\ remaining_deps' = Decremented(dep_map, remaining_deps, exempt, s)
        /\ ready' = left \cup Unblocked(dep_map, remaining_deps, exempt, s)

Unfinished == Steps \ (completed \cup failed \cup skipped)

(* A slip to be caught: failed steps are completed too. *)
AllCompleted == skipped = {} /\ Cardinality(completed) = Cardinality(Steps)

AllSucceeded ==
    failed = {} /\ skipped = {} /\ Cardinality(completed) = Cardinality(Steps)

-----------------------------------------------------------------------------
(* The scheduler task *)

(* PipelineStarted is sent and the temporary directory made. *)
Begin ==
    /\ phase = "starting"
    /\ phase' = "running"
    /\ UNCHANGED <<dep_map, scheduler, overall_timed_out, task, done_rx,
                   report, summary>>

TempDirFails ==
    /\ phase = "starting"
    /\ phase' = "aborted"
    /\ UNCHANGED <<dep_map, scheduler, overall_timed_out, task, done_rx,
                   report, summary>>

Looping == phase = "running" /\ ~overall_timed_out

LaunchReady(s) ==
    /\ Looping
    /\ s \in ready /\ ~ShouldSkip(s)
    /\ ready' = ready \ {s}
    /\ active_steps' = active_steps \cup {s}
    /\ Goto(s, "executing")
    /\ Send(s, "started")
    /\ UNCHANGED <<dep_map, completed, failed, skipped, remaining_deps,
                   overall_timed_out, phase, done_rx, summary>>

(* The step's directory cannot be made or filled: the error ends the       *)
(* stream, run_pipeline_task returns, and the cancel senders are dropped   *)
(* with the SchedulerState.                                                *)
LaunchFails(s) ==
    /\ Looping
    /\ s \in ready /\ ~ShouldSkip(s)
    /\ ready' = ready \ {s}
    /\ phase' = "aborted"
    /\ UNCHANGED <<dep_map, active_steps, completed, failed, skipped,
                   remaining_deps, overall_timed_out, task, done_rx, report,
                   summary>>

SkipReady(s) ==
    /\ Looping
    /\ s \in ready /\ ShouldSkip(s)
    /\ skipped' = skipped \cup {s}
    /\ UNCHANGED <<active_steps, completed, failed>>
    /\ Send(s, "skipped")
    /\ UnblockDependents(s, ready \ {s})
    /\ UNCHANGED <<dep_map, overall_timed_out, phase, task, done_rx, summary>>

Waiting == Looping /\ ready = {} /\ active_steps # {}

RecordDone(m) ==
    /\ Waiting
    /\ m \in done_rx
    /\ done_rx' = done_rx \ {m}
    /\ active_steps' = active_steps \ {m.id}
    /\ completed' = completed \cup {m.id}
    /\ failed' = IF m.success THEN failed ELSE failed \cup {m.id}
    /\ skipped' = skipped
    /\ UnblockDependents(m.id, ready)
    /\ UNCHANGED <<dep_map, overall_timed_out, phase, task, report, summary>>

(* The deadline is seen before the wait or during it; cancel_steps is      *)
(* drained, which lets TaskCancelled happen.                               *)
DeadlineHits ==
    /\ Waiting
    /\ overall_timed_out' = TRUE
    /\ UNCHANGED <<dep_map, scheduler, phase, task, done_rx, report, summary>>

(* cancel_unfinished_steps waits for the active steps: nothing is unblocked *)
(* and every one of them counts as failed, whatever it reported.            *)
DrainDone(m) ==
    /\ phase = "running" /\ overall_timed_out
    /\ m \in done_rx
    /\ done_rx' = done_rx \ {m}
    /\ active_steps' = active_steps \ {m.id}
    /\ completed' = completed \cup {m.id}
    /\ failed' = failed \cup {m.id}
    /\ UNCHANGED <<dep_map, ready, skipped, remaining_deps, overall_timed_out,
                   phase, task, report, summary>>

SweepUnfinished(s) ==
    /\ phase = "running" /\ overall_timed_out /\ active_steps = {}
    /\ s \in Unfinished
    /\ failed' = failed \cup {s}
    /\ Send(s, "timed_out")
    /\ UNCHANGED <<dep_map, ready, active_steps, completed, skipped,
                   remaining_deps, overall_timed_out, phase, task, done_rx,
                   summary>>

FinishPipeline ==
    /\ phase = "running"
    /\ ready = {} /\ active_steps = {}
    /\ overall_timed_out => Unfinished = {}
    /\ phase' = "finished"
    /\ summary' = [all_succeeded |-> AllSucceeded, skipped_steps |-> skipped]
    /\ UNCHANGED <<dep_map, scheduler, overall_timed_out, task, done_rx, report>>

-----------------------------------------------------------------------------
(* The task of step s *)

(* The executor's Completed event reaches the client; the step succeeded   *)
(* when its status is COMPLETED and its exit code 0.                       *)
TaskReports(s) ==
    /\ phase = "running"
    /\ task[s] = "executing"
    /\ \E event \in {"succeeded", "failed"} : Send(s, event)
    /\ Goto(s, "reported")
    /\ UNCHANGED <<dep_map, scheduler, overall_timed_out, phase, done_rx, summary>>

(* run_streaming returns an error: it is logged, nothing is sent, and the  *)
(* closed event channel ends the task with success = false.                *)
TaskFailsSilently(s) ==
    /\ phase = "running"
    /\ task[s] = "executing"
    /\ Goto(s, "ended")
    /\ done_rx' = done_rx \cup {[id |-> s, success |-> FALSE]}
    /\ UNCHANGED <<dep_map, scheduler, overall_timed_out, phase, report, summary>>

(* A slip to be caught: completed_sent is not looked at. *)
TaskCancelledTwice(s) ==
    /\ phase = "running" /\ overall_timed_out
    /\ task[s] \in {"executing", "reported"} /\ report[s] # "timed_out"
    /\ Goto(s, "reported")
    /\ Send(s, "timed_out")
    /\ UNCHANGED <<dep_map, scheduler, overall_timed_out, phase, done_rx, summary>>

TaskCancelled(s) ==
    /\ phase = "running" /\ overall_timed_out
    /\ task[s] = "executing"
    /\ Goto(s, "reported")
    /\ Send(s, "timed_out")
    /\ UNCHANGED <<dep_map, scheduler, overall_timed_out, phase, done_rx, summary>>

TaskEnds(s) ==
    /\ phase = "running"
    /\ task[s] = "reported"
    /\ Goto(s, "ended")
    /\ done_rx' = done_rx \cup {[id |-> s, success |-> report[s] = "succeeded"]}
    /\ UNCHANGED <<dep_map, scheduler, overall_timed_out, phase, report, summary>>

(* After an abort the task finds its cancel sender dropped, or finishes,   *)
(* but the stream and the done channel have no reader any more.            *)
TaskOrphaned(s) ==
    /\ phase = "aborted"
    /\ task[s] \in {"executing", "reported"}
    /\ Goto(s, "ended")
    /\ UNCHANGED <<dep_map, scheduler, overall_timed_out, phase, done_rx,
                   report, summary>>

-----------------------------------------------------------------------------
Scheduler ==
    \/ Begin \/ TempDirFails
    \/ \E s \in Steps : LaunchReady(s) \/ LaunchFails(s) \/ SkipReady(s)
    \/ \E m \in StepDone : RecordDone(m) \/ DrainDone(m)
    \/ DeadlineHits
    \/ \E s \in Steps : SweepUnfinished(s)
    \/ FinishPipeline

StepTask(s) ==
    \/ TaskReports(s) \/ TaskFailsSilently(s)
    \/ TaskCancelled(s) \/ TaskEnds(s) \/ TaskOrphaned(s)

Ended ==
    /\ phase \in {"finished", "aborted"}
    /\ \A s \in Steps : task[s] \in {"unborn", "ended"}

(* Nothing is left to do; a behaviour may stop here and nowhere else. *)
Terminated == Ended /\ UNCHANGED vars

Next == Scheduler \/ (\E s \in Steps : StepTask(s)) \/ Terminated

Spec == Init /\ [][Next]_vars

-----------------------------------------------------------------------------
(* Properties *)

TypeOK ==
    /\ dep_map \in Pipelines
    /\ ready \subseteq Steps
    /\ active_steps \subseteq Steps
    /\ completed \subseteq Steps
    /\ failed \subseteq Steps
    /\ skipped \subseteq Steps
    /\ remaining_deps \in [Steps -> Nat]
    /\ overall_timed_out \in BOOLEAN
    /\ phase \in Phases
    /\ task \in [Steps -> TaskStates]
    /\ done_rx \subseteq StepDone
    /\ report \in [Steps -> Reports]
    /\ summary \in [all_succeeded : BOOLEAN, skipped_steps : SUBSET Steps]

Resolved == completed \cup skipped

(* A step whose execution failed inside the service: it started, it is     *)
(* over, and the client was told nothing more.                             *)
Lost(s) == report[s] = "started" /\ task[s] = "ended"

(* Until the deadline hits, the counter of every step is exactly the       *)
(* number of its depends_on entries that are not resolved: with repeated   *)
(* entries it neither stays above zero for ever nor drops below zero       *)
(* (`*remaining -= 1` on a usize).                                         *)
CountsExact ==
    ~overall_timed_out =>
        \A s \in Steps : remaining_deps[s] = Cardinality(Pending(dep_map, Resolved, s))

(* No step falls between the scheduler's sets: one whose dependencies are  *)
(* all resolved is ready, active or itself resolved.                       *)
NoStepStuck ==
    ~overall_timed_out /\ phase # "aborted" =>
        \A s \in Steps :
            \/ s \in ready \cup active_steps \cup Resolved
            \/ Pending(dep_map, Resolved, s) # {}

(* A step's task exists only if everything the step depends on has         *)
(* succeeded and its task is over, so that its outputs can be copied.      *)
StartsAfterDependencies ==
    \A s \in Steps : task[s] # "unborn" =>
        \A d \in DepsOf(dep_map, s) : report[d] = "succeeded" /\ task[d] = "ended"

(* When the pipeline finishes within its deadline, the skipped steps are   *)
(* exactly those with a dependency that did not succeed: independent       *)
(* branches all ran, and no step with a failed ancestor did.               *)
SkippedExactly ==
    phase = "finished" /\ ~overall_timed_out =>
        \A s \in Steps :
            report[s] = "skipped" <=>
                \E d \in DepsOf(dep_map, s) : report[d] # "succeeded"

(* When PipelineCompleted is sent, no step is still waiting or running:    *)
(* the client has had a final event for it, or it is lost.                 *)
NoStepForgotten ==
    phase = "finished" =>
        \A s \in Steps :
            \/ report[s] \in {"succeeded", "failed", "timed_out", "skipped"}
            \/ Lost(s)

(* PipelineCompleted agrees with the events sent before it: all_succeeded  *)
(* is true exactly when the deadline was met and every step was reported   *)
(* successful, and skipped_steps are those reported skipped.               *)
SummaryExact ==
    phase = "finished" =>
        /\ summary.all_succeeded <=>
               ~overall_timed_out /\ \A s \in Steps : report[s] = "succeeded"
        /\ summary.skipped_steps = {s \in Steps : report[s] = "skipped"}

(* The lock's guard lives in run_pipeline_task: when it returns after a    *)
(* PipelineCompleted, no step is left executing.                           *)
NothingRunsAfterFinish ==
    phase = "finished" => \A s \in Steps : task[s] \in {"unborn", "ended"}

-----------------------------------------------------------------------------
(* Refinement of the promise to the client *)

StatusSeen ==
    [s \in Steps |->
        CASE report[s] = "none" -> "pending"
          [] report[s] = "started" -> IF task[s] = "ended" THEN "lost" ELSE "running"
          [] OTHER -> report[s]]

OutcomeSeen ==
    CASE phase = "finished" -> "complete"
      [] phase = "aborted" -> "error"
      [] OTHER -> "open"

Contract == INSTANCE PipelineContract WITH
    status <- StatusSeen,
    expired <- overall_timed_out,
    outcome <- OutcomeSeen,
    all_succeeded <- summary.all_succeeded,
    skipped_steps <- summary.skipped_steps

(* Everything the loop sends is allowed by the contract with the client.   *)
KeepsContract == Contract!Spec
==============================================================================
