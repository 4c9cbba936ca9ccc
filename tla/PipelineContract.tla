--------------------------- MODULE PipelineContract ---------------------------
(***************************************************************************)
(* What RunPipeline promises to its client, without saying how: the status *)
(* every step goes through, which steps may start and which are skipped,   *)
(* and what the closing PipelineCompleted says.  PipelineScheduler, which  *)
(* models the loop of service/src/pipeline.rs, implements this.            *)
(*                                                                         *)
(* "lost" is a status the client cannot tell from "running": the step      *)
(* started, its execution failed inside the service, and the stream        *)
(* carries no RunCompleted for it (run_step_task only logs the error).     *)
(***************************************************************************)
EXTENDS DependencyGraph

CONSTANTS Steps,      \* the step ids of the request
          DepLists    \* the `depends_on` lists a step may carry

VARIABLES dep_map,        \* the request's dependencies; never changes
          status,         \* what the client has been told of every step
          expired,        \* the pipeline's overall deadline has passed
          outcome,        \* the stream is "open", "complete" or broken off by an "error"
          all_succeeded,  \* the verdict of PipelineCompleted
          skipped_steps   \* the list of PipelineCompleted

vars == <<dep_map, status, expired, outcome, all_succeeded, skipped_steps>>

Failures == {"failed", "timed_out", "skipped", "lost"}
Settled  == Failures \cup {"succeeded"}
Statuses == Settled \cup {"pending", "running"}

StatusOf(S) == {status[s] : s \in S}
DepStatus(s) == StatusOf(DepsOf(dep_map, s))

Init ==
    /\ dep_map \in {g \in [Steps -> DepLists] : Acyclic(g)}
    /\ status = [s \in Steps |-> "pending"]
    /\ expired = FALSE
    /\ outcome = "open"
    /\ all_succeeded = FALSE
    /\ skipped_steps = {}

Move(s, new) ==
    /\ status' = [status EXCEPT ![s] = new]
    /\ UNCHANGED <<dep_map, expired, outcome, all_succeeded, skipped_steps>>

(* A step starts only after everything it depends on has succeeded. *)
Start(s) ==
    /\ outcome = "open" /\ ~expired
    /\ status[s] = "pending"
    /\ DepStatus(s) \subseteq {"succeeded"}
    /\ Move(s, "running")

(* A step is skipped when its dependencies are settled and one went wrong. *)
Skip(s) ==
    /\ outcome = "open" /\ ~expired
    /\ status[s] = "pending"
    /\ DepStatus(s) \subseteq Settled
    /\ DepStatus(s) \cap Failures # {}
    /\ Move(s, "skipped")

Complete(s) ==
    /\ outcome = "open"
    /\ status[s] = "running"
    /\ \E new \in {"succeeded", "failed"} : Move(s, new)

Lose(s) ==
    /\ outcome # "complete"
    /\ status[s] = "running"
    /\ Move(s, "lost")

Expire ==
    /\ outcome = "open" /\ ~expired
    /\ expired' = TRUE
    /\ UNCHANGED <<dep_map, status, outcome, all_succeeded, skipped_steps>>

(* Once the deadline has passed, what has not settled is timed out. *)
TimeOut(s) ==
    /\ outcome = "open" /\ expired
    /\ status[s] \in {"pending", "running"}
    /\ Move(s, "timed_out")

(* The closing summary comes when every step has settled, and is exact. *)
Close ==
    /\ outcome = "open"
    /\ StatusOf(Steps) \subseteq Settled
    /\ outcome' = "complete"
    /\ all_succeeded' = (~expired /\ StatusOf(Steps) \subseteq {"succeeded"})
    /\ skipped_steps' = {s \in Steps : status[s] = "skipped"}
    /\ UNCHANGED <<dep_map, status, expired>>

Abort ==
    /\ outcome = "open"
    /\ outcome' = "error"
    /\ UNCHANGED <<dep_map, status, expired, all_succeeded, skipped_steps>>

StepMoves(s) ==
    Start(s) \/ Skip(s) \/ Complete(s) \/ Lose(s) \/ TimeOut(s)

Next == (\E s \in Steps : StepMoves(s)) \/ Expire \/ Close \/ Abort

Spec == Init /\ [][Next]_vars
==============================================================================
