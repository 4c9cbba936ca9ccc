----------------------------- MODULE RunPipeline -----------------------------
(***************************************************************************)
(* A whole RunPipeline (service/src/pipeline.rs): the scheduler loop of    *)
(* PipelineScheduler together with what connects it to the rest, namely    *)
(* the bounded channels to the client and back from the step tasks; every  *)
(* step's run_step_task with its executor::run_streaming; and the client   *)
(* that puts the interleaved stream together again (client/rust/src/       *)
(* session.rs, run_pipeline_with_timeout; the Python client does the same).*)
(*                                                                         *)
(* An action of the scheduler, or of a step task as the scheduler sees it, *)
(* is the action of PipelineScheduler together with its send, which waits  *)
(* for room in the channel.  The executable may hang for ever.             *)
(***************************************************************************)
EXTENDS PipelineScheduler

CONSTANTS
    OutCap,      \* capacity of the channel to the client (64)
    DoneCap,     \* capacity of the done channel (32)
    EventCap,    \* capacity of a step's event channel (32)
    MaxOutputs,  \* bound: output chunks of a step
    FileLists    \* outcome.files: the numbers of chunks of its output files

ASSUME Capacities == {OutCap, DoneCap, EventCap} \subseteq Nat \ {0}
ASSUME FileListsAssumption == FileLists \subseteq Seq(Nat \ {0})

VARIABLES
    announced,  \* PipelineStarted has been sent
    exec,       \* every step's run_streaming: unborn, running, returned, killed
    outputs,    \* output chunks it has sent
    events,     \* event_tx / event_rx of every step
    place,      \* where every run_step_task is
    hand,       \* the event it is handling
    sizes,      \* outcome.files: the chunks each output file has
    at,         \* <<file, chunk>> it streams next
    broken,     \* history: <<step, file>> whose streaming failed
    out,        \* out_tx / out_rx
    client,     \* reading, gone, failed or done
    result,     \* what the client has put together of every step
    verdict     \* what PipelineCompleted told it

executors == <<exec, outputs>>
tasks     == <<place, hand, sizes, at, broken>>
caller    == <<client, result, verdict>>
RunVars   == <<vars, announced, executors, events, tasks, out, caller>>

Begun             == [kind |-> "begun"]
Error             == [kind |-> "error"]
Closed(what)      == [kind |-> "closed", summary |-> what]
Started(s)        == [kind |-> "started", step |-> s]
Output(s)         == [kind |-> "output", step |-> s]
Completed(s, how) == [kind |-> "completed", step |-> s, status |-> how]
FileChunk(s, name, data) == [kind |-> "file", step |-> s, name |-> name, data |-> data]

NoName  == 0     \* later chunks of a file leave its name empty
Nothing == [kind |-> "nothing"]
Fresh   == [phase |-> "none", status |-> "unspecified",
            files |-> [f \in {} |-> <<>>], current |-> NoName, data |-> <<>>]

RunInit ==
    /\ Init
    /\ announced = FALSE
    /\ exec = [s \in Steps |-> "unborn"]
    /\ outputs = [s \in Steps |-> 0]
    /\ events = [s \in Steps |-> <<>>]
    /\ place = [s \in Steps |-> "unborn"]
    /\ hand = [s \in Steps |-> Nothing]
    /\ sizes = [s \in Steps |-> <<>>]
    /\ at = [s \in Steps |-> <<1, 1>>]
    /\ broken = {}
    /\ out = <<>>
    /\ client = "reading"
    /\ result = [s \in Steps |-> Fresh]
    /\ verdict = summary

(* Slip: the channel has no bound. *)
ToClientUnbounded(msg) ==
    \/ client \in {"gone", "failed"} /\ UNCHANGED out
    \/ client = "reading" /\ out' = Append(out, msg)

(* send_output: it waits for room, or fails at once if nobody listens. *)
ToClient(msg) ==
    \/ client \in {"gone", "failed"} /\ UNCHANGED out
    \/ client = "reading" /\ Len(out) < OutCap /\ out' = Append(out, msg)

-----------------------------------------------------------------------------
(* The scheduler *)

Announce ==
    /\ phase = "starting" /\ ~announced
    /\ announced' = TRUE
    /\ ToClient(Begun)
    /\ UNCHANGED <<vars, executors, events, tasks, caller>>

MakeTempDir ==
    /\ announced
    /\ \/ Begin /\ UNCHANGED out
       \/ TempDirFails /\ ToClient(Error)
    /\ UNCHANGED <<announced, executors, events, tasks, caller>>

Launch(s) ==
    /\ LaunchReady(s)
    /\ ToClient(Started(s))
    /\ exec' = [exec EXCEPT ![s] = "running"]
    /\ place' = [place EXCEPT ![s] = "selecting"]
    /\ UNCHANGED <<announced, outputs, events, hand, sizes, at, broken, caller>>

Tell ==
    /\ \/ \E s \in Steps : LaunchFails(s) /\ ToClient(Error)
       \/ \E s \in Steps : SkipReady(s) /\ ToClient(Completed(s, "skipped"))
       \/ \E s \in Steps : SweepUnfinished(s) /\ ToClient(Completed(s, "timed_out"))
       \/ FinishPipeline /\ ToClient(Closed(summary'))
    /\ UNCHANGED <<announced, executors, events, tasks, caller>>

Listen ==
    /\ DeadlineHits \/ (\E m \in StepDone : RecordDone(m) \/ DrainDone(m))
    /\ UNCHANGED <<announced, executors, events, tasks, out, caller>>

-----------------------------------------------------------------------------
(* run_streaming of step s, as far as its task can tell.  RunStream has    *)
(* the details.                                                            *)

Emit(s, event) ==
    /\ exec[s] = "running" /\ Len(events[s]) < EventCap
    /\ events' = [events EXCEPT ![s] = Append(events[s], event)]
    /\ UNCHANGED <<vars, announced, tasks, out, caller>>

EmitOutput(s) ==
    /\ outputs[s] < MaxOutputs
    /\ Emit(s, Output(s))
    /\ outputs' = [outputs EXCEPT ![s] = outputs[s] + 1]
    /\ UNCHANGED exec

EmitCompleted(s) ==
    /\ \E how \in {"succeeded", "failed"}, files \in FileLists :
          Emit(s, [kind |-> "completed", step |-> s, status |-> how, files |-> files])
    /\ exec' = [exec EXCEPT ![s] = "returned"]
    /\ UNCHANGED outputs

ExecFails(s) ==
    /\ exec[s] = "running"
    /\ exec' = [exec EXCEPT ![s] = "returned"]
    /\ UNCHANGED <<vars, announced, outputs, events, tasks, out, caller>>

-----------------------------------------------------------------------------
(* run_step_task of step s *)

Moves(s, from, to) == place[s] = from /\ place' = [place EXCEPT ![s] = to]

Receive(s) ==
    /\ Moves(s, "selecting", "handling")
    /\ events[s] # <<>>
    /\ hand' = [hand EXCEPT ![s] = Head(events[s])]
    /\ events' = [events EXCEPT ![s] = Tail(events[s])]
    /\ UNCHANGED <<vars, announced, executors, sizes, at, broken, out, caller>>

(* cancel_rx resolves when the deadline has made the scheduler send on it, *)
(* or when the scheduler has dropped its end.                              *)
Cancelled == overall_timed_out \/ phase = "aborted"

CompletedSent(s) == hand[s].kind = "completed"

(* Three slips: the executor is waited for, or left alone, and not aborted; *)
(* and completed_sent is not looked at.                                     *)
CancelAndWait(s) ==
    /\ Cancelled
    /\ exec[s] = "returned"
    /\ Moves(s, "selecting", IF CompletedSent(s) THEN "closing" ELSE "cancelling")
    /\ UNCHANGED <<vars, announced, executors, events, hand, sizes, at, broken, out, caller>>

CancelWithoutAbort(s) ==
    /\ Cancelled
    /\ Moves(s, "selecting", IF CompletedSent(s) THEN "closing" ELSE "cancelling")
    /\ UNCHANGED <<vars, announced, executors, events, hand, sizes, at, broken, out, caller>>

CancelAnyway(s) ==
    /\ Cancelled
    /\ Moves(s, "selecting", "closing")
    /\ ToClient(Completed(s, "timed_out"))
    /\ exec' = [exec EXCEPT ![s] = "killed"]
    /\ UNCHANGED <<vars, announced, outputs, events, hand, sizes, at, broken, caller>>

Cancel(s) ==
    /\ Cancelled
    /\ IF CompletedSent(s)
       THEN Moves(s, "selecting", "closing") /\ UNCHANGED exec
       ELSE Moves(s, "selecting", "cancelling") /\ exec' = [exec EXCEPT ![s] = "killed"]
    /\ UNCHANGED <<vars, announced, outputs, events, hand, sizes, at, broken, out, caller>>

(* The event channel is empty and its sender dropped. *)
EventsClosed(s) ==
    /\ Moves(s, "selecting", "closing")
    /\ events[s] = <<>> /\ exec[s] = "returned"
    /\ UNCHANGED <<vars, announced, executors, events, hand, sizes, at, broken, out, caller>>

ForwardOutput(s) ==
    /\ hand[s].kind = "output"
    /\ Moves(s, "handling", "selecting")
    /\ ToClient(hand[s])
    /\ UNCHANGED <<vars, announced, executors, events, hand, sizes, at, broken, caller>>

(* What the scheduler sees as TaskReports, unless it has gone. *)
ForwardCompleted(s) ==
    /\ CompletedSent(s)
    /\ Moves(s, "handling", "streaming")
    /\ ToClient(Completed(s, hand[s].status))
    /\ \/ TaskReports(s) /\ report'[s] = hand[s].status
       \/ phase = "aborted" /\ UNCHANGED vars
    /\ sizes' = [sizes EXCEPT ![s] = hand[s].files]
    /\ UNCHANGED <<announced, executors, events, hand, at, broken, caller>>

NextFile(s) == at' = [at EXCEPT ![s] = <<at[s][1] + 1, 1>>]

StreamChunk(s) ==
    /\ place[s] = "streaming" /\ at[s][1] <= Len(sizes[s])
    /\ ToClient(FileChunk(s, IF at[s][2] = 1 THEN at[s][1] ELSE NoName, <<at[s]>>))
    /\ IF at[s][2] < sizes[s][at[s][1]]
       THEN at' = [at EXCEPT ![s] = <<at[s][1], at[s][2] + 1>>]
       ELSE NextFile(s)
    /\ UNCHANGED <<vars, announced, executors, events, place, hand, sizes, broken, caller>>

StreamFails(s) ==
    /\ place[s] = "streaming" /\ at[s][1] <= Len(sizes[s])
    /\ broken' = broken \cup {<<s, at[s][1]>>}
    /\ NextFile(s)
    /\ UNCHANGED <<vars, announced, executors, events, place, hand, sizes, out, caller>>

FilesStreamed(s) ==
    /\ Moves(s, "streaming", "selecting")
    /\ at[s][1] > Len(sizes[s])
    /\ UNCHANGED <<vars, announced, executors, events, hand, sizes, at, broken, out, caller>>

SendTimedOut(s) ==
    /\ Moves(s, "cancelling", "closing")
    /\ ToClient(Completed(s, "timed_out"))
    /\ \/ TaskCancelled(s)
       \/ phase = "aborted" /\ UNCHANGED vars
    /\ UNCHANGED <<announced, executors, events, hand, sizes, at, broken, caller>>

(* Slip: the scheduler is told before the files are streamed. *)
SendDoneEarly(s) ==
    /\ place[s] \in {"closing", "streaming"}
    /\ place' = [place EXCEPT ![s] = "ended"]
    /\ \/ Cardinality(done_rx) < DoneCap /\ (TaskFailsSilently(s) \/ TaskEnds(s))
       \/ TaskOrphaned(s)
    /\ UNCHANGED <<announced, executors, events, hand, sizes, at, broken, out, caller>>

SendDone(s) ==
    /\ Moves(s, "closing", "ended")
    /\ \/ Cardinality(done_rx) < DoneCap /\ (TaskFailsSilently(s) \/ TaskEnds(s))
       \/ TaskOrphaned(s)
    /\ UNCHANGED <<announced, executors, events, hand, sizes, at, broken, out, caller>>

-----------------------------------------------------------------------------
(* The client *)

(* finalize_file *)
Finalized(r) ==
    IF r.current = NoName THEN r
    ELSE [r EXCEPT !.files = [f \in DOMAIN r.files \cup {r.current} |->
                                 IF f = r.current THEN r.data ELSE r.files[f]],
                   !.current = NoName, !.data = <<>>]

Collected(r, msg) ==
    CASE msg.kind = "completed" ->
           [Finalized(r) EXCEPT !.status = msg.status, !.phase = "completed"]
      [] msg.kind = "file" /\ msg.name # NoName ->
           [Finalized(r) EXCEPT !.current = msg.name, !.data = msg.data, !.phase = "file"]
      [] msg.kind = "file" /\ msg.name = NoName ->
           IF r.current = NoName THEN r ELSE [r EXCEPT !.data = r.data \o msg.data]
      [] OTHER -> [r EXCEPT !.phase = msg.kind]

StepMessages == {"started", "output", "completed", "file"}

(* What is still in the making at PipelineCompleted is finalized; as a slip *)
(* it is not.                                                               *)
ClosedUnfinalized(r) == r
ClosedOf(r) == Finalized(r)

Take ==
    /\ client = "reading" /\ out # <<>> /\ Head(out).kind # "error"
    /\ out' = Tail(out)
    /\ LET msg == Head(out)
       IN  CASE msg.kind = "begun" -> UNCHANGED caller
             [] msg.kind \in StepMessages ->
                  /\ result' = [result EXCEPT ![msg.step] = Collected(result[msg.step], msg)]
                  /\ UNCHANGED <<client, verdict>>
             [] msg.kind = "closed" ->
                  /\ result' = [s \in Steps |-> ClosedOf(result[s])]
                  /\ verdict' = msg.summary
                  /\ client' = "done"
    /\ UNCHANGED <<vars, announced, executors, events, tasks>>

(* The stream ends with an error, or the client resets it: the receiver is *)
(* dropped, and what was collected with it.                                *)
Leave ==
    /\ client = "reading"
    /\ client' = IF out # <<>> /\ Head(out).kind = "error" THEN "failed" ELSE "gone"
    /\ out' = <<>>
    /\ result' = [s \in Steps |-> Fresh]
    /\ UNCHANGED <<vars, announced, executors, events, tasks, verdict>>

-----------------------------------------------------------------------------
SchedulerRuns == Announce \/ MakeTempDir \/ (\E s \in Steps : Launch(s)) \/ Tell \/ Listen

Executor(s) == EmitOutput(s) \/ EmitCompleted(s) \/ ExecFails(s)

TaskRuns(s) ==
    \/ Receive(s) \/ Cancel(s) \/ EventsClosed(s) \/ ForwardOutput(s)
    \/ ForwardCompleted(s) \/ StreamChunk(s) \/ StreamFails(s) \/ FilesStreamed(s)
    \/ SendTimedOut(s) \/ SendDone(s)

Client == Take \/ Leave

AllEnded == Ended /\ client # "reading"

RunOver == AllEnded /\ UNCHANGED RunVars

RunNext ==
    \/ SchedulerRuns \/ Client \/ RunOver
    \/ \E s \in Steps : Executor(s) \/ TaskRuns(s)

RunSpec == RunInit /\ [][RunNext]_RunVars

(* The runtime polls the scheduler and the step tasks, and the client goes *)
(* on reading or leaves.  Nothing is assumed of the executables.           *)
RunFairness ==
    /\ WF_RunVars(SchedulerRuns) /\ WF_RunVars(Client)
    /\ \A s \in Steps : WF_RunVars(TaskRuns(s))

RunFairSpec == RunSpec /\ RunFairness

-----------------------------------------------------------------------------
(* Properties *)

Messages ==
    [kind : {"begun", "error"}]
    \cup [kind : {"closed"}, summary : [all_succeeded : BOOLEAN, skipped_steps : SUBSET Steps]]
    \cup [kind : {"started", "output"}, step : Steps]
    \cup [kind : {"completed"}, step : Steps, status : Reports]
    \cup [kind : {"file"}, step : Steps, name : Nat, data : Seq(Nat \X Nat)]

(* The scheduler's state and the queues are what the code's types allow,   *)
(* and no channel holds more than its capacity.                            *)
RunTypeOK ==
    /\ TypeOK
    /\ out \in Seq(Messages) /\ Len(out) <= OutCap
    /\ Cardinality(done_rx) <= DoneCap
    /\ \A s \in Steps : Len(events[s]) <= EventCap
    /\ client \in {"reading", "gone", "failed", "done"}
    /\ exec \in [Steps -> {"unborn", "running", "returned", "killed"}]
    /\ sizes \in [Steps -> FileLists \cup {<<>>}]

(* What the client may be told of a step after what it has been told.      *)
Follows ==
    [none      |-> {"started", "completed"},
     started   |-> {"output", "completed"},
     output    |-> {"output", "completed"},
     completed |-> {"file"},
     file      |-> {"file"}]

(* A step's events reach the client in the order its handlers rely on:     *)
(* started, outputs, one completed, then its files, though three tasks     *)
(* send them and the deadline may strike between any two.                  *)
StepPhases ==
    client = "reading" /\ out # <<>> /\ Head(out).kind \in StepMessages =>
        Head(out).kind \in Follows[result[Head(out).step].phase]

(* Among `files` is every output file of s that was streamed without error. *)
FilesArrived(s, files) ==
    \A f \in {n \in 1 .. Len(sizes[s]) : <<s, n>> \notin broken} :
        f \in DOMAIN files /\ files[f] = [c \in 1 .. sizes[s][f] |-> <<f, c>>]

(* When the pipeline is over, the client has put the interleaved stream    *)
(* together right: the status of every step, none for a lost one, every    *)
(* file with its own chunks in order, and the verdict.                     *)
ClientFaithful ==
    client = "done" =>
        /\ verdict = summary
        /\ \A s \in Steps :
              /\ result[s].status = IF Lost(s) THEN "unspecified" ELSE report[s]
              /\ FilesArrived(s, result[s].files)

(* A client that is told a step has started has all the output files of    *)
(* the steps it depends on.                                                *)
FilesBeforeDependents ==
    \A s \in Steps : result[s].phase \notin {"none", "completed"} =>
        \A d \in DepsOf(dep_map, s) : FilesArrived(d, Finalized(result[d]).files)

(* When the pipeline finishes, and with it the lock and the temporary      *)
(* directory go, no executable is left running in there.                   *)
NoExecutableLeft == phase = "finished" => \A s \in Steps : exec[s] # "running"

(* The pipeline ends, releases the lock and leaves no task behind even if  *)
(* an executable never ends, whatever the client does and however small    *)
(* the channels are.                                                       *)
PipelineEnds == <>AllEnded
==============================================================================
