--------------------------- MODULE RunPipelineProofs ---------------------------
(***************************************************************************)
(* For all steps, dependencies, files and channel capacities:              *)
(*  - a RunPipeline behaves, as far as its scheduler goes, like            *)
(*    PipelineScheduler, so that every safety property proved of that      *)
(*    module holds with the queues of the code;                            *)
(*  - the executables it started are gone when it finishes;                *)
(*  - its state is well typed and no channel exceeds its capacity;         *)
(*  - what is on its way to the client continues what the client has, so   *)
(*    that at the end the client has put the interleaved stream together.  *)
(***************************************************************************)
EXTENDS RunPipeline, PipelineSchedulerProofs, SequenceTheorems

-----------------------------------------------------------------------------
(* The scheduler inside *)

LEMMA SchedulerMoves ==
  ASSUME SchedulerRuns
  PROVE  [Next]_vars
<1>1. CASE Announce
  BY <1>1 DEF Announce
<1>2. CASE MakeTempDir
  BY <1>2 DEF MakeTempDir, Next, Scheduler
<1>3. ASSUME NEW s \in Steps, Launch(s)
      PROVE  Next
  BY <1>3 DEF Launch, Next, Scheduler
<1>4. CASE Tell
  <2>1. Scheduler
    BY <1>4 DEF Tell, Scheduler
  <2> QED
    BY <2>1 DEF Next
<1>5. CASE Listen
  <2>1. Scheduler
    BY <1>5 DEF Listen, Scheduler
  <2> QED
    BY <2>1 DEF Next
<1> QED
  BY <1>1, <1>2, <1>3, <1>4, <1>5 DEF SchedulerRuns

LEMMA TaskMoves ==
  ASSUME NEW s \in Steps, Executor(s) \/ TaskRuns(s)
  PROVE  [Next]_vars
<1>1. CASE Executor(s)
  BY <1>1 DEF Executor, EmitOutput, EmitCompleted, ExecFails, Emit
<1>2. CASE Receive(s) \/ Cancel(s) \/ EventsClosed(s) \/ ForwardOutput(s)
  BY <1>2 DEF Receive, Cancel, EventsClosed, ForwardOutput
<1>3. CASE StreamChunk(s) \/ StreamFails(s) \/ FilesStreamed(s)
  BY <1>3 DEF StreamChunk, StreamFails, FilesStreamed
<1>4. CASE ForwardCompleted(s)
  BY <1>4 DEF ForwardCompleted, Next, StepTask
<1>5. CASE SendTimedOut(s)
  BY <1>5 DEF SendTimedOut, Next, StepTask
<1>6. CASE SendDone(s)
  BY <1>6 DEF SendDone, Next, StepTask
<1> QED
  BY <1>1, <1>2, <1>3, <1>4, <1>5, <1>6 DEF TaskRuns

(* Every step of a RunPipeline is a step of the scheduler module or leaves *)
(* its state alone: the bounded channels, the executables that hang and    *)
(* the client only restrict it.                                            *)
THEOREM RefinesScheduler == RunSpec => Spec
<1>1. RunInit => Init
  BY DEF RunInit
<1>2. [RunNext]_RunVars => [Next]_vars
  <2>1. CASE SchedulerRuns
    BY <2>1, SchedulerMoves
  <2>2. CASE Client
    BY <2>2 DEF Client, Take, Leave
  <2>3. CASE RunOver \/ UNCHANGED RunVars
    BY <2>3 DEF RunOver, RunVars
  <2>4. ASSUME NEW s \in Steps, Executor(s) \/ TaskRuns(s)
        PROVE  [Next]_vars
    BY <2>4, TaskMoves
  <2> QED
    BY <2>1, <2>2, <2>3, <2>4 DEF RunNext
<1> QED
  BY <1>1, <1>2, PTL DEF RunSpec, Spec

(* With the queues of the code, too, the pipeline keeps the promise made   *)
(* to its client.                                                          *)
THEOREM RunKeepsContract == RunSpec => KeepsContract
  BY RefinesScheduler, ImplementsContract, PTL

-----------------------------------------------------------------------------
(* The executables *)

StepEvents ==
    [kind : {"output"}, step : Steps]
    \cup [kind : {"completed"}, step : Steps, status : {"succeeded", "failed"},
          files : FileLists]

Places == {"unborn", "selecting", "handling", "streaming", "cancelling", "closing", "ended"}

TasksTyped ==
    /\ events \in [Steps -> Seq(StepEvents)]
    /\ hand \in [Steps -> StepEvents \cup {Nothing}]
    /\ exec \in [Steps -> {"unborn", "running", "returned", "killed"}]
    /\ place \in [Steps -> Places]

(* A step that was not launched has done nothing, the scheduler and the    *)
(* task agree on when it is over, and an executor still running has not    *)
(* sent its Completed and has a task that listens to it.                   *)
ExecutorsMatch ==
    \A s \in Steps :
        /\ task[s] = "unborn" =>
               /\ exec[s] = "unborn" /\ place[s] = "unborn"
               /\ events[s] = <<>> /\ hand[s] = Nothing
        /\ task[s] = "ended" <=> place[s] = "ended"
        /\ exec[s] = "running" =>
               /\ place[s] \in {"selecting", "handling"}
               /\ hand[s].kind # "completed"
               /\ \A i \in DOMAIN events[s] : events[s][i].kind # "completed"

RunIInv == TasksTyped /\ ExecutorsMatch

LEMMA RunInitEstablishes == RunInit => RunIInv
  BY DEF RunInit, Init, RunIInv, TasksTyped, ExecutorsMatch, Places, Nothing

LEMMA RunSchedulerPreserves ==
  ASSUME RunIInv, IInv, SchedulerRuns
  PROVE  RunIInv'
<1> USE DEF RunIInv, TasksTyped, ExecutorsMatch, executors, tasks
<1>1. CASE Announce \/ MakeTempDir
  BY <1>1 DEF Announce, MakeTempDir, Begin, TempDirFails, vars
<1>2. ASSUME NEW s \in Steps, Launch(s)
      PROVE  RunIInv'
  <2>1. task[s] = "unborn"
    BY <1>2 DEF Launch, LaunchReady, IInv, SetsDisjoint, TasksMatch, Resolved
  <2>2. task' = [task EXCEPT ![s] = "executing"] /\ task \in [Steps -> TaskStates]
    BY <1>2 DEF Launch, LaunchReady, Goto, IInv, TypeOK
  <2> QED
    BY <1>2, <2>1, <2>2 DEF Launch, Places, Nothing
<1>3. CASE Tell
  <2>1. UNCHANGED task
    BY <1>3 DEF Tell, LaunchFails, SkipReady, SweepUnfinished, FinishPipeline
  <2> QED
    BY <1>3, <2>1 DEF Tell
<1>4. CASE Listen
  <2>1. UNCHANGED task
    BY <1>4 DEF Listen, DeadlineHits, RecordDone, DrainDone
  <2> QED
    BY <1>4, <2>1 DEF Listen
<1> QED
  BY <1>1, <1>2, <1>3, <1>4 DEF SchedulerRuns

LEMMA ExecutorPreserves ==
  ASSUME RunIInv, NEW s \in Steps, Executor(s)
  PROVE  RunIInv'
<1> USE DEF RunIInv, TasksTyped, ExecutorsMatch, tasks, vars
<1>1. CASE EmitOutput(s)
  <2>1. Output(s) \in StepEvents /\ Output(s).kind = "output"
    BY DEF StepEvents, Output
  <2>2. /\ exec[s] = "running" /\ UNCHANGED <<task, hand, exec, place>>
        /\ events' = [events EXCEPT ![s] = Append(events[s], Output(s))]
    BY <1>1 DEF EmitOutput, Emit
  <2>3. /\ Append(events[s], Output(s)) \in Seq(StepEvents)
        /\ \A i \in DOMAIN Append(events[s], Output(s)) :
              Append(events[s], Output(s))[i].kind # "completed"
    BY <2>1, <2>2
  <2> QED
    BY <2>2, <2>3
<1>2. CASE EmitCompleted(s)
  <2>1. PICK how \in {"succeeded", "failed"}, files \in FileLists :
          Emit(s, [kind |-> "completed", step |-> s, status |-> how, files |-> files])
    BY <1>2 DEF EmitCompleted
  <2> DEFINE event == [kind |-> "completed", step |-> s, status |-> how, files |-> files]
  <2>2. event \in StepEvents
    BY DEF StepEvents
  <2>3. /\ exec[s] = "running" /\ exec' = [exec EXCEPT ![s] = "returned"]
        /\ UNCHANGED <<task, hand, place>>
        /\ events' = [events EXCEPT ![s] = Append(events[s], event)]
    BY <1>2, <2>1 DEF EmitCompleted, Emit
  <2>4. Append(events[s], event) \in Seq(StepEvents)
    BY <2>2
  <2> QED
    BY <2>3, <2>4
<1>3. CASE ExecFails(s)
  BY <1>3 DEF ExecFails
<1> QED
  BY <1>1, <1>2, <1>3 DEF Executor

LEMMA TaskRunsPreserves ==
  ASSUME RunIInv, IInv, NEW s \in Steps, TaskRuns(s)
  PROVE  RunIInv'
<1> USE DEF RunIInv, TasksTyped, ExecutorsMatch, executors, vars, Moves, Places
<1>0. task \in [Steps -> TaskStates]
  BY DEF IInv, TypeOK
<1>1. CASE Receive(s)
  <2>1. /\ Head(events[s]) \in StepEvents /\ Tail(events[s]) \in Seq(StepEvents)
        /\ exec[s] = "running" =>
              /\ Head(events[s]).kind # "completed"
              /\ \A i \in DOMAIN Tail(events[s]) : Tail(events[s])[i].kind # "completed"
    BY <1>1 DEF Receive
  <2> QED
    BY <1>1, <2>1 DEF Receive
<1>2. CASE Cancel(s)
  <2>1. CASE hand[s].kind = "completed"
    BY <1>2, <2>1 DEF Cancel, CompletedSent
  <2>2. CASE hand[s].kind # "completed"
    BY <1>2, <2>2 DEF Cancel, CompletedSent
  <2> QED
    BY <2>1, <2>2
<1>3. CASE EventsClosed(s)
  BY <1>3 DEF EventsClosed
<1>4. CASE ForwardOutput(s)
  BY <1>4 DEF ForwardOutput
<1>5. CASE StreamChunk(s) \/ StreamFails(s)
  BY <1>5 DEF StreamChunk, StreamFails
<1>6. CASE FilesStreamed(s)
  BY <1>6 DEF FilesStreamed
<1>7. CASE ForwardCompleted(s)
  <2>1. \/ task' = task
        \/ task' = [task EXCEPT ![s] = "reported"] /\ task[s] = "executing"
    BY <1>7 DEF ForwardCompleted, TaskReports, Goto
  <2> QED
    BY <1>0, <1>7, <2>1 DEF ForwardCompleted, CompletedSent
<1>8. CASE SendTimedOut(s)
  <2>1. \/ task' = task
        \/ task' = [task EXCEPT ![s] = "reported"] /\ task[s] = "executing"
    BY <1>8 DEF SendTimedOut, TaskCancelled, Goto
  <2> QED
    BY <1>0, <1>8, <2>1 DEF SendTimedOut
<1>9. CASE SendDone(s)
  <2>1. task' = [task EXCEPT ![s] = "ended"] /\ task[s] # "unborn"
    BY <1>9 DEF SendDone, TaskFailsSilently, TaskEnds, TaskOrphaned, Goto
  <2> QED
    BY <1>0, <1>9, <2>1 DEF SendDone
<1> QED
  BY <1>1, <1>2, <1>3, <1>4, <1>5, <1>6, <1>7, <1>8, <1>9 DEF TaskRuns

LEMMA RunNextPreserves == RunIInv /\ IInv /\ [RunNext]_RunVars => RunIInv'
<1> SUFFICES ASSUME RunIInv, IInv, [RunNext]_RunVars
             PROVE  RunIInv'
  OBVIOUS
<1>1. CASE Client \/ RunOver \/ UNCHANGED RunVars
  BY <1>1 DEF Client, Take, Leave, RunOver, RunVars, RunIInv, TasksTyped, ExecutorsMatch,
              executors, tasks, vars
<1>2. CASE SchedulerRuns
  BY <1>2, RunSchedulerPreserves
<1>3. ASSUME NEW s \in Steps, Executor(s) \/ TaskRuns(s)
      PROVE  RunIInv'
  BY <1>3, ExecutorPreserves, TaskRunsPreserves
<1> QED
  BY <1>1, <1>2, <1>3 DEF RunNext

(* The executables, their event channels and their tasks agree. *)
THEOREM ExecutorInvariant == RunSpec => []RunIInv
<1>1. RunSpec => []IInv
  BY RefinesScheduler, SchedulerInvariant, PTL
<1> QED
  BY <1>1, RunInitEstablishes, RunNextPreserves, PTL DEF RunSpec

(* No executable is running when a pipeline has finished and the lock and  *)
(* the temporary directory are given up.                                   *)
THEOREM ExecutablesGone == RunSpec => []NoExecutableLeft
<1>1. IInv /\ RunIInv => NoExecutableLeft
  BY NothingRunsHolds DEF NothingRunsAfterFinish, NoExecutableLeft, RunIInv, ExecutorsMatch
<1>2. RunSpec => []IInv
  BY RefinesScheduler, SchedulerInvariant, PTL
<1> QED
  BY <1>1, <1>2, ExecutorInvariant, PTL

-----------------------------------------------------------------------------
(* The files of the steps *)

Chunks == (Nat \ {0}) \X (Nat \ {0})

(* Its Completed has left the event channel and has been sent on. *)
Forwarded(s) == CompletedSent(s) /\ place[s] # "handling"

FilesTyped ==
    /\ sizes \in [Steps -> FileLists \cup {<<>>}]
    /\ at \in [Steps -> Chunks]
    /\ broken \subseteq Steps \X (Nat \ {0})

(* The Completed is the last event of a step, its task handles it once,    *)
(* and only then there are files to stream, one chunk after the other.     *)
FilesAgree(s) ==
    /\ \A i \in DOMAIN events[s] :
          /\ events[s][i].step = s
          /\ events[s][i].kind = "completed" => i = Len(events[s])
    /\ hand[s] # Nothing => hand[s].step = s
    /\ CompletedSent(s) => events[s] = <<>> /\ exec[s] # "running"
    /\ place[s] = "handling" => hand[s] # Nothing
    /\ place[s] = "streaming" => CompletedSent(s)
    /\ place[s] = "cancelling" => ~CompletedSent(s)
    /\ ~Forwarded(s) => sizes[s] = <<>> /\ at[s] = <<1, 1>>
    /\ place[s] # "streaming" => at[s][1] > Len(sizes[s])
    /\ at[s][1] <= Len(sizes[s]) => at[s][2] <= sizes[s][at[s][1]]
    /\ \A f \in Nat \ {0} : <<s, f>> \in broken => f < at[s][1]

FilesMatch == \A s \in Steps : FilesAgree(s)

TaskIInv == RunIInv /\ FilesTyped /\ FilesMatch

LEMMA TaskInitEstablishes == RunInit => FilesTyped /\ FilesMatch
<1> SUFFICES ASSUME RunInit PROVE FilesTyped /\ FilesMatch
  OBVIOUS
<1>1. FilesTyped
  BY DEF RunInit, FilesTyped, Chunks
<1>2. ASSUME NEW s \in Steps
      PROVE  FilesAgree(s)
  BY DEF RunInit, FilesAgree, Forwarded, CompletedSent, Nothing
<1> QED
  BY <1>1, <1>2 DEF FilesMatch

(* The sizes of a step's files are positive numbers. *)
LEMMA SizesTyped ==
  ASSUME FilesTyped, NEW s \in Steps
  PROVE  /\ sizes[s] \in Seq(Nat \ {0}) /\ Len(sizes[s]) \in Nat
         /\ at[s] = <<at[s][1], at[s][2]>>
         /\ at[s][1] \in Nat \ {0} /\ at[s][2] \in Nat \ {0}
         /\ \A f \in 1 .. Len(sizes[s]) : sizes[s][f] \in Nat \ {0}
<1>1. sizes[s] \in Seq(Nat \ {0})
  <2>1. sizes[s] \in FileLists \/ sizes[s] = <<>>
    BY DEF FilesTyped
  <2> QED
    BY <2>1, FileListsAssumption, EmptySeq
<1>2. at[s] \in Chunks
  BY DEF FilesTyped
<1> QED
  BY <1>1, <1>2, LenProperties DEF Chunks

(* A step whose task and executable rest keeps its files. *)
Steady(s) ==
    /\ UNCHANGED <<events[s], exec[s], hand[s], place[s], sizes[s], at[s]>>
    /\ \A f \in Nat \ {0} : <<s, f>> \in broken' => <<s, f>> \in broken

LEMMA SteadyAgrees ==
  ASSUME NEW s \in Steps, FilesAgree(s), Steady(s)
  PROVE  FilesAgree(s)'
BY DEF FilesAgree, Steady, Forwarded, CompletedSent

LEMMA FilesSchedulerPreserves ==
  ASSUME TaskIInv, IInv, SchedulerRuns
  PROVE  FilesTyped' /\ FilesMatch'
<1> USE DEF TaskIInv, FilesMatch
<1>1. CASE Announce \/ MakeTempDir \/ Tell \/ Listen
  <2>1. UNCHANGED <<executors, events, tasks>>
    BY <1>1 DEF Announce, MakeTempDir, Tell, Listen
  <2>2. \A s \in Steps : Steady(s)
    BY <2>1 DEF executors, tasks, Steady
  <2>3. FilesTyped'
    BY <2>1 DEF tasks, FilesTyped
  <2> QED
    BY <2>2, <2>3, SteadyAgrees
<1>2. ASSUME NEW s \in Steps, Launch(s)
      PROVE  FilesTyped' /\ FilesMatch'
  <2>1. task[s] = "unborn"
    BY <1>2 DEF Launch, LaunchReady, IInv, SetsDisjoint, TasksMatch, Resolved
  <2>2. place[s] = "unborn" /\ hand[s] = Nothing /\ events[s] = <<>>
    BY <2>1 DEF RunIInv, ExecutorsMatch
  <2>3. /\ place' = [place EXCEPT ![s] = "selecting"] /\ exec' = [exec EXCEPT ![s] = "running"]
        /\ UNCHANGED <<events, hand, sizes, at, broken>>
    BY <1>2 DEF Launch
  <2>4. FilesTyped'
    BY <2>3 DEF FilesTyped
  <2>5. FilesAgree(s)'
    BY <2>2, <2>3 DEF FilesAgree, Forwarded, CompletedSent, Nothing, RunIInv, TasksTyped
  <2>6. \A t \in Steps \ {s} : Steady(t)
    BY <2>3 DEF Steady, RunIInv, TasksTyped
  <2> QED
    BY <2>4, <2>5, <2>6, SteadyAgrees
<1> QED
  BY <1>1, <1>2 DEF SchedulerRuns

LEMMA FilesExecutorPreserves ==
  ASSUME TaskIInv, NEW s \in Steps, Executor(s)
  PROVE  FilesTyped' /\ FilesMatch'
<1> USE DEF TaskIInv, FilesMatch
<1>0. /\ UNCHANGED tasks
      /\ exec[s] = "running" /\ exec'[s] \in {"running", "returned"}
      /\ \A t \in Steps \ {s} : exec'[t] = exec[t]
  BY DEF Executor, EmitOutput, EmitCompleted, ExecFails, Emit, tasks, RunIInv, TasksTyped
<1>1. FilesTyped'
  BY <1>0 DEF tasks, FilesTyped
<1>2. hand[s].kind # "completed" /\ \A i \in DOMAIN events[s] : events[s][i].kind # "completed"
  BY <1>0 DEF RunIInv, ExecutorsMatch
<1>3. ASSUME NEW e \in StepEvents, e.step = s, events' = [events EXCEPT ![s] = Append(events[s], e)]
      PROVE  /\ FilesAgree(s)'
             /\ \A t \in Steps \ {s} : events'[t] = events[t]
  <2>1. events[s] \in Seq(StepEvents) /\ events'[s] = Append(events[s], e)
    BY <1>3 DEF RunIInv, TasksTyped
  <2>2. \A i \in DOMAIN events'[s] : events'[s][i].step = s /\
          (events'[s][i].kind = "completed" => i = Len(events'[s]))
    BY <1>2, <1>3, <2>1 DEF FilesAgree
  <2>3. ~CompletedSent(s)'
    BY <1>0, <1>2 DEF tasks, CompletedSent
  <2>4. FilesAgree(s)'
    BY <1>0, <2>2, <2>3 DEF FilesAgree, tasks, Forwarded, CompletedSent
  <2>5. \A t \in Steps \ {s} : events'[t] = events[t]
    BY <1>3 DEF RunIInv, TasksTyped
  <2> QED
    BY <2>4, <2>5
<1>4. /\ FilesAgree(s)'
      /\ \A t \in Steps \ {s} : events'[t] = events[t]
  <2>1. CASE EmitOutput(s)
    <3>1. Output(s) \in StepEvents /\ Output(s).step = s
      BY DEF Output, StepEvents
    <3>2. events' = [events EXCEPT ![s] = Append(events[s], Output(s))]
      BY <2>1 DEF EmitOutput, Emit
    <3> QED
      BY <1>3, <3>1, <3>2
  <2>2. CASE EmitCompleted(s)
    <3>1. PICK how \in {"succeeded", "failed"}, files \in FileLists :
             Emit(s, [kind |-> "completed", step |-> s, status |-> how, files |-> files])
      BY <2>2 DEF EmitCompleted
    <3> DEFINE e == [kind |-> "completed", step |-> s, status |-> how, files |-> files]
    <3>2. e \in StepEvents /\ e.step = s
      BY DEF StepEvents
    <3>3. events' = [events EXCEPT ![s] = Append(events[s], e)]
      BY <3>1 DEF Emit
    <3> QED
      BY <1>3, <3>2, <3>3
  <2>3. CASE ExecFails(s)
    <3>1. UNCHANGED events
      BY <2>3 DEF ExecFails
    <3> QED
      BY <1>0, <1>2, <3>1 DEF FilesAgree, tasks, Forwarded, CompletedSent
  <2> QED
    BY <2>1, <2>2, <2>3 DEF Executor
<1>5. \A t \in Steps \ {s} : Steady(t)
  BY <1>0, <1>4 DEF Steady, tasks
<1> QED
  BY <1>1, <1>4, <1>5, SteadyAgrees

LEMMA FilesTaskPreserves ==
  ASSUME TaskIInv, IInv, NEW s \in Steps, TaskRuns(s)
  PROVE  FilesTyped' /\ FilesMatch'
<1> USE DEF TaskIInv, FilesMatch
<1>0. /\ events \in [Steps -> Seq(StepEvents)] /\ hand \in [Steps -> StepEvents \cup {Nothing}]
      /\ exec \in [Steps -> {"unborn", "running", "returned", "killed"}]
      /\ place \in [Steps -> Places]
      /\ sizes \in [Steps -> FileLists \cup {<<>>}] /\ at \in [Steps -> Chunks]
      /\ FilesAgree(s)
  BY DEF RunIInv, TasksTyped, FilesTyped
<1>1. CASE Receive(s)
  <2>1. /\ place[s] = "selecting" /\ place' = [place EXCEPT ![s] = "handling"]
        /\ events[s] # <<>>
        /\ hand' = [hand EXCEPT ![s] = Head(events[s])]
        /\ events' = [events EXCEPT ![s] = Tail(events[s])]
        /\ UNCHANGED <<exec, outputs, sizes, at, broken>>
    BY <1>1 DEF Receive, Moves, executors
  <2>2. /\ events[s] \in Seq(StepEvents) /\ Head(events[s]) \in StepEvents
        /\ Head(events[s]) = events[s][1] /\ Head(events[s]).step = s
        /\ Head(events[s]).kind = "completed" => Tail(events[s]) = <<>>
        /\ \A i \in DOMAIN Tail(events[s]) :
              /\ Tail(events[s])[i].step = s
              /\ Tail(events[s])[i].kind = "completed" => i = Len(Tail(events[s]))
    BY <1>0, <2>1 DEF FilesAgree
  <2>3. Head(events[s]) # Nothing
    BY <2>2 DEF StepEvents, Nothing
  <2>4. ~CompletedSent(s)
    BY <1>0, <2>1 DEF FilesAgree
  <2>5. Head(events[s]).kind = "completed" => exec[s] # "running"
    BY <2>2, <1>0, <2>1 DEF RunIInv, ExecutorsMatch
  <2>6. /\ events'[s] = Tail(events[s]) /\ hand'[s] = Head(events[s])
        /\ place'[s] = "handling" /\ exec'[s] = exec[s]
        /\ sizes'[s] = sizes[s] /\ at'[s] = at[s] /\ broken' = broken
    BY <1>0, <2>1
  <2>7. FilesAgree(s)'
    BY <1>0, <2>1, <2>2, <2>3, <2>4, <2>5, <2>6 DEF FilesAgree, CompletedSent, Forwarded
  <2>8. \A t \in Steps \ {s} : Steady(t)
    BY <1>0, <2>1 DEF Steady
  <2>9. FilesTyped'
    BY <2>1 DEF FilesTyped
  <2> QED
    BY <2>7, <2>8, <2>9, SteadyAgrees
<1>2. CASE Cancel(s) \/ EventsClosed(s) \/ ForwardOutput(s) \/ FilesStreamed(s) \/ SendTimedOut(s) \/ SendDone(s)
  <2>1. UNCHANGED <<events, hand, sizes, at, broken>>
    BY <1>2 DEF Cancel, EventsClosed, ForwardOutput, FilesStreamed, SendTimedOut, SendDone
  <2>2. \A t \in Steps \ {s} : exec'[t] = exec[t] /\ place'[t] = place[t]
    BY <1>0, <1>2 DEF Cancel, EventsClosed, ForwardOutput, FilesStreamed, SendTimedOut, SendDone,
                      Moves, executors
  <2>3. exec'[s] # "running" \/ exec'[s] = exec[s]
    BY <1>0, <1>2 DEF Cancel, EventsClosed, ForwardOutput, FilesStreamed, SendTimedOut, SendDone,
                      Moves, executors
  <2>4. /\ Forwarded(s)' <=> Forwarded(s)
        /\ place'[s] \notin {"handling", "streaming"}
        /\ place'[s] = "cancelling" => ~CompletedSent(s)
        /\ place[s] # "streaming" \/ at[s][1] > Len(sizes[s])
    <3>1. CASE Cancel(s)
      BY <1>0, <3>1 DEF Cancel, Moves, Forwarded, CompletedSent
    <3>2. CASE EventsClosed(s) \/ SendTimedOut(s) \/ SendDone(s)
      BY <1>0, <3>2 DEF EventsClosed, SendTimedOut, SendDone, Moves, Forwarded, CompletedSent
    <3>3. CASE ForwardOutput(s)
      BY <1>0, <3>3 DEF ForwardOutput, Moves, Forwarded, CompletedSent
    <3>4. CASE FilesStreamed(s)
      BY <1>0, <3>4 DEF FilesStreamed, Moves, Forwarded, CompletedSent
    <3> QED
      BY <1>2, <3>1, <3>2, <3>3, <3>4
  <2>5. FilesAgree(s)'
    BY <1>0, <2>1, <2>3, <2>4 DEF FilesAgree, CompletedSent
  <2>6. \A t \in Steps \ {s} : Steady(t)
    BY <2>1, <2>2 DEF Steady
  <2>7. FilesTyped'
    BY <2>1 DEF FilesTyped
  <2> QED
    BY <2>5, <2>6, <2>7, SteadyAgrees
<1>3. CASE ForwardCompleted(s)
  <2>1. /\ CompletedSent(s) /\ place[s] = "handling"
        /\ place' = [place EXCEPT ![s] = "streaming"]
        /\ sizes' = [sizes EXCEPT ![s] = hand[s].files]
        /\ UNCHANGED <<exec, outputs, events, hand, at, broken>>
    BY <1>3 DEF ForwardCompleted, Moves, executors
  <2>2. hand[s].files \in FileLists
    BY <1>0, <2>1 DEF CompletedSent, StepEvents, Nothing
  <2>3. /\ FilesTyped'
        /\ sizes'[s] \in Seq(Nat \ {0})
    BY <1>0, <2>1, <2>2, FileListsAssumption DEF FilesTyped
  <2>4. at[s] = <<1, 1>>
    BY <1>0, <2>1 DEF FilesAgree, Forwarded
  <2>5. 1 <= Len(sizes'[s]) => 1 <= sizes'[s][1]
    BY <2>3, LenProperties
  <2>6. place'[s] = "streaming" /\ Forwarded(s)'
    BY <1>0, <2>1 DEF Forwarded, CompletedSent
  <2>7. FilesAgree(s)'
    BY <1>0, <2>1, <2>4, <2>5, <2>6 DEF FilesAgree, CompletedSent
  <2>8. \A t \in Steps \ {s} : Steady(t)
    BY <1>0, <2>1 DEF Steady
  <2> QED
    BY <2>3, <2>7, <2>8, SteadyAgrees
<1>4. CASE StreamChunk(s) \/ StreamFails(s)
  <2>1. /\ place[s] = "streaming" /\ at[s][1] <= Len(sizes[s])
        /\ UNCHANGED <<exec, outputs, events, place, hand, sizes>>
        /\ broken' \subseteq broken \cup {<<s, at[s][1]>>}
    BY <1>4 DEF StreamChunk, StreamFails, executors
  <2>2. /\ at[s][1] \in Nat \ {0} /\ at[s][2] \in Nat \ {0} /\ Len(sizes[s]) \in Nat
        /\ \A f \in 1 .. Len(sizes[s]) : sizes[s][f] \in Nat \ {0}
    BY SizesTyped
  <2>3. \/ /\ at' = [at EXCEPT ![s] = <<at[s][1], at[s][2] + 1>>]
           /\ at[s][2] < sizes[s][at[s][1]] /\ broken' = broken
        \/ at' = [at EXCEPT ![s] = <<at[s][1] + 1, 1>>]
    BY <1>4 DEF StreamChunk, StreamFails, NextFile
  <2>4. \A t \in Steps \ {s} : at'[t] = at[t]
    BY <1>0, <2>3
  <2>5. /\ at' \in [Steps -> Chunks]
        /\ \/ at'[s] = <<at[s][1], at[s][2] + 1>> /\ at[s][2] < sizes[s][at[s][1]] /\ broken' = broken
           \/ at'[s] = <<at[s][1] + 1, 1>>
    <3>1. <<at[s][1], at[s][2] + 1>> \in Chunks /\ <<at[s][1] + 1, 1>> \in Chunks
      BY <2>2 DEF Chunks
    <3> QED
      BY <1>0, <2>3, <3>1
  <2>6. /\ at'[s][1] <= Len(sizes[s]) => at'[s][2] <= sizes[s][at'[s][1]]
        /\ \A f \in Nat \ {0} : <<s, f>> \in broken' => f < at'[s][1]
    <3>1. CASE at'[s] = <<at[s][1], at[s][2] + 1>> /\ at[s][2] < sizes[s][at[s][1]] /\ broken' = broken
      BY <1>0, <2>1, <2>2, <3>1 DEF FilesAgree
    <3>2. CASE at'[s] = <<at[s][1] + 1, 1>>
      <4>1. at'[s][1] <= Len(sizes[s]) => at'[s][2] <= sizes[s][at'[s][1]]
        BY <2>2, <3>2
      <4>2. ASSUME NEW f \in Nat \ {0}, <<s, f>> \in broken' PROVE f < at'[s][1]
        <5>1. <<s, f>> \in broken => f < at[s][1]
          BY <1>0 DEF FilesAgree
        <5>2. <<s, f>> \notin broken => f = at[s][1]
          BY <2>1, <4>2
        <5> QED
          BY <2>2, <3>2, <5>1, <5>2
      <4> QED
        BY <4>1, <4>2
    <3> QED
      BY <2>5, <3>1, <3>2
  <2>7. FilesAgree(s)'
    BY <1>0, <2>1, <2>6 DEF FilesAgree, CompletedSent, Forwarded
  <2>8. \A t \in Steps \ {s} : Steady(t)
    BY <2>1, <2>4 DEF Steady
  <2>9. FilesTyped'
    BY <2>1, <2>2, <2>5 DEF FilesTyped
  <2> QED
    BY <2>7, <2>8, <2>9, SteadyAgrees
<1> QED
  BY <1>1, <1>2, <1>3, <1>4 DEF TaskRuns

LEMMA FilesNextPreserves == TaskIInv /\ IInv /\ [RunNext]_RunVars => TaskIInv'
<1> SUFFICES ASSUME TaskIInv, IInv, [RunNext]_RunVars
             PROVE  TaskIInv'
  OBVIOUS
<1>0. RunIInv'
  BY RunNextPreserves DEF TaskIInv
<1>1. CASE Client \/ RunOver \/ UNCHANGED RunVars
  <2>1. UNCHANGED <<executors, events, tasks>>
    BY <1>1 DEF Client, Take, Leave, RunOver, RunVars
  <2>2. \A s \in Steps : Steady(s)
    BY <2>1 DEF executors, tasks, Steady
  <2>3. FilesTyped'
    BY <2>1 DEF tasks, TaskIInv, FilesTyped
  <2> QED
    BY <1>0, <2>2, <2>3, SteadyAgrees DEF TaskIInv, FilesMatch
<1>2. CASE SchedulerRuns
  BY <1>0, <1>2, FilesSchedulerPreserves DEF TaskIInv
<1>3. ASSUME NEW s \in Steps, Executor(s) \/ TaskRuns(s)
      PROVE  TaskIInv'
  BY <1>0, <1>3, FilesExecutorPreserves, FilesTaskPreserves DEF TaskIInv
<1> QED
  BY <1>1, <1>2, <1>3 DEF RunNext

LEMMA TasksKeepFiles == RunSpec => []TaskIInv
<1>1. RunSpec => []IInv
  BY RefinesScheduler, SchedulerInvariant, PTL
<1>2. RunInit => TaskIInv
  BY RunInitEstablishes, TaskInitEstablishes DEF TaskIInv
<1> QED
  BY <1>1, <1>2, FilesNextPreserves, PTL DEF RunSpec

-----------------------------------------------------------------------------
(* The types *)

Contents == UNION {[S -> Seq(Chunks)] : S \in SUBSET (Nat \ {0})}

Results ==
    [phase : {"none", "started", "output", "completed", "file"},
     status : Reports \cup {"unspecified"},
     files : Contents, current : Nat, data : Seq(Chunks)]

News == [kind : {"begun", "error"}]
        \cup [kind : {"closed"}, summary : [all_succeeded : BOOLEAN, skipped_steps : SUBSET Steps]]
        \cup [kind : {"started", "output"}, step : Steps]
        \cup [kind : {"completed"}, step : Steps, status : Reports]
        \cup [kind : {"file"}, step : Steps, name : Nat, data : Seq(Chunks)]

ChannelsTyped ==
    /\ out \in Seq(News) /\ Len(out) <= OutCap
    /\ IsFiniteSet(done_rx) /\ Cardinality(done_rx) <= DoneCap
    /\ \A s \in Steps : Len(events[s]) <= EventCap
    /\ client \in {"reading", "gone", "failed", "done"}
    /\ result \in [Steps -> Results]

(* A send to the client adds one message to the queue, or none. *)
LEMMA ToClientTyped ==
  ASSUME ChannelsTyped, NEW m \in News, ToClient(m)
  PROVE  out' \in Seq(News) /\ Len(out') <= OutCap
<1>1. CASE out' = out
  BY <1>1 DEF ChannelsTyped
<1>2. CASE Len(out) < OutCap /\ out' = Append(out, m)
  <2>1. out \in Seq(News) /\ Len(out) \in Nat /\ OutCap \in Nat
    BY Capacities, LenProperties DEF ChannelsTyped
  <2>2. Append(out, m) \in Seq(News) /\ Len(Append(out, m)) = Len(out) + 1
    BY <2>1, AppendProperties
  <2> QED
    BY <1>2, <2>1, <2>2
<1> QED
  BY <1>1, <1>2 DEF ToClient

LEMMA NewsTyped ==
  /\ Begun \in News /\ Error \in News
  /\ \A s \in Steps : Started(s) \in News /\ Output(s) \in News
  /\ \A s \in Steps, how \in Reports : Completed(s, how) \in News
  /\ \A s \in Steps, name \in Nat, p \in Chunks : FileChunk(s, name, <<p>>) \in News
  /\ \A what \in [all_succeeded : BOOLEAN, skipped_steps : SUBSET Steps] : Closed(what) \in News
<1>1. Begun \in News /\ Error \in News
  BY DEF News, Begun, Error
<1>2. \A s \in Steps : Started(s) \in News /\ Output(s) \in News
  BY DEF News, Started, Output
<1>3. \A s \in Steps, how \in Reports : Completed(s, how) \in News
  BY DEF News, Completed
<1>4. ASSUME NEW s \in Steps, NEW name \in Nat, NEW p \in Chunks
      PROVE  FileChunk(s, name, <<p>>) \in News
  <2>1. <<p>> \in Seq(Chunks)
    OBVIOUS
  <2> QED
    BY <2>1 DEF News, FileChunk
<1>5. \A what \in [all_succeeded : BOOLEAN, skipped_steps : SUBSET Steps] : Closed(what) \in News
  BY DEF News, Closed
<1> QED
  BY <1>1, <1>2, <1>3, <1>4, <1>5

(* What the client makes of a result and a message is a result. *)
LEMMA FinalizedTyped ==
  ASSUME NEW r \in Results
  PROVE  /\ Finalized(r) \in Results
         /\ Finalized(r).phase = r.phase /\ Finalized(r).status = r.status
         /\ Finalized(r).current = NoName
         /\ r.current = NoName => Finalized(r) = r
         /\ r.current # NoName =>
               /\ DOMAIN Finalized(r).files = DOMAIN r.files \cup {r.current}
               /\ Finalized(r).files[r.current] = r.data
               /\ \A f \in DOMAIN r.files : f # r.current => Finalized(r).files[f] = r.files[f]
<1>1. CASE r.current = NoName
  BY <1>1 DEF Finalized
<1>2. CASE r.current # NoName
  <2> DEFINE files == [f \in DOMAIN r.files \cup {r.current} |->
                          IF f = r.current THEN r.data ELSE r.files[f]]
  <2>1. PICK S \in SUBSET (Nat \ {0}) : r.files \in [S -> Seq(Chunks)]
    BY DEF Results, Contents
  <2>2. r.current \in Nat \ {0} /\ r.data \in Seq(Chunks)
    BY <1>2 DEF Results, NoName
  <2>3. files \in [S \cup {r.current} -> Seq(Chunks)] /\ S \cup {r.current} \in SUBSET (Nat \ {0})
    BY <2>1, <2>2
  <2>4. files \in Contents
    BY <2>3 DEF Contents
  <2>5. Finalized(r) = [r EXCEPT !.files = files, !.current = NoName, !.data = <<>>]
    BY <1>2 DEF Finalized
  <2>6. /\ Finalized(r) \in Results
        /\ Finalized(r).phase = r.phase /\ Finalized(r).status = r.status
        /\ Finalized(r).current = NoName /\ Finalized(r).files = files
    <3> HIDE DEF files
    <3>1. <<>> \in Seq(Chunks) /\ NoName \in Nat
      BY EmptySeq DEF NoName
    <3> QED
      BY <2>4, <2>5, <3>1 DEF Results
  <2>7. /\ DOMAIN files = DOMAIN r.files \cup {r.current}
        /\ files[r.current] = r.data
        /\ \A f \in DOMAIN r.files : f # r.current => files[f] = r.files[f]
    OBVIOUS
  <2> QED
    BY <1>2, <2>6, <2>7
<1> QED
  BY <1>1, <1>2

(* What a message of a step changes in what the client has of it. *)
LEMMA CollectedTyped ==
  ASSUME NEW r \in Results, NEW m \in News, m.kind \in StepMessages
  PROVE  /\ m.step \in Steps
         /\ Collected(r, m) \in Results
         /\ m.kind \in {"started", "output"} =>
               Collected(r, m) = [r EXCEPT !.phase = m.kind]
         /\ m.kind = "completed" =>
               Collected(r, m) = [Finalized(r) EXCEPT !.status = m.status, !.phase = "completed"]
         /\ m.kind = "file" /\ m.name # NoName =>
               Collected(r, m) = [Finalized(r) EXCEPT !.current = m.name, !.data = m.data,
                                                      !.phase = "file"]
         /\ m.kind = "file" /\ m.name = NoName /\ r.current # NoName =>
               Collected(r, m) = [r EXCEPT !.data = r.data \o m.data]
<1>0. m.step \in Steps
  BY DEF News, StepMessages
<1>1. CASE m.kind \in {"started", "output"}
  <2>1. Collected(r, m) = [r EXCEPT !.phase = m.kind]
    BY <1>1 DEF Collected
  <2>2. Collected(r, m) \in Results
    BY <1>1, <2>1 DEF Results
  <2> QED
    BY <1>0, <1>1, <2>1, <2>2
<1>2. CASE m.kind = "completed"
  <2>1. Collected(r, m) = [Finalized(r) EXCEPT !.status = m.status, !.phase = "completed"]
    BY <1>2 DEF Collected
  <2>2. m.status \in Reports
    BY <1>2 DEF News
  <2>3. Collected(r, m) \in Results
    BY <2>1, <2>2, FinalizedTyped DEF Results
  <2> QED
    BY <1>0, <1>2, <2>1, <2>3
<1>3. CASE m.kind = "file"
  <2>1. m.name \in Nat /\ m.data \in Seq(Chunks)
    BY <1>3 DEF News
  <2>2. CASE m.name # NoName
    <3>1. Collected(r, m) = [Finalized(r) EXCEPT !.current = m.name, !.data = m.data, !.phase = "file"]
      BY <1>3, <2>2 DEF Collected
    <3>2. Collected(r, m) \in Results
      BY <2>1, <3>1, FinalizedTyped DEF Results
    <3> QED
      BY <1>0, <1>3, <2>2, <3>1, <3>2
  <2>3. CASE m.name = NoName
    <3>1. Collected(r, m) = IF r.current = NoName THEN r ELSE [r EXCEPT !.data = r.data \o m.data]
      BY <1>3, <2>3 DEF Collected
    <3>2. r.data \o m.data \in Seq(Chunks)
      BY <2>1, ConcatProperties DEF Results
    <3>3. Collected(r, m) \in Results
      BY <3>1, <3>2 DEF Results
    <3> QED
      BY <1>0, <1>3, <2>3, <3>1, <3>3
  <2> QED
    BY <2>2, <2>3
<1> QED
  BY <1>1, <1>2, <1>3 DEF StepMessages

(* The queue of the done messages is finite, and its guard bounds it. *)
LEMMA DoneBounded ==
  ASSUME ChannelsTyped, NEW m, Cardinality(done_rx) < DoneCap, done_rx' = done_rx \cup {m}
  PROVE  IsFiniteSet(done_rx') /\ Cardinality(done_rx') <= DoneCap
<1>1. IsFiniteSet(done_rx) /\ Cardinality(done_rx) \in Nat /\ DoneCap \in Nat
  BY FS_CardinalityType, Capacities DEF ChannelsTyped
<1>2. IsFiniteSet(done_rx') /\ (Cardinality(done_rx') = Cardinality(done_rx) \/
                                Cardinality(done_rx') = Cardinality(done_rx) + 1)
  BY <1>1, FS_AddElement
<1> QED
  BY <1>1, <1>2

LEMMA DoneTaken ==
  ASSUME ChannelsTyped, NEW m, done_rx' = done_rx \ {m}
  PROVE  IsFiniteSet(done_rx') /\ Cardinality(done_rx') <= DoneCap
<1>1. IsFiniteSet(done_rx) /\ Cardinality(done_rx) \in Nat /\ DoneCap \in Nat
  BY FS_CardinalityType, Capacities DEF ChannelsTyped
<1>2. IsFiniteSet(done_rx') /\ Cardinality(done_rx') \in Nat /\ Cardinality(done_rx') <= Cardinality(done_rx)
  BY <1>1, FS_Subset, FS_CardinalityType
<1> QED
  BY <1>1, <1>2 DEF ChannelsTyped

LEMMA ChannelsInit == RunInit => ChannelsTyped
<1> SUFFICES ASSUME RunInit PROVE ChannelsTyped
  OBVIOUS
<1>1. <<>> \in Seq(News) /\ Len(<<>>) = 0
  BY EmptySeq
<1>2. IsFiniteSet({}) /\ Cardinality({}) = 0
  BY FS_EmptySet
<1>3. Fresh \in Results
  <2>1. [f \in {} |-> <<>>] \in Contents
    BY DEF Contents
  <2> QED
    BY <2>1, EmptySeq DEF Fresh, Results, NoName
<1> QED
  BY <1>1, <1>2, <1>3, Capacities DEF RunInit, Init, ChannelsTyped

LEMMA ChannelsScheduler ==
  ASSUME ChannelsTyped, TypeOK, TypeOK', SchedulerRuns
  PROVE  ChannelsTyped'
<1>1. CASE Announce
  <2>1. ToClient(Begun) /\ UNCHANGED <<done_rx, events, client, result>>
    BY <1>1 DEF Announce, vars, caller
  <2> QED
    BY <2>1, ToClientTyped, NewsTyped DEF ChannelsTyped
<1>2. CASE MakeTempDir
  <2>1. (out' = out \/ ToClient(Error)) /\ UNCHANGED <<done_rx, events, client, result>>
    BY <1>2 DEF MakeTempDir, Begin, TempDirFails, caller
  <2> QED
    BY <2>1, ToClientTyped, NewsTyped DEF ChannelsTyped
<1>3. ASSUME NEW s \in Steps, Launch(s) PROVE ChannelsTyped'
  <2>1. ToClient(Started(s)) /\ UNCHANGED <<done_rx, events, client, result>>
    BY <1>3 DEF Launch, LaunchReady, caller
  <2> QED
    BY <2>1, ToClientTyped, NewsTyped DEF ChannelsTyped
<1>4. CASE Tell
  <2>1. UNCHANGED <<done_rx, events, client, result>>
    BY <1>4 DEF Tell, LaunchFails, SkipReady, SweepUnfinished, FinishPipeline, caller
  <2>2. summary' \in [all_succeeded : BOOLEAN, skipped_steps : SUBSET Steps]
    BY DEF TypeOK
  <2>3. PICK what : what = summary'
    OBVIOUS
  <2>4. \/ ToClient(Error)
        \/ \E s \in Steps : ToClient(Completed(s, "skipped")) \/ ToClient(Completed(s, "timed_out"))
        \/ ToClient(Closed(what))
    BY <1>4, <2>3 DEF Tell, Closed
  <2>5. /\ Error \in News /\ Closed(what) \in News
        /\ \A s \in Steps : Completed(s, "skipped") \in News /\ Completed(s, "timed_out") \in News
    BY <2>2, <2>3, NewsTyped DEF Reports
  <2>6. out' \in Seq(News) /\ Len(out') <= OutCap
    BY <2>4, <2>5, ToClientTyped
  <2> QED
    BY <2>1, <2>6 DEF ChannelsTyped
<1>5. CASE Listen
  <2>1. UNCHANGED <<out, events, client, result>>
    BY <1>5 DEF Listen, caller
  <2>2. done_rx' = done_rx \/ \E m \in StepDone : done_rx' = done_rx \ {m}
    BY <1>5 DEF Listen, DeadlineHits, RecordDone, DrainDone
  <2>3. IsFiniteSet(done_rx') /\ Cardinality(done_rx') <= DoneCap
    BY <2>2, DoneTaken DEF ChannelsTyped
  <2> QED
    BY <2>1, <2>3 DEF ChannelsTyped
<1> QED
  BY <1>1, <1>2, <1>3, <1>4, <1>5 DEF SchedulerRuns

LEMMA ChannelsExecutor ==
  ASSUME ChannelsTyped, RunIInv, NEW s \in Steps, Executor(s)
  PROVE  ChannelsTyped'
<1>1. UNCHANGED <<done_rx, out, client, result>>
  BY DEF Executor, EmitOutput, EmitCompleted, ExecFails, Emit, vars, caller
<1>2. \/ events' = events
      \/ \E e \in StepEvents : events' = [events EXCEPT ![s] = Append(events[s], e)] /\ Len(events[s]) < EventCap
  <2>1. CASE EmitOutput(s)
    <3>1. Output(s) \in StepEvents
      BY DEF Output, StepEvents
    <3> QED
      BY <2>1, <3>1 DEF EmitOutput, Emit
  <2>2. CASE EmitCompleted(s)
    <3>1. PICK how \in {"succeeded", "failed"}, files \in FileLists :
             Emit(s, [kind |-> "completed", step |-> s, status |-> how, files |-> files])
      BY <2>2 DEF EmitCompleted
    <3>2. [kind |-> "completed", step |-> s, status |-> how, files |-> files] \in StepEvents
      BY DEF StepEvents
    <3> QED
      BY <3>1, <3>2 DEF Emit
  <2>3. CASE ExecFails(s)
    BY <2>3 DEF ExecFails
  <2> QED
    BY <2>1, <2>2, <2>3 DEF Executor
<1>3. ASSUME NEW e \in StepEvents, Len(events[s]) < EventCap,
             events' = [events EXCEPT ![s] = Append(events[s], e)]
      PROVE  \A t \in Steps : Len(events'[t]) <= EventCap
  <2>1. /\ events \in [Steps -> Seq(StepEvents)] /\ Len(events[s]) \in Nat /\ EventCap \in Nat
        /\ Len(Append(events[s], e)) = Len(events[s]) + 1
    BY Capacities, LenProperties, AppendProperties DEF RunIInv, TasksTyped
  <2> QED
    BY <1>3, <2>1 DEF ChannelsTyped
<1>4. \A t \in Steps : Len(events'[t]) <= EventCap
  BY <1>2, <1>3 DEF ChannelsTyped
<1> QED
  BY <1>1, <1>4 DEF ChannelsTyped

LEMMA ChannelsTask ==
  ASSUME ChannelsTyped, RunIInv, FilesTyped, TypeOK, NEW s \in Steps, TaskRuns(s)
  PROVE  ChannelsTyped'
<1>1. UNCHANGED <<client, result>>
  BY DEF TaskRuns, Receive, Cancel, EventsClosed, ForwardOutput, ForwardCompleted, StreamChunk,
         StreamFails, FilesStreamed, SendTimedOut, SendDone, caller
<1>2. \A t \in Steps : Len(events'[t]) <= EventCap
  <2>1. CASE Receive(s)
    <3>1. events' = [events EXCEPT ![s] = Tail(events[s])] /\ events[s] # <<>>
      BY <2>1 DEF Receive
    <3>2. /\ events \in [Steps -> Seq(StepEvents)] /\ Len(events[s]) \in Nat /\ EventCap \in Nat
          /\ Len(Tail(events[s])) = Len(events[s]) - 1
      BY <3>1, Capacities, LenProperties, HeadTailProperties DEF RunIInv, TasksTyped
    <3> QED
      BY <3>1, <3>2 DEF ChannelsTyped
  <2>2. CASE UNCHANGED events
    BY <2>2 DEF ChannelsTyped
  <2> QED
    BY <2>1, <2>2 DEF TaskRuns, Cancel, EventsClosed, ForwardOutput, ForwardCompleted,
         StreamChunk, StreamFails, FilesStreamed, SendTimedOut, SendDone
<1>3. IsFiniteSet(done_rx') /\ Cardinality(done_rx') <= DoneCap
  <2>1. CASE SendDone(s)
    BY <2>1, DoneBounded DEF SendDone, TaskFailsSilently, TaskEnds, TaskOrphaned, ChannelsTyped
  <2>2. CASE UNCHANGED done_rx
    BY <2>2 DEF ChannelsTyped
  <2> QED
    BY <2>1, <2>2 DEF TaskRuns, Receive, Cancel, EventsClosed, ForwardOutput, ForwardCompleted,
         StreamChunk, StreamFails, FilesStreamed, SendTimedOut, TaskReports, TaskCancelled, vars
<1>4. out' \in Seq(News) /\ Len(out') <= OutCap
  <2>0. /\ hand[s] \in StepEvents \cup {Nothing}
        /\ at[s] = <<at[s][1], at[s][2]>> /\ at[s] \in Chunks /\ at[s][1] \in Nat
    BY SizesTyped DEF RunIInv, TasksTyped, FilesTyped
  <2>1. CASE ForwardOutput(s)
    <3>1. hand[s] \in News /\ ToClient(hand[s])
      BY <2>0, <2>1 DEF ForwardOutput, StepEvents, Nothing, News
    <3> QED
      BY <3>1, ToClientTyped
  <2>2. CASE ForwardCompleted(s)
    <3>1. hand[s].status \in Reports /\ ToClient(Completed(s, hand[s].status))
      BY <2>0, <2>2 DEF ForwardCompleted, CompletedSent, StepEvents, Nothing, Reports
    <3> QED
      BY <3>1, ToClientTyped, NewsTyped
  <2>3. CASE StreamChunk(s)
    <3>1. PICK name \in Nat : ToClient(FileChunk(s, name, <<at[s]>>))
      BY <2>0, <2>3 DEF StreamChunk, NoName
    <3>2. FileChunk(s, name, <<at[s]>>) \in News
      BY <2>0, NewsTyped
    <3> QED
      BY <3>1, <3>2, ToClientTyped
  <2>4. CASE SendTimedOut(s)
    <3>1. ToClient(Completed(s, "timed_out")) /\ Completed(s, "timed_out") \in News
      BY <2>4, NewsTyped DEF SendTimedOut, Reports
    <3> QED
      BY <3>1, ToClientTyped
  <2>5. CASE UNCHANGED out
    BY <2>5 DEF ChannelsTyped
  <2> QED
    BY <2>1, <2>2, <2>3, <2>4, <2>5
       DEF TaskRuns, Receive, Cancel, EventsClosed, StreamFails, FilesStreamed, SendDone
<1> QED
  BY <1>1, <1>2, <1>3, <1>4 DEF ChannelsTyped

LEMMA ChannelsClient ==
  ASSUME ChannelsTyped, Client
  PROVE  ChannelsTyped'
<1>1. UNCHANGED <<done_rx, events>>
  BY DEF Client, Take, Leave, vars
<1>2. CASE Leave
  <2>1. <<>> \in Seq(News) /\ Len(<<>>) = 0 /\ OutCap \in Nat
    BY EmptySeq, Capacities
  <2>2. Fresh \in Results
    <3>1. [f \in {} |-> <<>>] \in Contents
      BY DEF Contents
    <3> QED
      BY <3>1, EmptySeq DEF Fresh, Results, NoName
  <2>3. out' = <<>> /\ client' \in {"gone", "failed"} /\ result' = [s \in Steps |-> Fresh]
    BY <1>2 DEF Leave
  <2> QED
    BY <1>1, <2>1, <2>2, <2>3 DEF ChannelsTyped
<1>3. CASE Take
  <2>1. /\ out # <<>> /\ out \in Seq(News) /\ out' = Tail(out) /\ client = "reading"
    BY <1>3 DEF Take, ChannelsTyped
  <2>2. out' \in Seq(News) /\ Len(out') <= OutCap
    BY <2>1, Capacities, LenProperties, HeadTailProperties DEF ChannelsTyped
  <2>3. Head(out) \in News
    BY <2>1, HeadTailProperties
  <2>4. PICK h \in News : h = Head(out)
    BY <2>3
  <2>5. CASE h.kind = "begun"
    <3>1. UNCHANGED <<client, result>>
      BY <1>3, <2>4, <2>5 DEF Take, caller, StepMessages
    <3> QED
      BY <1>1, <2>2, <3>1 DEF ChannelsTyped
  <2>6. CASE h.kind \in StepMessages
    <3>1. result' = [result EXCEPT ![h.step] = Collected(result[h.step], h)] /\ client' = client
      BY <1>3, <2>4, <2>6 DEF Take, StepMessages
    <3>2. h.step \in Steps /\ result[h.step] \in Results
      BY <2>6, CollectedTyped DEF News, StepMessages, ChannelsTyped
    <3>3. Collected(result[h.step], h) \in Results
      BY <2>6, <3>2, CollectedTyped
    <3> QED
      BY <1>1, <2>2, <3>1, <3>2, <3>3 DEF ChannelsTyped
  <2>7. CASE h.kind = "closed"
    <3>1. result' = [s \in Steps |-> ClosedOf(result[s])] /\ client' = "done"
      BY <1>3, <2>4, <2>7 DEF Take, StepMessages
    <3>2. \A s \in Steps : ClosedOf(result[s]) \in Results
      BY FinalizedTyped DEF ClosedOf, ChannelsTyped
    <3> QED
      BY <1>1, <2>2, <3>1, <3>2 DEF ChannelsTyped
  <2>8. h.kind # "error"
    BY <1>3, <2>4 DEF Take
  <2> QED
    BY <2>4, <2>5, <2>6, <2>7, <2>8 DEF News, StepMessages
<1> QED
  BY <1>2, <1>3 DEF Client

RunStateInv == IInv /\ TaskIInv /\ ChannelsTyped

LEMMA RunStateNext == RunStateInv /\ IInv' /\ [RunNext]_RunVars => RunStateInv'
<1> SUFFICES ASSUME RunStateInv, IInv', [RunNext]_RunVars
             PROVE  RunStateInv'
  OBVIOUS
<1>0. IInv /\ TaskIInv /\ ChannelsTyped /\ RunIInv /\ FilesTyped /\ TypeOK
  BY DEF RunStateInv, TaskIInv, IInv
<1>1. TaskIInv'
  BY <1>0, FilesNextPreserves
<1>2. TypeOK'
  BY DEF IInv
<1>3. ChannelsTyped'
  <2>1. CASE RunOver \/ UNCHANGED RunVars
    BY <1>0, <2>1 DEF RunOver, RunVars, vars, caller, ChannelsTyped
  <2>2. CASE Client
    BY <1>0, <2>2, ChannelsClient
  <2>3. CASE SchedulerRuns
    BY <1>0, <1>2, <2>3, ChannelsScheduler
  <2>4. ASSUME NEW s \in Steps, Executor(s) \/ TaskRuns(s)
        PROVE  ChannelsTyped'
    BY <1>0, <2>4, ChannelsExecutor, ChannelsTask
  <2> QED
    BY <2>1, <2>2, <2>3, <2>4 DEF RunNext
<1> QED
  BY <1>1, <1>3 DEF RunStateInv

(* The inductive invariant of the state of a whole RunPipeline but for     *)
(* what its client is told.                                                *)
THEOREM RunStateInvariant == RunSpec => []RunStateInv
<1>1. RunSpec => []IInv
  BY RefinesScheduler, SchedulerInvariant, PTL
<1>2. RunSpec => []TaskIInv
  BY TasksKeepFiles
<1>3. RunInit /\ IInv /\ TaskIInv => RunStateInv
  BY ChannelsInit DEF RunStateInv
<1> QED
  BY <1>1, <1>2, <1>3, RunStateNext, PTL DEF RunSpec

(* For channels of any capacity the state of a RunPipeline is well typed,  *)
(* and no channel ever holds more than it has room for.                    *)
THEOREM RunTypes == RunSpec => []RunTypeOK
<1>1. RunStateInv => RunTypeOK
  <2> SUFFICES ASSUME RunStateInv PROVE RunTypeOK
    OBVIOUS
  <2>1. News \subseteq Messages
    <3>1. Seq(Chunks) \subseteq Seq(Nat \X Nat)
      BY DEF Chunks
    <3> QED
      BY <3>1 DEF News, Messages
  <2>2. out \in Seq(Messages)
    BY <2>1 DEF RunStateInv, ChannelsTyped
  <2> QED
    BY <2>2 DEF RunTypeOK, RunStateInv, ChannelsTyped, TaskIInv, FilesTyped, RunIInv, TasksTyped, IInv
<1> QED
  BY <1>1, RunStateInvariant, PTL

-----------------------------------------------------------------------------
(* What is on its way to the client *)

(* A message of step s, and one of a given kind. *)
Of(m, s)           == m.kind \in StepMessages /\ m.step = s
Brings(m, s, what) == m.kind = what /\ m.kind \in StepMessages /\ m.step = s

(* The place of a chunk: its file, and which chunk of the file it is. *)
Spot(m)       == m.data[1]
Earlier(p, q) == p[1] < q[1] \/ (p[1] = q[1] /\ p[2] < q[2])

Queued(q, s, what)   == \E i \in DOMAIN q : Brings(q[i], s, what)
QueuedChunk(q, s, p) == \E i \in DOMAIN q : Brings(q[i], s, "file") /\ Spot(q[i]) = p

(* The order in which two messages of a step are sent. *)
Before(m, n) ==
    \/ m.kind \in {"started", "output"} /\ n.kind # "started"
    \/ m.kind = "completed" /\ n.kind = "file"
    \/ m.kind = "file" /\ n.kind = "file" /\ Earlier(Spot(m), Spot(n))

Ordered(q, s) ==
    \A i, j \in DOMAIN q : i < j /\ Of(q[i], s) /\ Of(q[j], s) => Before(q[i], q[j])

(* What the client has of the files of a step, and the last chunk of each. *)
Has(r)     == Finalized(r).files
Last(r, f) == <<f, Len(Has(r)[f])>>

(* A message that may still come after what the client has. *)
Comes(r, m) ==
    /\ r.phase \in {"started", "output"} => m.kind # "started"
    /\ r.phase \in {"completed", "file"} => m.kind = "file"
    /\ m.kind = "file" => \A f \in DOMAIN Has(r) : Earlier(Last(r, f), Spot(m))

Continues(r, q, s) == \A i \in DOMAIN q : Of(q[i], s) => Comes(r, q[i])

(* No chunk comes without the one before it in its file. *)
Linked(r, q, s) ==
    \A i \in DOMAIN q : Brings(q[i], s, "file") /\ Spot(q[i])[2] # 1 =>
        \/ r.current = Spot(q[i])[1] /\ Len(r.data) = Spot(q[i])[2] - 1
        \/ QueuedChunk(q, s, <<Spot(q[i])[1], Spot(q[i])[2] - 1>>)

(* The final event of the step is still to be sent by its task. *)
Live(s) ==
    \/ place[s] \in {"handling", "cancelling"}
    \/ place[s] = "selecting" /\ ~CompletedSent(s)

ChunkOf(s, p) == p[1] \in 1 .. Len(sizes[s]) /\ p[2] \in 1 .. sizes[s][p[1]]

(* A message of step s is true of it. *)
Sound(s, m) ==
    /\ report[s] # "none"
    /\ m.kind # "completed" => place[s] # "unborn"
    /\ Live(s) => m.kind \in {"started", "output"}
    /\ m.kind = "completed" /\ phase # "aborted" =>
          m.status = report[s] /\ report[s] \notin {"none", "started"}
    /\ m.kind = "file" =>
          /\ Forwarded(s) /\ ChunkOf(s, Spot(m)) /\ Earlier(Spot(m), at[s])
          /\ Spot(m) \in Chunks /\ m.data = <<Spot(m)>>
          /\ m.name = (IF Spot(m)[2] = 1 THEN Spot(m)[1] ELSE NoName)

Msgs == {out[i] : i \in DOMAIN out}

MessagesSound(s) == \A m \in Msgs : Of(m, s) => Sound(s, m)

(* What has been sent is with the client or on its way. *)
Told(s) ==
    /\ place[s] # "unborn" => result[s].phase # "none" \/ Queued(out, s, "started")
    /\ Forwarded(s) =>
          result[s].phase \in {"completed", "file"} \/ Queued(out, s, "completed")
    /\ phase # "aborted" /\ report[s] \notin {"none", "started"} =>
          result[s].status = report[s] \/ Queued(out, s, "completed")

Prefix(f, n) == [c \in 1 .. n |-> <<f, c>>]

(* What the client has of step s is true of it. *)
Collects(s, r) ==
    /\ report[s] = "none" => r.phase = "none"
    /\ place[s] = "unborn" => r.phase \in {"none", "completed"}
    /\ Live(s) => r.phase \in {"none", "started", "output"}
    /\ r.phase # "file" => r.current = NoName /\ DOMAIN r.files = {}
    /\ phase # "aborted" /\ r.status # "unspecified" =>
          r.status = report[s] /\ report[s] \notin {"none", "started"}
    /\ \A f \in DOMAIN Has(r) :
          /\ ChunkOf(s, Last(r, f)) /\ Earlier(Last(r, f), at[s])
          /\ Has(r)[f] = Prefix(f, Len(Has(r)[f]))
          /\ client = "reading" => f <= r.current

(* Of a file that is not lost every chunk sent is there or on its way. *)
Arrives(s) ==
    \A p \in Chunks : ChunkOf(s, p) /\ Earlier(p, at[s]) /\ <<s, p[1]>> \notin broken =>
        \/ p[1] \in DOMAIN Has(result[s]) /\ p[2] <= Len(Has(result[s])[p[1]])
        \/ QueuedChunk(out, s, p)

(* No file of a step it depends on comes after a step has started. *)
Waits(s) ==
    \A d \in DepsOf(dep_map, s) :
        /\ \A i, j \in DOMAIN out :
              i < j /\ Brings(out[i], s, "started") => ~Brings(out[j], d, "file")
        /\ place[s] # "unborn" /\ result[s].phase # "none" => ~Queued(out, d, "file")

StepTold(s) ==
    /\ Ordered(out, s) /\ Continues(result[s], out, s) /\ Linked(result[s], out, s)
    /\ MessagesSound(s) /\ Told(s) /\ Collects(s, result[s]) /\ Arrives(s) /\ Waits(s)

(* PipelineCompleted is the last message, and says what the pipeline does. *)
Closing ==
    /\ \A i \in DOMAIN out : out[i].kind = "closed" =>
          i = Len(out) /\ phase = "finished" /\ out[i].summary = summary
    /\ client = "done" =>
          /\ phase = "finished" /\ verdict = summary /\ out = <<>>
          /\ \A s \in Steps : result[s].current = NoName

ClientIInv ==
    /\ client \in {"reading", "done"} => Closing /\ \A s \in Steps : StepTold(s)
    /\ client \in {"gone", "failed"} => \A s \in Steps : result[s] = Fresh

RunClientInv == RunStateInv /\ ClientIInv

-----------------------------------------------------------------------------
(* Queues *)

LEMMA EarlierThan ==
  ASSUME NEW p, NEW q, NEW r, Earlier(p, q), Earlier(q, r),
         p[1] \in Nat, p[2] \in Nat, q[1] \in Nat, q[2] \in Nat, r[1] \in Nat, r[2] \in Nat
  PROVE  Earlier(p, r)
BY DEF Earlier

LEMMA AppendAt ==
  ASSUME NEW q \in Seq(News), NEW m \in News
  PROVE  /\ Len(q) \in Nat /\ DOMAIN q = 1 .. Len(q)
         /\ DOMAIN Append(q, m) = 1 .. Len(q) + 1
         /\ Append(q, m)[Len(q) + 1] = m
         /\ \A i \in 1 .. Len(q) : Append(q, m)[i] = q[i]
BY AppendProperties, LenProperties

LEMMA TailAt ==
  ASSUME NEW q \in Seq(News), q # <<>>
  PROVE  /\ Len(q) \in Nat \ {0} /\ DOMAIN q = 1 .. Len(q)
         /\ Head(q) = q[1] /\ Head(q) \in News /\ Tail(q) \in Seq(News)
         /\ DOMAIN Tail(q) = 1 .. Len(q) - 1
         /\ \A i \in 1 .. Len(q) - 1 : Tail(q)[i] = q[i + 1]
BY HeadTailProperties, LenProperties, EmptySeq

LEMMA QueuedAppend ==
  ASSUME NEW q \in Seq(News), NEW m \in News, NEW s
  PROVE  /\ \A what : Queued(Append(q, m), s, what) <=> Queued(q, s, what) \/ Brings(m, s, what)
         /\ \A p : QueuedChunk(Append(q, m), s, p) <=>
                      QueuedChunk(q, s, p) \/ (Brings(m, s, "file") /\ Spot(m) = p)
<1> DEFINE a == Append(q, m)
<1>1. /\ Len(q) \in Nat /\ DOMAIN q = 1 .. Len(q) /\ DOMAIN a = 1 .. Len(q) + 1
      /\ a[Len(q) + 1] = m /\ \A i \in 1 .. Len(q) : a[i] = q[i]
  BY AppendAt
<1> HIDE DEF a
<1>2. ASSUME NEW i \in DOMAIN a PROVE (i \in DOMAIN q /\ a[i] = q[i]) \/ a[i] = m
  BY <1>1
<1>3. ASSUME NEW i \in DOMAIN q PROVE i \in DOMAIN a /\ a[i] = q[i]
  BY <1>1
<1>4. Len(q) + 1 \in DOMAIN a /\ a[Len(q) + 1] = m
  BY <1>1
<1>5. \A what : Queued(a, s, what) <=> Queued(q, s, what) \/ Brings(m, s, what)
  BY <1>2, <1>3, <1>4 DEF Queued
<1>6. \A p : QueuedChunk(a, s, p) <=> QueuedChunk(q, s, p) \/ (Brings(m, s, "file") /\ Spot(m) = p)
  BY <1>2, <1>3, <1>4 DEF QueuedChunk
<1> QED
  BY <1>5, <1>6 DEF a

LEMMA QueuedTail ==
  ASSUME NEW q \in Seq(News), q # <<>>, NEW s
  PROVE  /\ \A what : Queued(q, s, what) <=> Queued(Tail(q), s, what) \/ Brings(Head(q), s, what)
         /\ \A p : QueuedChunk(q, s, p) <=>
                      QueuedChunk(Tail(q), s, p) \/ (Brings(Head(q), s, "file") /\ Spot(Head(q)) = p)
<1> DEFINE t == Tail(q)
           h == Head(q)
<1>1. /\ Len(q) \in Nat \ {0} /\ DOMAIN q = 1 .. Len(q) /\ DOMAIN t = 1 .. Len(q) - 1
      /\ h = q[1] /\ \A i \in 1 .. Len(q) - 1 : t[i] = q[i + 1]
  BY TailAt
<1> HIDE DEF t, h
<1>2. ASSUME NEW i \in DOMAIN t PROVE \E j \in DOMAIN q : q[j] = t[i]
  <2>1. i + 1 \in DOMAIN q /\ q[i + 1] = t[i]
    BY <1>1
  <2> QED
    BY <2>1
<1>3. ASSUME NEW i \in DOMAIN q PROVE q[i] = h \/ \E j \in DOMAIN t : t[j] = q[i]
  <2>1. CASE i = 1
    BY <1>1, <2>1
  <2>2. CASE i # 1
    <3>1. i - 1 \in DOMAIN t /\ t[i - 1] = q[i]
      BY <1>1, <2>2
    <3> QED
      BY <3>1
  <2> QED
    BY <2>1, <2>2
<1>4. 1 \in DOMAIN q /\ q[1] = h
  BY <1>1
<1>5. \A what : Queued(q, s, what) <=> Queued(t, s, what) \/ Brings(h, s, what)
  BY <1>2, <1>3, <1>4 DEF Queued
<1>6. \A p : QueuedChunk(q, s, p) <=> QueuedChunk(t, s, p) \/ (Brings(h, s, "file") /\ Spot(h) = p)
  BY <1>2, <1>3, <1>4 DEF QueuedChunk
<1> QED
  BY <1>5, <1>6 DEF t, h

(* A queue stays in order when what is added comes after all it holds. *)
LEMMA OrderedAppend ==
  ASSUME NEW q \in Seq(News), NEW m \in News, NEW s, Ordered(q, s),
         Of(m, s) => \A i \in DOMAIN q : Of(q[i], s) => Before(q[i], m)
  PROVE  Ordered(Append(q, m), s)
<1> DEFINE a == Append(q, m)
<1>1. /\ Len(q) \in Nat /\ DOMAIN q = 1 .. Len(q) /\ DOMAIN a = 1 .. Len(q) + 1
      /\ a[Len(q) + 1] = m /\ \A i \in 1 .. Len(q) : a[i] = q[i]
  BY AppendAt
<1> HIDE DEF a
<1>2. ASSUME NEW i \in DOMAIN a, NEW j \in DOMAIN a, i < j, Of(a[i], s), Of(a[j], s)
      PROVE  Before(a[i], a[j])
  <2>1. i \in DOMAIN q /\ a[i] = q[i]
    BY <1>1, <1>2
  <2>2. CASE j \in DOMAIN q
    BY <1>1, <1>2, <2>1, <2>2 DEF Ordered
  <2>3. CASE j = Len(q) + 1
    BY <1>1, <1>2, <2>1, <2>3
  <2> QED
    BY <1>1, <2>2, <2>3
<1>3. Ordered(a, s)
  BY <1>2 DEF Ordered
<1> QED
  BY <1>3 DEF a

LEMMA OrderedTail ==
  ASSUME NEW q \in Seq(News), q # <<>>, NEW s, Ordered(q, s)
  PROVE  /\ Ordered(Tail(q), s)
         /\ Of(Head(q), s) => \A i \in DOMAIN Tail(q) :
                                 Of(Tail(q)[i], s) => Before(Head(q), Tail(q)[i])
<1> DEFINE t == Tail(q)
           h == Head(q)
<1>1. /\ Len(q) \in Nat \ {0} /\ DOMAIN q = 1 .. Len(q) /\ DOMAIN t = 1 .. Len(q) - 1
      /\ h = q[1] /\ \A i \in 1 .. Len(q) - 1 : t[i] = q[i + 1]
  BY TailAt
<1> HIDE DEF t, h
<1>2. ASSUME NEW i \in DOMAIN t, NEW j \in DOMAIN t, i < j, Of(t[i], s), Of(t[j], s)
      PROVE  Before(t[i], t[j])
  <2>1. i + 1 \in DOMAIN q /\ j + 1 \in DOMAIN q /\ i + 1 < j + 1 /\ t[i] = q[i + 1] /\ t[j] = q[j + 1]
    BY <1>1, <1>2
  <2> QED
    BY <1>2, <2>1 DEF Ordered
<1>3. ASSUME Of(h, s), NEW i \in DOMAIN t, Of(t[i], s)
      PROVE  Before(h, t[i])
  <2>1. 1 \in DOMAIN q /\ i + 1 \in DOMAIN q /\ 1 < i + 1 /\ t[i] = q[i + 1] /\ h = q[1]
    BY <1>1
  <2> QED
    BY <1>3, <2>1 DEF Ordered
<1>4. Ordered(t, s) /\ (Of(h, s) => \A i \in DOMAIN t : Of(t[i], s) => Before(h, t[i]))
  BY <1>2, <1>3 DEF Ordered
<1> QED
  BY <1>4 DEF t, h

LEMMA ContinuesAppend ==
  ASSUME NEW q \in Seq(News), NEW m \in News, NEW s, NEW r, Continues(r, q, s),
         Of(m, s) => Comes(r, m)
  PROVE  Continues(r, Append(q, m), s)
<1> DEFINE a == Append(q, m)
<1>1. /\ Len(q) \in Nat /\ DOMAIN q = 1 .. Len(q) /\ DOMAIN a = 1 .. Len(q) + 1
      /\ a[Len(q) + 1] = m /\ \A i \in 1 .. Len(q) : a[i] = q[i]
  BY AppendAt
<1> HIDE DEF a
<1>2. ASSUME NEW i \in DOMAIN a PROVE (i \in DOMAIN q /\ a[i] = q[i]) \/ a[i] = m
  BY <1>1
<1>3. Continues(r, a, s)
  BY <1>2 DEF Continues
<1> QED
  BY <1>3 DEF a

LEMMA ContinuesTail ==
  ASSUME NEW q \in Seq(News), q # <<>>, NEW s, NEW r, Continues(r, q, s)
  PROVE  /\ Continues(r, Tail(q), s)
         /\ Of(Head(q), s) => Comes(r, Head(q))
<1> DEFINE t == Tail(q)
           h == Head(q)
<1>1. /\ Len(q) \in Nat \ {0} /\ DOMAIN q = 1 .. Len(q) /\ DOMAIN t = 1 .. Len(q) - 1
      /\ h = q[1] /\ \A i \in 1 .. Len(q) - 1 : t[i] = q[i + 1]
  BY TailAt
<1> HIDE DEF t, h
<1>2. ASSUME NEW i \in DOMAIN t PROVE i + 1 \in DOMAIN q /\ q[i + 1] = t[i]
  BY <1>1
<1>3. 1 \in DOMAIN q /\ q[1] = h
  BY <1>1
<1>4. Continues(r, t, s) /\ (Of(h, s) => Comes(r, h))
  BY <1>2, <1>3 DEF Continues
<1> QED
  BY <1>4 DEF t, h

LEMMA LinkedAppend ==
  ASSUME NEW q \in Seq(News), NEW m \in News, NEW s, NEW r, Linked(r, q, s),
         Brings(m, s, "file") /\ Spot(m)[2] # 1 =>
            \/ r.current = Spot(m)[1] /\ Len(r.data) = Spot(m)[2] - 1
            \/ QueuedChunk(q, s, <<Spot(m)[1], Spot(m)[2] - 1>>)
  PROVE  Linked(r, Append(q, m), s)
<1> DEFINE a == Append(q, m)
<1>1. /\ Len(q) \in Nat /\ DOMAIN q = 1 .. Len(q) /\ DOMAIN a = 1 .. Len(q) + 1
      /\ a[Len(q) + 1] = m /\ \A i \in 1 .. Len(q) : a[i] = q[i]
  BY AppendAt
<1>2. \A p : QueuedChunk(q, s, p) => QueuedChunk(a, s, p)
  BY QueuedAppend
<1> HIDE DEF a
<1>3. ASSUME NEW i \in DOMAIN a PROVE (i \in DOMAIN q /\ a[i] = q[i]) \/ a[i] = m
  BY <1>1
<1>4. Linked(r, a, s)
  BY <1>2, <1>3 DEF Linked
<1> QED
  BY <1>4 DEF a

(* Is the chunk before another one taken, the client must be at it. *)
LEMMA LinkedTail ==
  ASSUME NEW q \in Seq(News), q # <<>>, NEW s, NEW r, NEW new, Linked(r, q, s),
         \A i \in DOMAIN Tail(q) : Brings(Tail(q)[i], s, "file") /\ Spot(Tail(q)[i])[2] # 1 =>
            LET p == Spot(Tail(q)[i])
            IN  /\ r.current = p[1] /\ Len(r.data) = p[2] - 1 =>
                      new.current = p[1] /\ Len(new.data) = p[2] - 1
                /\ Brings(Head(q), s, "file") /\ Spot(Head(q)) = <<p[1], p[2] - 1>> =>
                      new.current = p[1] /\ Len(new.data) = p[2] - 1
  PROVE  Linked(new, Tail(q), s)
<1> DEFINE t == Tail(q)
           h == Head(q)
<1>1. /\ Len(q) \in Nat \ {0} /\ DOMAIN q = 1 .. Len(q) /\ DOMAIN t = 1 .. Len(q) - 1
      /\ h = q[1] /\ \A i \in 1 .. Len(q) - 1 : t[i] = q[i + 1]
  BY TailAt
<1>2. \A p : QueuedChunk(q, s, p) <=> QueuedChunk(t, s, p) \/ (Brings(h, s, "file") /\ Spot(h) = p)
  BY QueuedTail
<1>3. \A i \in DOMAIN t : Brings(t[i], s, "file") /\ Spot(t[i])[2] # 1 =>
            /\ r.current = Spot(t[i])[1] /\ Len(r.data) = Spot(t[i])[2] - 1 =>
                  new.current = Spot(t[i])[1] /\ Len(new.data) = Spot(t[i])[2] - 1
            /\ Brings(h, s, "file") /\ Spot(h) = <<Spot(t[i])[1], Spot(t[i])[2] - 1>> =>
                  new.current = Spot(t[i])[1] /\ Len(new.data) = Spot(t[i])[2] - 1
  OBVIOUS
<1> HIDE DEF t, h
<1>4. ASSUME NEW i \in DOMAIN t, Brings(t[i], s, "file"), Spot(t[i])[2] # 1
      PROVE  \/ new.current = Spot(t[i])[1] /\ Len(new.data) = Spot(t[i])[2] - 1
             \/ QueuedChunk(t, s, <<Spot(t[i])[1], Spot(t[i])[2] - 1>>)
  <2>1. i + 1 \in DOMAIN q /\ q[i + 1] = t[i]
    BY <1>1
  <2>2. \/ r.current = Spot(t[i])[1] /\ Len(r.data) = Spot(t[i])[2] - 1
        \/ QueuedChunk(q, s, <<Spot(t[i])[1], Spot(t[i])[2] - 1>>)
    BY <1>4, <2>1 DEF Linked
  <2> QED
    BY <1>2, <1>3, <1>4, <2>2
<1>5. Linked(new, t, s)
  BY <1>4 DEF Linked
<1> QED
  BY <1>5 DEF t, h

-----------------------------------------------------------------------------
(* What a step other than the client's does to what the client is told     *)

(* The state of step s only goes forward. *)
Advances(s) ==
    /\ Live(s)' => Live(s) \/ report[s] = "none"
    /\ place[s] # "unborn" => place'[s] # "unborn"
    /\ place'[s] # "unborn" => place[s] # "unborn" \/ report[s] = "none"
    /\ Forwarded(s) => Forwarded(s)' /\ sizes'[s] = sizes[s]
    /\ at'[s] = at[s] \/ Earlier(at[s], at'[s])
    /\ report[s] # "none" => report'[s] # "none"
    /\ phase' # "aborted" => phase # "aborted"
    /\ phase' # "aborted" => report'[s] = report[s] \/ report[s] \in {"none", "started"}

(* A message of step s fits in after what it has sent. *)
Fits(s, m) ==
    Of(m, s) =>
        /\ Sound(s, m)'
        /\ m.kind = "started" => report[s] = "none"
        /\ m.kind = "output" => Live(s)
        /\ m.kind = "completed" => Live(s) \/ report[s] = "none"
        /\ m.kind = "file" =>
              place[s] = "streaming" /\ at[s][1] <= Len(sizes[s]) /\ Spot(m) = at[s]

(* What the step owes to the client, the message brings. *)
Owes(s, m) ==
    /\ place[s] = "unborn" /\ place'[s] # "unborn" => Brings(m, s, "started")
    /\ Forwarded(s)' /\ ~Forwarded(s) => Brings(m, s, "completed")
    /\ phase' # "aborted" /\ report'[s] \notin {"none", "started"} /\ report'[s] # report[s] =>
          Brings(m, s, "completed")
    /\ \A p \in Chunks : ChunkOf(s, p)' /\ Earlier(p, at'[s]) /\ <<s, p[1]>> \notin broken' =>
          \/ ChunkOf(s, p) /\ Earlier(p, at[s]) /\ <<s, p[1]>> \notin broken
          \/ Brings(m, s, "file") /\ Spot(m) = p

(* The message is sent; Begun also stands for none. *)
Sends(m) == out' = Append(out, m) \/ (out' = out /\ m = Begun)

Tells(m) ==
    /\ Sends(m)
    /\ m.kind = "closed" => phase' = "finished" /\ m.summary = summary'
    /\ \A s \in Steps : Advances(s) /\ Fits(s, m) /\ Owes(s, m)

LEMMA EarlierStays ==
  ASSUME FilesTyped, FilesTyped', NEW s \in Steps, NEW p, p[1] \in Nat, p[2] \in Nat,
         Earlier(p, at[s]), Advances(s)
  PROVE  Earlier(p, at'[s])
<1>1. /\ at[s][1] \in Nat /\ at[s][2] \in Nat /\ at'[s][1] \in Nat /\ at'[s][2] \in Nat
  BY DEF FilesTyped, Chunks
<1>2. at'[s] = at[s] \/ Earlier(at[s], at'[s])
  BY DEF Advances
<1> QED
  BY <1>1, <1>2, EarlierThan

LEMMA SoundStays ==
  ASSUME FilesTyped, FilesTyped', NEW s \in Steps, NEW m, Sound(s, m), Advances(s)
  PROVE  Sound(s, m)'
<1>1. m.kind = "file" => Earlier(Spot(m), at'[s])
  BY EarlierStays DEF Sound, Chunks
<1> QED
  BY <1>1 DEF Sound, Advances, ChunkOf

LEMMA CollectsStays ==
  ASSUME FilesTyped, FilesTyped', FilesMatch, NEW s \in Steps, NEW r \in Results,
         Collects(s, r), Advances(s), client' = client
  PROVE  Collects(s, r)'
<1>1. ASSUME NEW f \in DOMAIN Has(r)
      PROVE  ChunkOf(s, Last(r, f))' /\ Earlier(Last(r, f), at'[s])
  <2>1. ChunkOf(s, Last(r, f)) /\ Earlier(Last(r, f), at[s])
    BY DEF Collects
  <2>2. Forwarded(s)
    <3>1. ~Forwarded(s) => sizes[s] = <<>>
      BY DEF FilesMatch, FilesAgree
    <3> QED
      BY <2>1, <3>1 DEF ChunkOf
  <2>3. sizes'[s] = sizes[s] /\ Last(r, f)[1] \in Nat /\ Last(r, f)[2] \in Nat
    <3>1. Len(sizes[s]) \in Nat /\ \A g \in 1 .. Len(sizes[s]) : sizes[s][g] \in Nat
      BY SizesTyped
    <3> QED
      BY <2>1, <2>2, <3>1 DEF Advances, ChunkOf
  <2> QED
    BY <2>1, <2>3, EarlierStays DEF ChunkOf
<1>2. \A f \in DOMAIN Has(r) :
          /\ ChunkOf(s, Last(r, f))' /\ Earlier(Last(r, f), at'[s])
          /\ Has(r)[f] = Prefix(f, Len(Has(r)[f]))
          /\ client' = "reading" => f <= r.current
  BY <1>1 DEF Collects
<1> QED
  BY <1>2 DEF Collects, Advances

LEMMA FitsOrdered ==
  ASSUME NEW s \in Steps, NEW m, Of(m, s), Fits(s, m), NEW n, Of(n, s), Sound(s, n)
  PROVE  Before(n, m)
BY DEF Of, StepMessages, Fits, Sound, Before

LEMMA FitsComes ==
  ASSUME NEW s \in Steps, NEW m, Of(m, s), Fits(s, m), NEW r \in Results, Collects(s, r)
  PROVE  Comes(r, m)
BY DEF Of, StepMessages, Fits, Collects, Comes

LEMMA HasFiles ==
  ASSUME NEW r \in Results
  PROVE  /\ r.current = NoName => Has(r) = r.files
         /\ r.current # NoName =>
               /\ DOMAIN Has(r) = DOMAIN r.files \cup {r.current}
               /\ Has(r)[r.current] = r.data
               /\ \A f \in DOMAIN r.files : f # r.current => Has(r)[f] = r.files[f]
         /\ \A f \in DOMAIN Has(r) : f \in Nat \ {0} /\ Has(r)[f] \in Seq(Chunks)
<1>1. Finalized(r) \in Results
  BY FinalizedTyped
<1>2. PICK S \in SUBSET (Nat \ {0}) : Has(r) \in [S -> Seq(Chunks)]
  BY <1>1 DEF Has, Results, Contents
<1> QED
  BY <1>2, FinalizedTyped DEF Has

(* The next chunk links to the last one the client has, or one on its way. *)
LEMMA FitsLinked ==
  ASSUME FilesTyped, FilesMatch, ChannelsTyped, client = "reading", NEW s \in Steps,
         NEW m, Brings(m, s, "file"), Fits(s, m), Spot(m)[2] # 1,
         Collects(s, result[s]), Arrives(s)
  PROVE  \/ result[s].current = Spot(m)[1] /\ Len(result[s].data) = Spot(m)[2] - 1
         \/ QueuedChunk(out, s, <<Spot(m)[1], Spot(m)[2] - 1>>)
<1> DEFINE f == at[s][1]
           c == at[s][2] - 1
           r == result[s]
<1>1. Spot(m) = at[s] /\ at[s][1] <= Len(sizes[s])
  BY DEF Fits, Brings, Of
<1>2. /\ f \in Nat \ {0} /\ c \in Nat \ {0} /\ at[s][2] = c + 1
      /\ f \in 1 .. Len(sizes[s]) /\ sizes[s][f] \in Nat
  BY <1>1, SizesTyped
<1>3. at[s][2] <= sizes[s][f] /\ <<s, f>> \notin broken
  BY <1>1, <1>2 DEF FilesMatch, FilesAgree
<1>4. /\ <<f, c>> \in Chunks /\ ChunkOf(s, <<f, c>>) /\ Earlier(<<f, c>>, at[s])
  BY <1>2, <1>3 DEF Chunks, ChunkOf, Earlier
<1>5. (f \in DOMAIN Has(r) /\ c <= Len(Has(r)[f])) \/ QueuedChunk(out, s, <<f, c>>)
  BY <1>3, <1>4 DEF Arrives
<1>6. ASSUME f \in DOMAIN Has(r), c <= Len(Has(r)[f])
      PROVE  r.current = f /\ Len(r.data) = c
  <2>1. r \in Results
    BY DEF ChannelsTyped
  <2>2. \A g \in DOMAIN Has(r) : g \in Nat \ {0} /\ Len(Has(r)[g]) \in Nat
                                 /\ (g < f \/ (g = f /\ Len(Has(r)[g]) < c + 1)) /\ g <= r.current
    BY <1>2, <2>1, HasFiles, LenProperties DEF Collects, Earlier, Last
  <2>3. Len(Has(r)[f]) = c /\ f <= r.current /\ r.current # NoName /\ r.current \in Nat
    BY <1>2, <1>6, <2>1, <2>2 DEF NoName, Results
  <2>4. r.current \in DOMAIN Has(r) /\ Has(r)[r.current] = r.data
    BY <2>1, <2>3, HasFiles
  <2>5. r.current = f
    BY <1>2, <2>2, <2>3, <2>4
  <2> QED
    BY <2>3, <2>4, <2>5
<1> QED
  BY <1>1, <1>2, <1>5, <1>6

LEMMA DummyBrings == \A s, what : ~Brings(Begun, s, what) /\ ~Of(Begun, s)
BY DEF Begun, Brings, Of, StepMessages

(* What a message adds to the queue. *)
LEMMA SendsParts ==
  ASSUME ChannelsTyped, NEW m \in News, Sends(m)
  PROVE  /\ \A s, what : Queued(out', s, what) <=> Queued(out, s, what) \/ Brings(m, s, what)
         /\ \A s, p : QueuedChunk(out', s, p) <=>
                         QueuedChunk(out, s, p) \/ (Brings(m, s, "file") /\ Spot(m) = p)
         /\ \A n \in Msgs' : n \in Msgs \/ n = m
         /\ \A n \in Msgs : n \in News
<1>0. out \in Seq(News)
  BY DEF ChannelsTyped
<1>1. \A n \in Msgs : n \in News
  BY <1>0 DEF Msgs
<1>2. CASE out' = out /\ m = Begun
  BY <1>1, <1>2, DummyBrings DEF Msgs
<1>3. CASE out' = Append(out, m)
  <2>1. \A n \in Msgs' : n \in Msgs \/ n = m
    BY <1>0, <1>3, AppendAt DEF Msgs
  <2> QED
    BY <1>0, <1>1, <1>3, <2>1, QueuedAppend
<1> QED
  BY <1>2, <1>3 DEF Sends

LEMMA OrderStays ==
  ASSUME ChannelsTyped, NEW m \in News, Tells(m), NEW s \in Steps, StepTold(s),
         result'[s] = result[s], client = "reading", FilesTyped, FilesMatch
  PROVE  Ordered(out', s) /\ Continues(result'[s], out', s) /\ Linked(result'[s], out', s)
<1>0. out \in Seq(News) /\ Fits(s, m) /\ result[s] \in Results
  BY DEF ChannelsTyped, Tells
<1>1. CASE out' = out /\ m = Begun
  BY <1>1 DEF StepTold
<1>2. CASE out' = Append(out, m)
  <2>1. \A i \in DOMAIN out : Of(out[i], s) => Sound(s, out[i])
    BY DEF StepTold, MessagesSound, Msgs
  <2>2. Ordered(Append(out, m), s)
    <3>1. Of(m, s) => \A i \in DOMAIN out : Of(out[i], s) => Before(out[i], m)
      BY <1>0, <2>1, FitsOrdered
    <3> QED
      BY <1>0, <3>1, OrderedAppend DEF StepTold
  <2>3. Continues(result[s], Append(out, m), s)
    <3>1. Of(m, s) => Comes(result[s], m)
      BY <1>0, FitsComes DEF StepTold
    <3> QED
      BY <1>0, <3>1, ContinuesAppend DEF StepTold
  <2>4. Linked(result[s], Append(out, m), s)
    <3>1. Brings(m, s, "file") /\ Spot(m)[2] # 1 =>
            \/ result[s].current = Spot(m)[1] /\ Len(result[s].data) = Spot(m)[2] - 1
            \/ QueuedChunk(out, s, <<Spot(m)[1], Spot(m)[2] - 1>>)
      BY <1>0, FitsLinked DEF StepTold
    <3> QED
      BY <1>0, <3>1, LinkedAppend DEF StepTold
  <2> QED
    BY <1>2, <2>2, <2>3, <2>4
<1> QED
  BY <1>1, <1>2 DEF Tells, Sends

LEMMA SoundKept ==
  ASSUME ChannelsTyped, FilesTyped, FilesTyped', NEW m \in News, Tells(m), NEW s \in Steps, StepTold(s)
  PROVE  MessagesSound(s)'
<1>1. Advances(s) /\ Fits(s, m) /\ Sends(m)
  BY DEF Tells
<1>2. ASSUME NEW n \in Msgs', Of(n, s)
      PROVE  Sound(s, n)'
  <2>1. CASE n = m
    BY <1>1, <1>2, <2>1 DEF Fits
  <2>2. CASE n \in Msgs
    <3>1. Sound(s, n)
      BY <1>2, <2>2 DEF StepTold, MessagesSound
    <3> QED
      BY <1>1, <3>1, SoundStays
  <2> QED
    BY <1>1, <1>2, <2>1, <2>2, SendsParts
<1> QED
  BY <1>2 DEF MessagesSound

LEMMA ToldKept ==
  ASSUME ChannelsTyped, NEW m \in News, Tells(m), NEW s \in Steps, StepTold(s),
         result'[s] = result[s]
  PROVE  Told(s)'
<1>1. Advances(s) /\ Owes(s, m) /\ Sends(m) /\ Told(s)
  BY DEF Tells, StepTold
<1>2. \A what : Queued(out', s, what) <=> Queued(out, s, what) \/ Brings(m, s, what)
  BY <1>1, SendsParts
<1>3. place'[s] # "unborn" => result'[s].phase # "none" \/ Queued(out', s, "started")
  BY <1>1, <1>2 DEF Told, Owes
<1>4. Forwarded(s)' => result'[s].phase \in {"completed", "file"} \/ Queued(out', s, "completed")
  BY <1>1, <1>2 DEF Told, Owes
<1>5. phase' # "aborted" /\ report'[s] \notin {"none", "started"} =>
          result'[s].status = report'[s] \/ Queued(out', s, "completed")
  BY <1>1, <1>2 DEF Told, Owes, Advances
<1> QED
  BY <1>3, <1>4, <1>5 DEF Told

LEMMA ArrivesKept ==
  ASSUME ChannelsTyped, NEW m \in News, Tells(m), NEW s \in Steps, StepTold(s),
         result'[s] = result[s]
  PROVE  Arrives(s)'
<1>1. Owes(s, m) /\ Sends(m) /\ Arrives(s)
  BY DEF Tells, StepTold
<1>2. \A p : QueuedChunk(out', s, p) <=> QueuedChunk(out, s, p) \/ (Brings(m, s, "file") /\ Spot(m) = p)
  BY <1>1, SendsParts
<1>3. ASSUME NEW p \in Chunks, ChunkOf(s, p)', Earlier(p, at'[s]), <<s, p[1]>> \notin broken'
      PROVE  \/ p[1] \in DOMAIN Has(result'[s]) /\ p[2] <= Len(Has(result'[s])[p[1]])
             \/ QueuedChunk(out', s, p)
  <2>1. \/ ChunkOf(s, p) /\ Earlier(p, at[s]) /\ <<s, p[1]>> \notin broken
        \/ Brings(m, s, "file") /\ Spot(m) = p
    BY <1>1, <1>3 DEF Owes
  <2>2. CASE ChunkOf(s, p) /\ Earlier(p, at[s]) /\ <<s, p[1]>> \notin broken
    BY <1>1, <1>2, <2>2 DEF Arrives
  <2>3. CASE Brings(m, s, "file") /\ Spot(m) = p
    BY <1>2, <2>3
  <2> QED
    BY <2>1, <2>2, <2>3
<1> QED
  BY <1>3 DEF Arrives

(* A step that has a task waits for no other step's files. *)
LEMMA DependenciesOver ==
  ASSUME IInv, RunIInv, NEW s \in Steps, place[s] # "unborn", NEW d \in DepsOf(dep_map, s)
  PROVE  d \in Steps /\ place[d] = "ended" /\ report[d] = "succeeded"
<1>1. task[s] # "unborn"
  BY DEF RunIInv, ExecutorsMatch
<1>2. d \in Steps
  BY PipelineLists DEF IInv, TypeOK
<1>3. task[d] = "ended" /\ report[d] = "succeeded"
  BY <1>1 DEF IInv, StartsAfterDependencies
<1> QED
  BY <1>2, <1>3 DEF RunIInv, ExecutorsMatch

LEMMA WaitsKept ==
  ASSUME ChannelsTyped, IInv, RunIInv, NEW m \in News, Tells(m), NEW s \in Steps, StepTold(s),
         result'[s] = result[s], dep_map' = dep_map
  PROVE  Waits(s)'
<1>1. Advances(s) /\ Sends(m) /\ Waits(s) /\ Collects(s, result[s]) /\ out \in Seq(News)
  BY DEF Tells, StepTold, ChannelsTyped
<1>2. ASSUME NEW d \in DepsOf(dep_map, s), place[s] # "unborn"
      PROVE  ~Brings(m, d, "file")
  <2>1. d \in Steps /\ place[d] = "ended"
    BY <1>2, DependenciesOver
  <2> QED
    BY <2>1 DEF Tells, Fits, Of, Brings
<1>3. \A i \in DOMAIN out : Brings(out[i], s, "started") => place[s] # "unborn"
  BY DEF StepTold, MessagesSound, Msgs, Sound, Of, Brings
<1>4. ASSUME NEW d \in DepsOf(dep_map, s), NEW i \in DOMAIN out', NEW j \in DOMAIN out', i < j,
             Brings(out'[i], s, "started")
      PROVE  ~Brings(out'[j], d, "file")
  <2>1. CASE out' = out
    BY <1>1, <1>4, <2>1 DEF Waits
  <2>2. CASE out' = Append(out, m)
    <3>1. /\ Len(out) \in Nat /\ DOMAIN out = 1 .. Len(out) /\ DOMAIN out' = 1 .. Len(out) + 1
          /\ out'[Len(out) + 1] = m /\ \A k \in 1 .. Len(out) : out'[k] = out[k]
      BY <1>1, <2>2, AppendAt
    <3>2. i \in DOMAIN out /\ out'[i] = out[i]
      BY <1>4, <3>1
    <3>3. CASE j \in DOMAIN out
      BY <1>1, <1>4, <3>1, <3>2, <3>3 DEF Waits
    <3>4. CASE j = Len(out) + 1
      BY <1>2, <1>3, <1>4, <3>1, <3>2, <3>4
    <3> QED
      BY <3>1, <3>3, <3>4
  <2> QED
    BY <1>1, <2>1, <2>2 DEF Sends
<1>5. ASSUME NEW d \in DepsOf(dep_map, s), place'[s] # "unborn", result'[s].phase # "none"
      PROVE  ~Queued(out', d, "file")
  <2>1. place[s] # "unborn"
    BY <1>1, <1>5 DEF Advances, Collects
  <2>2. ~Queued(out, d, "file") /\ ~Brings(m, d, "file")
    BY <1>1, <1>2, <1>5, <2>1 DEF Waits
  <2> QED
    BY <1>1, <2>2, SendsParts
<1> QED
  BY <1>4, <1>5 DEF Waits

LEMMA StepToldKept ==
  ASSUME RunStateInv, RunStateInv', NEW m \in News, Tells(m), client = "reading",
         UNCHANGED <<client, result, dep_map>>, NEW s \in Steps, StepTold(s)
  PROVE  StepTold(s)'
<1>0. /\ IInv /\ RunIInv /\ FilesTyped /\ FilesTyped' /\ FilesMatch /\ ChannelsTyped
      /\ result'[s] = result[s] /\ dep_map' = dep_map
  BY DEF RunStateInv, TaskIInv
<1>1. Ordered(out', s) /\ Continues(result'[s], out', s) /\ Linked(result'[s], out', s)
  BY <1>0, OrderStays
<1>2. MessagesSound(s)' /\ Told(s)' /\ Arrives(s)' /\ Waits(s)'
  BY <1>0, SoundKept, ToldKept, ArrivesKept, WaitsKept
<1>3. Collects(s, result[s])'
  <2>1. PICK r \in Results : r = result[s]
    BY <1>0 DEF ChannelsTyped
  <2>2. Collects(s, r)'
    <3>1. Collects(s, r) /\ Advances(s)
      BY <2>1 DEF StepTold, Tells
    <3> QED
      BY <1>0, <3>1, CollectsStays
  <2> QED
    BY <1>0, <2>1, <2>2 DEF Collects
<1> QED
  BY <1>1, <1>2, <1>3 DEF StepTold

-----------------------------------------------------------------------------
(* Every step of the scheduler, the executables and the tasks tells the    *)
(* client what it owes                                                     *)

LEMMA SchedulerForward ==
  ASSUME [Next]_vars
  PROVE  dep_map' = dep_map /\ (phase = "aborted" => phase' = "aborted")
<1>1. CASE Scheduler
  BY <1>1 DEF Scheduler, Begin, TempDirFails, LaunchReady, LaunchFails, SkipReady, RecordDone,
              DrainDone, DeadlineHits, SweepUnfinished, FinishPipeline, Looping, Waiting
<1>2. ASSUME NEW s \in Steps, StepTask(s)
      PROVE  dep_map' = dep_map /\ (phase = "aborted" => phase' = "aborted")
  BY <1>2 DEF StepTask, TaskReports, TaskFailsSilently, TaskCancelled, TaskEnds, TaskOrphaned
<1>3. CASE Terminated \/ UNCHANGED vars
  BY <1>3 DEF Terminated, vars
<1> QED
  BY <1>1, <1>2, <1>3 DEF Next

(* After PipelineCompleted only the client goes on. *)
LEMMA FinishedQuiet ==
  ASSUME RunStateInv, phase = "finished"
  PROVE  ~SchedulerRuns /\ \A s \in Steps : ~Executor(s) /\ ~TaskRuns(s)
<1>1. ~SchedulerRuns
  BY DEF SchedulerRuns, Announce, MakeTempDir, Begin, TempDirFails, Launch, LaunchReady, Tell,
         LaunchFails, SkipReady, SweepUnfinished, FinishPipeline, Listen, DeadlineHits,
         RecordDone, DrainDone, Looping, Waiting
<1>2. ASSUME NEW s \in Steps
      PROVE  ~Executor(s) /\ ~TaskRuns(s)
  <2>1. task[s] \in {"unborn", "ended"}
    BY NothingRunsHolds DEF NothingRunsAfterFinish, RunStateInv
  <2>2. place[s] \in {"unborn", "ended"}
    BY <2>1 DEF RunStateInv, TaskIInv, RunIInv, ExecutorsMatch
  <2>3. exec[s] # "running"
    BY <2>2 DEF RunStateInv, TaskIInv, RunIInv, ExecutorsMatch
  <2>4. ~Executor(s)
    BY <2>3 DEF Executor, EmitOutput, EmitCompleted, ExecFails, Emit
  <2>5. ~TaskRuns(s)
    BY <2>2 DEF TaskRuns, Receive, Cancel, EventsClosed, ForwardOutput, ForwardCompleted,
                StreamChunk, StreamFails, FilesStreamed, SendTimedOut, SendDone, Moves
  <2> QED
    BY <2>4, <2>5
<1> QED
  BY <1>1, <1>2

(* Nothing happens to step s. *)
Rests(s) ==
    /\ UNCHANGED <<place[s], hand[s], sizes[s], at[s], report[s]>>
    /\ \A f \in Nat \ {0} : <<s, f>> \notin broken' => <<s, f>> \notin broken

LEMMA RestsTells ==
  ASSUME NEW s \in Steps, Rests(s), phase = "aborted" => phase' = "aborted", NEW m, ~Of(m, s)
  PROVE  Advances(s) /\ Fits(s, m) /\ Owes(s, m)
<1>1. (Live(s)' <=> Live(s)) /\ (Forwarded(s)' <=> Forwarded(s))
  BY DEF Rests, Live, Forwarded, CompletedSent
<1>2. \A p : ChunkOf(s, p)' <=> ChunkOf(s, p)
  BY DEF Rests, ChunkOf
<1>3. Advances(s)
  BY <1>1 DEF Rests, Advances
<1>4. Owes(s, m)
  BY <1>1, <1>2 DEF Rests, Owes, Chunks
<1> QED
  BY <1>3, <1>4 DEF Fits

LEMMA Reading ==
  ASSUME NEW m, ToClient(m), client = "reading"
  PROVE  Sends(m)
BY DEF ToClient, Sends

(* One step moves, the others rest. *)
LEMMA OneTells ==
  ASSUME NEW t \in Steps, NEW m, Sends(m), m.kind # "closed", \A s \in Steps : Of(m, s) => s = t,
         \A s \in Steps \ {t} : Rests(s), phase = "aborted" => phase' = "aborted",
         Advances(t), Fits(t, m), Owes(t, m)
  PROVE  Tells(m)
<1>1. ASSUME NEW s \in Steps
      PROVE  Advances(s) /\ Fits(s, m) /\ Owes(s, m)
  <2>1. CASE s # t
    BY <2>1, RestsTells
  <2> QED
    BY <2>1
<1> QED
  BY <1>1 DEF Tells

LEMMA AllRest ==
  ASSUME \A s \in Steps : Rests(s), phase = "aborted" => phase' = "aborted",
         NEW m, Sends(m), \A s \in Steps : ~Of(m, s),
         m.kind = "closed" => phase' = "finished" /\ m.summary = summary'
  PROVE  Tells(m)
BY RestsTells DEF Tells

LEMMA Launched ==
  ASSUME RunStateInv, NEW s \in Steps, place[s] # "unborn"
  PROVE  task[s] # "unborn" /\ report[s] # "none"
<1>1. task[s] # "unborn"
  BY DEF RunStateInv, TaskIInv, RunIInv, ExecutorsMatch
<1>2. task[s] \in {"executing", "reported", "ended"}
  BY <1>1 DEF RunStateInv, IInv, TypeOK, TaskStates
<1> QED
  BY <1>2 DEF RunStateInv, IInv, ReportsMatch

(* A step that is ready, or left over by the deadline, is unheard of. *)
LEMMA Untold ==
  ASSUME RunStateInv, NEW s \in Steps,
         \/ s \in ready /\ ~overall_timed_out
         \/ s \in Unfinished /\ active_steps = {}
  PROVE  report[s] = "none" /\ place[s] = "unborn" /\ hand[s] = Nothing
<1>0. IInv /\ RunIInv
  BY DEF RunStateInv, TaskIInv
<1>1. s \notin active_steps /\ s \notin completed /\ s \notin failed /\ s \notin skipped
  BY <1>0 DEF IInv, SetsDisjoint, Resolved, Unfinished
<1>2. task[s] = "unborn"
  BY <1>0, <1>1 DEF IInv, TasksMatch
<1>3. report[s] = "none"
  BY <1>0, <1>1, <1>2 DEF IInv, ReportsMatch
<1> QED
  BY <1>0, <1>2, <1>3 DEF RunIInv, ExecutorsMatch

LEMMA StepsTyped ==
  ASSUME RunStateInv
  PROVE  /\ place \in [Steps -> Places] /\ hand \in [Steps -> StepEvents \cup {Nothing}]
         /\ sizes \in [Steps -> FileLists \cup {<<>>}] /\ at \in [Steps -> Chunks]
         /\ report \in [Steps -> Reports] /\ task \in [Steps -> TaskStates]
         /\ \A s \in Steps : FilesAgree(s)
BY DEF RunStateInv, TaskIInv, RunIInv, TasksTyped, FilesTyped, FilesMatch, IInv, TypeOK

LEMMA LaunchTells ==
  ASSUME RunStateInv, client = "reading", NEW s \in Steps, Launch(s)
  PROVE  Tells(Started(s))
<1>1. /\ s \in ready /\ ~overall_timed_out /\ phase = "running" /\ phase' = phase
      /\ place' = [place EXCEPT ![s] = "selecting"] /\ report' = [report EXCEPT ![s] = "started"]
      /\ UNCHANGED <<hand, sizes, at, broken>> /\ ToClient(Started(s))
  BY DEF Launch, LaunchReady, Looping, Send
<1>2. report[s] = "none" /\ place[s] = "unborn" /\ hand[s] = Nothing
  BY <1>1, Untold
<1>3. place'[s] = "selecting" /\ report'[s] = "started" /\ ~Forwarded(s)' /\ ~Forwarded(s)
  BY <1>1, <1>2, StepsTyped DEF Forwarded, CompletedSent, Nothing
<1>4. \A t \in Steps \ {s} : Rests(t)
  BY <1>1, StepsTyped DEF Rests
<1>5. Started(s).kind = "started" /\ Started(s).step = s
  BY DEF Started
<1>6. Advances(s)
  BY <1>1, <1>2, <1>3 DEF Advances
<1>7. Fits(s, Started(s))
  BY <1>2, <1>3, <1>5 DEF Fits, Sound
<1>8. Owes(s, Started(s))
  BY <1>1, <1>2, <1>3, <1>5 DEF Owes, Brings, StepMessages, ChunkOf
<1> QED
  BY <1>1, <1>4, <1>5, <1>6, <1>7, <1>8, Reading, OneTells DEF Of

(* A step that never ran is over: it was skipped, or the deadline hit. *)
LEMMA NeverRanTells ==
  ASSUME RunStateInv, client = "reading", NEW s \in Steps, NEW how \in {"skipped", "timed_out"},
         report[s] = "none", place[s] = "unborn", hand[s] = Nothing,
         phase = "running", phase' = phase, report' = [report EXCEPT ![s] = how],
         UNCHANGED <<place, hand, sizes, at, broken>>, ToClient(Completed(s, how))
  PROVE  Tells(Completed(s, how))
<1>1. /\ report'[s] = how /\ place'[s] = "unborn"
      /\ ~Forwarded(s)' /\ ~Forwarded(s) /\ ~Live(s)' /\ ~Live(s)
  BY StepsTyped DEF Forwarded, CompletedSent, Nothing, Live
<1>2. \A t \in Steps \ {s} : Rests(t)
  BY StepsTyped DEF Rests
<1>3. /\ Completed(s, how).kind = "completed" /\ Completed(s, how).step = s
      /\ Completed(s, how).status = how
  BY DEF Completed
<1>4. Advances(s)
  BY <1>1 DEF Advances
<1>5. Fits(s, Completed(s, how))
  BY <1>1, <1>3 DEF Fits, Sound
<1>6. Owes(s, Completed(s, how))
  BY <1>1, <1>3 DEF Owes, Brings, StepMessages, ChunkOf
<1> QED
  BY <1>2, <1>3, <1>4, <1>5, <1>6, Reading, OneTells DEF Of

LEMMA SchedulerTells ==
  ASSUME RunStateInv, RunStateInv', client = "reading", SchedulerRuns
  PROVE  \E m \in News : Tells(m)
<1>0. phase = "aborted" => phase' = "aborted"
  BY SchedulerMoves, SchedulerForward
<1>1. ASSUME UNCHANGED <<tasks, report>> PROVE \A s \in Steps : Rests(s)
  BY <1>1 DEF tasks, Rests
<1>2. /\ \A s : ~Of(Begun, s) /\ ~Of(Error, s) /\ \A what : ~Of(Closed(what), s)
      /\ Begun.kind = "begun" /\ Error.kind = "error"
  BY DEF Of, Begun, Error, Closed, StepMessages
<1>3. CASE Announce
  <2>1. ToClient(Begun) /\ UNCHANGED <<tasks, report>>
    BY <1>3 DEF Announce, vars
  <2> QED
    BY <1>0, <1>1, <1>2, <2>1, Reading, AllRest, NewsTyped
<1>4. CASE MakeTempDir
  <2>1. (out' = out \/ ToClient(Error)) /\ UNCHANGED <<tasks, report>>
    BY <1>4 DEF MakeTempDir, Begin, TempDirFails
  <2>2. Sends(Begun) \/ Sends(Error)
    BY <2>1, Reading DEF Sends
  <2> QED
    BY <1>0, <1>1, <1>2, <2>1, <2>2, AllRest, NewsTyped
<1>5. ASSUME NEW s \in Steps, Launch(s) PROVE \E m \in News : Tells(m)
  BY <1>5, LaunchTells, NewsTyped
<1>6. CASE Tell
  <2>0. UNCHANGED tasks
    BY <1>6 DEF Tell
  <2>1. ASSUME NEW s \in Steps, LaunchFails(s), ToClient(Error)
        PROVE  \E m \in News : Tells(m)
    <3>1. UNCHANGED report
      BY <2>1 DEF LaunchFails
    <3> QED
      BY <1>0, <1>1, <1>2, <2>0, <2>1, <3>1, Reading, AllRest, NewsTyped
  <2>2. ASSUME NEW s \in Steps, SkipReady(s), ToClient(Completed(s, "skipped"))
        PROVE  \E m \in News : Tells(m)
    <3>1. /\ s \in ready /\ ~overall_timed_out /\ phase = "running" /\ phase' = phase
          /\ report' = [report EXCEPT ![s] = "skipped"]
      BY <2>2 DEF SkipReady, Looping, Send
    <3>2. Completed(s, "skipped") \in News
      BY NewsTyped DEF Reports
    <3> QED
      BY <2>0, <2>2, <3>1, <3>2, Untold, NeverRanTells DEF tasks
  <2>3. ASSUME NEW s \in Steps, SweepUnfinished(s), ToClient(Completed(s, "timed_out"))
        PROVE  \E m \in News : Tells(m)
    <3>1. /\ s \in Unfinished /\ active_steps = {} /\ phase = "running" /\ phase' = phase
          /\ report' = [report EXCEPT ![s] = "timed_out"]
      BY <2>3 DEF SweepUnfinished, Send
    <3>2. Completed(s, "timed_out") \in News
      BY NewsTyped DEF Reports
    <3> QED
      BY <2>0, <2>3, <3>1, <3>2, Untold, NeverRanTells DEF tasks
  <2>4. CASE FinishPipeline /\ ToClient(Closed(summary'))
    <3>1. UNCHANGED report /\ phase' = "finished"
      BY <2>4 DEF FinishPipeline
    <3>2. PICK what : what = summary'
      OBVIOUS
    <3>3. Closed(what) \in News /\ Closed(what).summary = what
      BY <3>2, NewsTyped DEF RunStateInv, IInv, TypeOK, Closed
    <3>4. ToClient(Closed(what))
      BY <2>4, <3>2 DEF ToClient, Closed
    <3> QED
      BY <1>0, <1>1, <1>2, <2>0, <3>1, <3>2, <3>3, <3>4, Reading, AllRest
  <2> QED
    BY <1>6, <2>1, <2>2, <2>3, <2>4 DEF Tell
<1>7. CASE Listen
  <2>1. UNCHANGED <<out, tasks, report>>
    BY <1>7 DEF Listen, DeadlineHits, RecordDone, DrainDone
  <2> QED
    BY <1>0, <1>1, <1>2, <2>1, AllRest, NewsTyped DEF Sends
<1> QED
  BY <1>3, <1>4, <1>5, <1>6, <1>7 DEF SchedulerRuns

LEMMA ExecutorTells ==
  ASSUME RunStateInv, NEW s \in Steps, Executor(s)
  PROVE  Tells(Begun)
<1>1. UNCHANGED <<out, tasks, report, phase>>
  BY DEF Executor, EmitOutput, EmitCompleted, ExecFails, Emit, vars
<1>2. \A t \in Steps : Rests(t)
  BY <1>1 DEF tasks, Rests
<1>3. Sends(Begun) /\ Begun.kind # "closed" /\ \A t : ~Of(Begun, t)
  BY <1>1, DummyBrings DEF Sends, Begun
<1> QED
  BY <1>1, <1>2, <1>3, AllRest

(* The task moves on without a word about what it owes. *)
LEMMA SilentTells ==
  ASSUME RunStateInv, NEW s \in Steps,
         \/ Receive(s) \/ Cancel(s) \/ EventsClosed(s) \/ FilesStreamed(s) \/ SendDone(s)
  PROVE  Tells(Begun)
<1>0. FilesAgree(s) /\ place \in [Steps -> Places] /\ hand \in [Steps -> StepEvents \cup {Nothing}]
  BY StepsTyped
<1>1. UNCHANGED <<out, sizes, at, broken, report, phase>>
  BY DEF Receive, Cancel, EventsClosed, FilesStreamed, SendDone, vars, TaskFailsSilently, TaskEnds,
         TaskOrphaned
<1>2. /\ \A t \in Steps \ {s} : place'[t] = place[t] /\ hand'[t] = hand[t]
      /\ place[s] # "unborn" /\ place'[s] # "unborn"
      /\ Live(s)' => Live(s)
      /\ Forwarded(s)' <=> Forwarded(s)
  <2>1. CASE Receive(s)
    <3>1. events[s] # <<>> /\ place[s] = "selecting" /\ place' = [place EXCEPT ![s] = "handling"]
          /\ hand' = [hand EXCEPT ![s] = Head(events[s])]
      BY <2>1 DEF Receive, Moves
    <3>2. ~CompletedSent(s)
      BY <1>0, <3>1 DEF FilesAgree
    <3> QED
      BY <1>0, <3>1, <3>2 DEF Live, Forwarded
  <2>2. CASE Cancel(s)
    <3>1. place[s] = "selecting" /\ hand' = hand
          /\ place' = [place EXCEPT ![s] = IF CompletedSent(s) THEN "closing" ELSE "cancelling"]
      BY <2>2 DEF Cancel, Moves
    <3>2. CompletedSent(s)' <=> CompletedSent(s)
      BY <3>1 DEF CompletedSent
    <3> QED
      BY <1>0, <3>1, <3>2 DEF Live, Forwarded
  <2>3. CASE EventsClosed(s) \/ SendDone(s)
    <3>1. /\ place[s] \in {"selecting", "closing"} /\ hand' = hand
          /\ place' = [place EXCEPT ![s] = "closing"] \/ place' = [place EXCEPT ![s] = "ended"]
      BY <2>3 DEF EventsClosed, SendDone, Moves
    <3>2. CompletedSent(s)' <=> CompletedSent(s)
      BY <3>1 DEF CompletedSent
    <3> QED
      BY <1>0, <3>1, <3>2 DEF Live, Forwarded
  <2>4. CASE FilesStreamed(s)
    <3>1. place[s] = "streaming" /\ hand' = hand /\ place' = [place EXCEPT ![s] = "selecting"]
      BY <2>4 DEF FilesStreamed, Moves
    <3>2. CompletedSent(s)' /\ CompletedSent(s)
      BY <1>0, <3>1 DEF CompletedSent, FilesAgree
    <3> QED
      BY <1>0, <3>1, <3>2 DEF Live, Forwarded
  <2> QED
    BY <2>1, <2>2, <2>3, <2>4
<1>3. \A t \in Steps \ {s} : Rests(t)
  BY <1>1, <1>2 DEF Rests
<1>4. Sends(Begun) /\ Begun.kind # "closed" /\ \A t : ~Of(Begun, t)
  BY <1>1, DummyBrings DEF Sends, Begun
<1>5. Advances(s)
  BY <1>1, <1>2 DEF Advances
<1>6. Owes(s, Begun)
  BY <1>1, <1>2 DEF Owes, ChunkOf
<1> QED
  BY <1>1, <1>3, <1>4, <1>5, <1>6, OneTells DEF Fits

LEMMA OutputTells ==
  ASSUME RunStateInv, client = "reading", NEW s \in Steps, ForwardOutput(s)
  PROVE  \E m \in News : Tells(m)
<1>1. /\ place[s] = "handling" /\ place' = [place EXCEPT ![s] = "selecting"]
      /\ hand[s].kind = "output" /\ ToClient(hand[s])
      /\ UNCHANGED <<hand, sizes, at, broken, report, phase>>
  BY DEF ForwardOutput, Moves, vars
<1>2. PICK m : m = hand[s]
  OBVIOUS
<1>3. m \in StepEvents /\ m.step = s /\ m.kind = "output"
  BY <1>1, <1>2, StepsTyped DEF FilesAgree, Nothing
<1>4. m \in News
  BY <1>3 DEF StepEvents, News
<1>5. report[s] # "none"
  BY <1>1, Launched
<1>6. /\ place'[s] = "selecting" /\ Live(s) /\ ~Forwarded(s)' /\ ~Forwarded(s)
  BY <1>1, StepsTyped DEF Live, Forwarded, CompletedSent
<1>7. \A t \in Steps \ {s} : Rests(t)
  BY <1>1, StepsTyped DEF Rests
<1>8. Advances(s)
  BY <1>1, <1>6 DEF Advances
<1>9. Fits(s, m)
  BY <1>1, <1>3, <1>5, <1>6 DEF Fits, Sound
<1>10. Owes(s, m)
  BY <1>1, <1>6 DEF Owes, ChunkOf
<1>11. Tells(m)
  BY <1>1, <1>2, <1>3, <1>7, <1>8, <1>9, <1>10, Reading, OneTells DEF Of
<1> QED
  BY <1>4, <1>11

(* The task sends the final event of its step. *)
LEMMA FinalTells ==
  ASSUME RunStateInv, client = "reading", NEW s \in Steps,
         NEW how \in {"succeeded", "failed", "timed_out"},
         NEW to \in {"streaming", "closing"},
         Live(s), to = "streaming" <=> CompletedSent(s),
         place' = [place EXCEPT ![s] = to], UNCHANGED <<hand, at, broken>>,
         \A t \in Steps \ {s} : sizes'[t] = sizes[t], to = "closing" => sizes'[s] = sizes[s],
         ToClient(Completed(s, how)),
         \/ /\ phase' = phase /\ report' = [report EXCEPT ![s] = how]
            /\ task[s] = "executing"
         \/ phase = "aborted" /\ phase' = phase /\ report' = report
  PROVE  Tells(Completed(s, how))
<1>0. place \in [Steps -> Places] /\ report \in [Steps -> Reports] /\ FilesAgree(s)
  BY StepsTyped
<1>1. place[s] # "unborn"
  BY DEF Live
<1>2. report[s] # "none" /\ (task[s] = "executing" => report[s] = "started")
  BY <1>1, Launched DEF RunStateInv, IInv, ReportsMatch
<1>3. /\ place'[s] = to /\ ~Live(s)' /\ ~Forwarded(s)
      /\ Forwarded(s)' <=> CompletedSent(s)
  <2>1. place'[s] = to /\ (CompletedSent(s)' <=> CompletedSent(s))
    BY <1>0 DEF CompletedSent
  <2>2. ~Live(s)'
    BY <2>1 DEF Live
  <2>3. ~Forwarded(s)
    BY <1>0 DEF Live, Forwarded, FilesAgree
  <2> QED
    BY <2>1, <2>2, <2>3 DEF Forwarded
<1>4. \A t \in Steps \ {s} : Rests(t)
  BY <1>0 DEF Rests
<1>5. /\ Completed(s, how).kind = "completed" /\ Completed(s, how).step = s
      /\ Completed(s, how).status = how
  BY DEF Completed
<1>6. at[s] = <<1, 1>>
  BY <1>0, <1>3 DEF FilesAgree
<1>7. report'[s] # "none" /\ (phase' # "aborted" => report'[s] = how /\ report[s] = "started")
  BY <1>0, <1>2
<1>8. Advances(s)
  BY <1>1, <1>2, <1>3, <1>7 DEF Advances
<1>9. Fits(s, Completed(s, how))
  BY <1>3, <1>5, <1>7 DEF Fits, Sound
<1>10. Owes(s, Completed(s, how))
  BY <1>1, <1>5, <1>6 DEF Owes, Brings, StepMessages, Chunks, Earlier
<1> QED
  BY <1>4, <1>5, <1>8, <1>9, <1>10, Reading, OneTells DEF Of

LEMMA CompletedTells ==
  ASSUME RunStateInv, client = "reading", NEW s \in Steps, ForwardCompleted(s) \/ SendTimedOut(s)
  PROVE  \E m \in News : Tells(m)
<1>0. FilesAgree(s) /\ hand[s] \in StepEvents \cup {Nothing} /\ sizes \in [Steps -> FileLists \cup {<<>>}]
  BY StepsTyped
<1>1. CASE ForwardCompleted(s)
  <2>1. /\ CompletedSent(s) /\ place[s] = "handling" /\ place' = [place EXCEPT ![s] = "streaming"]
        /\ ToClient(Completed(s, hand[s].status)) /\ UNCHANGED <<hand, at, broken>>
        /\ sizes' = [sizes EXCEPT ![s] = hand[s].files]
    BY <1>1 DEF ForwardCompleted, Moves
  <2>2. PICK how : how = hand[s].status
    OBVIOUS
  <2>3. how \in {"succeeded", "failed"}
    BY <1>0, <2>1, <2>2 DEF CompletedSent, StepEvents, Nothing
  <2>4. \/ /\ phase' = phase /\ report' = [report EXCEPT ![s] = how] /\ task[s] = "executing"
        \/ phase = "aborted" /\ phase' = phase /\ report' = report
    <3>1. CASE TaskReports(s) /\ report'[s] = hand[s].status
      <4>1. PICK event \in {"succeeded", "failed"} : report' = [report EXCEPT ![s] = event]
        BY <3>1 DEF TaskReports, Send
      <4>2. report'[s] = event
        BY <4>1, StepsTyped
      <4> QED
        BY <2>2, <3>1, <4>1, <4>2 DEF TaskReports
    <3>2. CASE phase = "aborted" /\ UNCHANGED vars
      BY <3>2 DEF vars
    <3> QED
      BY <1>1, <3>1, <3>2 DEF ForwardCompleted
  <2>5. Live(s) /\ \A t \in Steps \ {s} : sizes'[t] = sizes[t]
    BY <1>0, <2>1 DEF Live
  <2>6. Tells(Completed(s, how))
    <3>1. how \in {"succeeded", "failed", "timed_out"} /\ ToClient(Completed(s, how))
      BY <2>1, <2>2, <2>3
    <3> QED
      BY <2>1, <2>4, <2>5, <3>1, FinalTells
  <2> QED
    BY <2>3, <2>6, NewsTyped DEF Reports
<1>2. CASE SendTimedOut(s)
  <2>1. /\ place[s] = "cancelling" /\ place' = [place EXCEPT ![s] = "closing"]
        /\ ToClient(Completed(s, "timed_out")) /\ UNCHANGED <<hand, sizes, at, broken>>
    BY <1>2 DEF SendTimedOut, Moves
  <2>2. ~CompletedSent(s) /\ Live(s)
    BY <1>0, <2>1 DEF FilesAgree, Live
  <2>3. \/ /\ phase' = phase /\ report' = [report EXCEPT ![s] = "timed_out"] /\ task[s] = "executing"
        \/ phase = "aborted" /\ phase' = phase /\ report' = report
    BY <1>2 DEF SendTimedOut, TaskCancelled, Send, vars
  <2>4. Tells(Completed(s, "timed_out"))
    BY <2>1, <2>2, <2>3, FinalTells
  <2> QED
    BY <2>4, NewsTyped DEF Reports
<1> QED
  BY <1>1, <1>2

LEMMA FailureTells ==
  ASSUME RunStateInv, NEW s \in Steps, StreamFails(s)
  PROVE  Tells(Begun)
<1>1. /\ place[s] = "streaming" /\ at' = [at EXCEPT ![s] = <<at[s][1] + 1, 1>>]
      /\ broken' = broken \cup {<<s, at[s][1]>>}
      /\ UNCHANGED <<out, place, hand, sizes, report, phase>>
  BY DEF StreamFails, NextFile, vars
<1>2. at[s][1] \in Nat \ {0} /\ at[s][2] \in Nat \ {0} /\ at \in [Steps -> Chunks]
  BY SizesTyped, StepsTyped DEF RunStateInv, TaskIInv
<1>3. at'[s] = <<at[s][1] + 1, 1>>
  BY <1>1, <1>2
<1>4. \A t \in Steps \ {s} : Rests(t)
  BY <1>1, <1>2 DEF Rests
<1>5. Sends(Begun) /\ Begun.kind # "closed" /\ \A t : ~Of(Begun, t)
  BY <1>1, DummyBrings DEF Sends, Begun
<1>6. Advances(s)
  BY <1>1, <1>2, <1>3 DEF Advances, Live, Forwarded, CompletedSent, Earlier
<1>7. ASSUME NEW p \in Chunks, ChunkOf(s, p)', Earlier(p, at'[s]), <<s, p[1]>> \notin broken'
      PROVE  ChunkOf(s, p) /\ Earlier(p, at[s]) /\ <<s, p[1]>> \notin broken
  <2>1. p[1] # at[s][1] /\ <<s, p[1]>> \notin broken
    BY <1>1, <1>7
  <2>2. p[1] \in Nat \ {0} /\ p[2] \in Nat \ {0}
    BY DEF Chunks
  <2>3. Earlier(p, at[s])
    BY <1>2, <1>3, <1>7, <2>1, <2>2 DEF Earlier
  <2> QED
    BY <1>1, <1>7, <2>1, <2>3 DEF ChunkOf
<1>8. Owes(s, Begun)
  BY <1>1, <1>7 DEF Owes, Forwarded, CompletedSent
<1> QED
  BY <1>1, <1>4, <1>5, <1>6, <1>8, OneTells DEF Fits

LEMMA ChunkTells ==
  ASSUME RunStateInv, client = "reading", NEW s \in Steps, StreamChunk(s)
  PROVE  \E m \in News : Tells(m)
<1>1. /\ place[s] = "streaming" /\ at[s][1] <= Len(sizes[s])
      /\ UNCHANGED <<place, hand, sizes, broken, report, phase>>
      /\ ToClient(FileChunk(s, IF at[s][2] = 1 THEN at[s][1] ELSE NoName, <<at[s]>>))
  BY DEF StreamChunk, vars
<1>2. /\ at[s][1] \in Nat \ {0} /\ at[s][2] \in Nat \ {0} /\ at \in [Steps -> Chunks]
      /\ Len(sizes[s]) \in Nat
      /\ \A f \in 1 .. Len(sizes[s]) : sizes[s][f] \in Nat \ {0}
  BY SizesTyped, StepsTyped DEF RunStateInv, TaskIInv
<1>3. PICK p \in Chunks, name \in Nat :
         p = at[s] /\ name = (IF at[s][2] = 1 THEN at[s][1] ELSE NoName)
  BY <1>2 DEF NoName
<1>4. PICK m : m = FileChunk(s, name, <<p>>)
  OBVIOUS
<1>5. /\ m \in News /\ ToClient(m) /\ Sends(m)
      /\ m.kind = "file" /\ m.step = s /\ m.name = name /\ m.data = <<p>> /\ Spot(m) = p
  BY <1>1, <1>3, <1>4, NewsTyped, Reading DEF FileChunk, Spot
<1>6. FilesAgree(s) /\ CompletedSent(s) /\ p[2] <= sizes[s][p[1]] /\ p[1] \in 1 .. Len(sizes[s])
  BY <1>1, <1>2, <1>3, StepsTyped DEF FilesAgree
<1>7. \/ at'[s] = <<p[1], p[2] + 1>> /\ p[2] < sizes[s][p[1]]
      \/ at'[s] = <<p[1] + 1, 1>> /\ p[2] = sizes[s][p[1]]
  <2>1. CASE p[2] < sizes[s][p[1]]
    <3>1. at' = [at EXCEPT ![s] = <<at[s][1], at[s][2] + 1>>]
      BY <1>3, <2>1 DEF StreamChunk
    <3> QED
      BY <1>2, <1>3, <2>1, <3>1
  <2>2. CASE ~(p[2] < sizes[s][p[1]])
    <3>1. at' = [at EXCEPT ![s] = <<at[s][1] + 1, 1>>]
      BY <1>3, <2>2 DEF StreamChunk, NextFile
    <3> QED
      BY <1>2, <1>3, <1>6, <2>2, <3>1
  <2> QED
    BY <2>1, <2>2
<1>8. Earlier(p, at'[s])
  BY <1>2, <1>3, <1>7 DEF Earlier
<1>9. \A t \in Steps \ {s} : Rests(t)
  <2>1. \A t \in Steps \ {s} : at'[t] = at[t]
    BY <1>2 DEF StreamChunk, NextFile
  <2> QED
    BY <1>1, <2>1 DEF Rests
<1>10. (Forwarded(s)' <=> Forwarded(s)) /\ (Live(s)' <=> Live(s)) /\ Forwarded(s) /\ ~Live(s)
  BY <1>1, <1>6 DEF Forwarded, Live, CompletedSent
<1>11. Advances(s)
  BY <1>1, <1>3, <1>8, <1>10 DEF Advances
<1>12. report[s] # "none"
  BY <1>1, Launched
<1>13. Fits(s, m)
  <2>1. ChunkOf(s, p)'
    BY <1>1, <1>3, <1>2, <1>6 DEF ChunkOf
  <2>2. Sound(s, m)'
    BY <1>1, <1>2, <1>3, <1>5, <1>8, <1>10, <1>12, <2>1 DEF Sound
  <2> QED
    BY <1>1, <1>3, <1>5, <2>2 DEF Fits
<1>14. ASSUME NEW c \in Chunks, ChunkOf(s, c)', Earlier(c, at'[s]), <<s, c[1]>> \notin broken'
       PROVE  \/ ChunkOf(s, c) /\ Earlier(c, at[s]) /\ <<s, c[1]>> \notin broken
              \/ m.kind = "file" /\ Spot(m) = c
  <2>1. /\ c[1] \in Nat \ {0} /\ c[2] \in Nat \ {0} /\ c = <<c[1], c[2]>> /\ p = <<p[1], p[2]>>
        /\ p[1] \in Nat \ {0} /\ p[2] \in Nat \ {0}
    BY DEF Chunks
  <2>2. ChunkOf(s, c) /\ <<s, c[1]>> \notin broken
    BY <1>1, <1>14 DEF ChunkOf
  <2>3. c[1] = p[1] => c[2] <= sizes[s][p[1]] /\ sizes[s][p[1]] \in Nat
    BY <1>2, <1>6, <2>2 DEF ChunkOf
  <2>4. Earlier(c, p) \/ (c[1] = p[1] /\ c[2] = p[2])
    BY <1>7, <1>14, <2>1, <2>3 DEF Earlier
  <2> QED
    BY <1>3, <1>5, <2>1, <2>2, <2>4
<1>15. Owes(s, m)
  BY <1>1, <1>5, <1>10, <1>14 DEF Owes, Brings, StepMessages
<1> QED
  BY <1>1, <1>5, <1>9, <1>11, <1>13, <1>15, OneTells DEF Of

LEMMA TaskTells ==
  ASSUME RunStateInv, client = "reading", NEW s \in Steps, TaskRuns(s)
  PROVE  \E m \in News : Tells(m)
<1>1. Begun \in News
  BY NewsTyped
<1>2. CASE Receive(s) \/ Cancel(s) \/ EventsClosed(s) \/ FilesStreamed(s) \/ SendDone(s)
  BY <1>1, <1>2, SilentTells
<1>3. CASE ForwardOutput(s)
  BY <1>3, OutputTells
<1>4. CASE ForwardCompleted(s) \/ SendTimedOut(s)
  BY <1>4, CompletedTells
<1>5. CASE StreamChunk(s)
  BY <1>5, ChunkTells
<1>6. CASE StreamFails(s)
  BY <1>1, <1>6, FailureTells
<1> QED
  BY <1>2, <1>3, <1>4, <1>5, <1>6 DEF TaskRuns

-----------------------------------------------------------------------------
(* The client takes a message *)

LEMMA MsgsTail ==
  ASSUME out \in Seq(News), out # <<>>, out' = Tail(out)
  PROVE  Msgs' \subseteq Msgs /\ Head(out) \in Msgs
<1>1. /\ Len(out) \in Nat \ {0} /\ DOMAIN out = 1 .. Len(out) /\ DOMAIN out' = 1 .. Len(out) - 1
      /\ Head(out) = out[1] /\ \A i \in 1 .. Len(out) - 1 : out'[i] = out[i + 1]
  BY TailAt
<1>2. ASSUME NEW i \in DOMAIN out' PROVE i + 1 \in DOMAIN out /\ out[i + 1] = out'[i]
  BY <1>1
<1>3. 1 \in DOMAIN out /\ out[1] = Head(out)
  BY <1>1
<1> QED
  BY <1>2, <1>3 DEF Msgs

(* The state of the pipeline does not change when the client moves. *)
LEMMA PipelineRests ==
  ASSUME NEW s, UNCHANGED <<vars, executors, events, tasks>>
  PROVE  /\ \A m : Sound(s, m)' <=> Sound(s, m)
         /\ \A p : ChunkOf(s, p)' <=> ChunkOf(s, p)
         /\ Forwarded(s)' <=> Forwarded(s)
         /\ Live(s)' <=> Live(s)
         /\ UNCHANGED <<place, report, phase, at, broken, dep_map, summary>>
<1>1. UNCHANGED <<place, report, phase, at, broken, dep_map, summary, hand, sizes>>
  BY DEF vars, tasks
<1>2. (Forwarded(s)' <=> Forwarded(s)) /\ (Live(s)' <=> Live(s))
  BY <1>1 DEF Forwarded, Live, CompletedSent
<1>3. \A p : ChunkOf(s, p)' <=> ChunkOf(s, p)
  BY <1>1 DEF ChunkOf
<1>4. \A m : Sound(s, m)' <=> Sound(s, m)
  BY <1>1, <1>2, <1>3 DEF Sound
<1> QED
  BY <1>1, <1>2, <1>3, <1>4

(* A message of another step, or of none, leaves a step's story as it is. *)
LEMMA OthersTaken ==
  ASSUME RunStateInv, out # <<>>, out' = Tail(out), NEW s \in Steps, StepTold(s),
         ~Of(Head(out), s), result'[s] = result[s], client' = client,
         UNCHANGED <<vars, executors, events, tasks>>
  PROVE  StepTold(s)'
<1>0. out \in Seq(News)
  BY DEF RunStateInv, ChannelsTyped
<1>1. Ordered(out', s) /\ Continues(result'[s], out', s)
  BY <1>0, OrderedTail, ContinuesTail DEF StepTold
<1>2. Linked(result'[s], out', s)
  <2>1. ~Brings(Head(out), s, "file")
    BY DEF Of, Brings
  <2> QED
    BY <1>0, <2>1, LinkedTail DEF StepTold
<1>3. /\ \A what : Queued(out', s, what) <=> Queued(out, s, what)
      /\ \A p : QueuedChunk(out', s, p) <=> QueuedChunk(out, s, p)
  BY <1>0, QueuedTail DEF Of, Brings
<1>4. MessagesSound(s)'
  BY <1>0, MsgsTail, PipelineRests DEF StepTold, MessagesSound
<1>5. Told(s)'
  BY <1>3, PipelineRests DEF StepTold, Told
<1>6. Collects(s, result[s])'
  BY PipelineRests DEF StepTold, Collects
<1>7. Arrives(s)'
  BY <1>3, PipelineRests DEF StepTold, Arrives
<1>8. Waits(s)'
  <2>1. \A d, what : Queued(out', d, what) => Queued(out, d, what)
    BY <1>0, QueuedTail
  <2>2. ASSUME NEW d \in DepsOf(dep_map, s), NEW i \in DOMAIN out', NEW j \in DOMAIN out', i < j,
               Brings(out'[i], s, "started")
        PROVE  ~Brings(out'[j], d, "file")
    <3>1. i + 1 \in DOMAIN out /\ j + 1 \in DOMAIN out /\ i + 1 < j + 1
          /\ out'[i] = out[i + 1] /\ out'[j] = out[j + 1]
      BY <1>0, <2>2, TailAt
    <3> QED
      BY <2>2, <3>1 DEF StepTold, Waits
  <2> QED
    BY <2>1, <2>2, PipelineRests DEF StepTold, Waits
<1> QED
  BY <1>1, <1>2, <1>4, <1>5, <1>6, <1>7, <1>8 DEF StepTold

(* The first message of a step is one the client can make sense of. *)
LEMMA HeadFollows ==
  ASSUME RunStateInv, out # <<>>, NEW s \in Steps, StepTold(s), Of(Head(out), s)
  PROVE  LET h == Head(out)
             r == result[s]
         IN  /\ h \in News /\ Sound(s, h) /\ Comes(r, h)
             /\ r.phase = "none" => h.kind = "started" \/ (h.kind = "completed" /\ place[s] = "unborn")
             /\ r.phase \in {"started", "output"} => h.kind \in {"output", "completed"}
             /\ r.phase \in {"completed", "file"} => h.kind = "file"
<1> DEFINE h == Head(out)
           r == result[s]
<1>0. out \in Seq(News) /\ h \in News
  BY TailAt DEF RunStateInv, ChannelsTyped
<1>1. Comes(r, h)
  BY <1>0, ContinuesTail DEF StepTold
<1>2. Sound(s, h)
  <2>1. h \in Msgs
    BY <1>0, TailAt DEF Msgs
  <2> QED
    BY <2>1 DEF StepTold, MessagesSound
<1>3. ASSUME NEW what, Queued(out, s, what), h.kind # what
      PROVE  \E m : m.kind = what /\ Before(h, m)
  <2>1. Queued(Tail(out), s, what)
    BY <1>0, <1>3, QueuedTail DEF Brings
  <2>2. PICK i \in DOMAIN Tail(out) : Brings(Tail(out)[i], s, what)
    BY <2>1 DEF Queued
  <2>3. Before(h, Tail(out)[i])
    BY <1>0, <2>2, OrderedTail DEF StepTold, Brings, Of
  <2> QED
    BY <2>2, <2>3 DEF Brings
<1> HIDE DEF h, r
<1>4. h.kind \in StepMessages
  BY DEF Of, h
<1>5. ASSUME r.phase = "none", place[s] # "unborn"
      PROVE  h.kind = "started"
  <2>1. Queued(out, s, "started")
    BY <1>5 DEF StepTold, Told, r
  <2> QED
    BY <1>3, <2>1 DEF Before
<1>6. r.phase = "none" => h.kind = "started" \/ (h.kind = "completed" /\ place[s] = "unborn")
  BY <1>2, <1>5 DEF Sound
<1>7. ASSUME r.phase \in {"started", "output"}
      PROVE  h.kind \in {"output", "completed"}
  <2>1. h.kind # "started"
    BY <1>1, <1>7 DEF Comes
  <2>2. ASSUME h.kind = "file" PROVE FALSE
    <3>1. Queued(out, s, "completed")
      BY <1>2, <1>7, <2>2 DEF Sound, StepTold, Told, r
    <3> QED
      BY <1>3, <2>2, <3>1 DEF Before
  <2> QED
    BY <1>4, <2>1, <2>2 DEF StepMessages
<1>8. r.phase \in {"completed", "file"} => h.kind = "file"
  BY <1>1 DEF Comes
<1> QED
  BY <1>0, <1>1, <1>2, <1>6, <1>7, <1>8 DEF h, r

LEMMA PrefixTyped ==
  ASSUME NEW f \in Nat \ {0}, NEW n \in Nat
  PROVE  Prefix(f, n) \in Seq(Chunks) /\ Len(Prefix(f, n)) = n
<1>1. \A c \in 1 .. n : <<f, c>> \in Chunks
  BY DEF Chunks
<1> QED
  BY <1>1 DEF Prefix

LEMMA PrefixGrows ==
  ASSUME NEW f \in Nat \ {0}, NEW n \in Nat
  PROVE  Prefix(f, n) \o <<<<f, n + 1>>>> = Prefix(f, n + 1)
<1> DEFINE a == Prefix(f, n)
           b == <<<<f, n + 1>>>>
           c == Prefix(f, n + 1)
<1>1. a \in Seq(Chunks) /\ Len(a) = n /\ c \in Seq(Chunks) /\ Len(c) = n + 1
  BY PrefixTyped
<1>2. b \in Seq(Chunks) /\ Len(b) = 1 /\ b[1] = <<f, n + 1>>
  <2>1. <<f, n + 1>> \in Chunks
    BY DEF Chunks
  <2> QED
    BY <2>1
<1>3. (\A i \in 1 .. n : a[i] = <<f, i>>) /\ (\A i \in 1 .. n + 1 : c[i] = <<f, i>>)
  BY DEF Prefix
<1> HIDE DEF a, b, c
<1>4. /\ a \o b \in Seq(Chunks) /\ Len(a \o b) = Len(a) + Len(b)
      /\ \A i \in 1 .. Len(a) + Len(b) :
            (a \o b)[i] = IF i <= Len(a) THEN a[i] ELSE b[i - Len(a)]
  BY <1>1, <1>2, ConcatProperties
<1>5. Len(a \o b) = n + 1 /\ \A i \in 1 .. n + 1 : (a \o b)[i] = c[i]
  <2>1. Len(a) + Len(b) = n + 1
    BY <1>1, <1>2
  <2>2. ASSUME NEW i \in 1 .. n + 1, i <= n PROVE (a \o b)[i] = c[i]
    <3>1. i \in 1 .. Len(a) + Len(b) /\ i <= Len(a) /\ i \in 1 .. n
      BY <1>1, <2>1, <2>2
    <3>2. (a \o b)[i] = a[i]
      BY <1>4, <3>1
    <3> QED
      BY <1>3, <3>1, <3>2
  <2>3. n + 1 \in 1 .. n + 1 /\ ~(n + 1 <= n) /\ (n + 1) - n = 1
    OBVIOUS
  <2>4. (a \o b)[n + 1] = b[1]
    BY <1>1, <1>4, <2>1, <2>3
  <2>5. (a \o b)[n + 1] = c[n + 1]
    BY <1>2, <1>3, <2>3, <2>4
  <2>6. ASSUME NEW i \in 1 .. n + 1 PROVE i <= n \/ i = n + 1
    OBVIOUS
  <2> QED
    BY <1>4, <2>1, <2>2, <2>5, <2>6
<1>6. a \o b = c
  BY <1>1, <1>4, <1>5, SeqEqual
<1> QED
  BY <1>6 DEF a, b, c

(* An event that is no file leaves what the client has of the files. *)
LEMMA EventTaken ==
  ASSUME RunStateInv, out # <<>>, NEW s \in Steps, StepTold(s), Of(Head(out), s),
         Head(out).kind # "file"
  PROVE  LET h == Head(out)
             r == result[s]
             new == Collected(r, h)
         IN  /\ new \in Results /\ new.phase = h.kind
             /\ new.status = (IF h.kind = "completed" THEN h.status ELSE r.status)
             /\ new.current = NoName /\ r.current = NoName
             /\ Has(new) = Has(r) /\ DOMAIN Has(new) = {} /\ DOMAIN new.files = {}
<1> DEFINE h == Head(out)
           r == result[s]
           new == Collected(r, h)
<1>1. r \in Results /\ h \in News /\ h.kind \in StepMessages
  BY HeadFollows DEF RunStateInv, ChannelsTyped, Of
<1>2. r.phase # "file"
  BY HeadFollows
<1>3. r.current = NoName /\ DOMAIN r.files = {}
  BY <1>2 DEF StepTold, Collects
<1> HIDE DEF h, r
<1>4. Finalized(r) = r
  BY <1>1, <1>3, FinalizedTyped
<1>5. new \in Results
  BY <1>1, CollectedTyped
<1>6. new = IF h.kind = "completed" THEN [r EXCEPT !.status = h.status, !.phase = h.kind]
                                    ELSE [r EXCEPT !.phase = h.kind]
  BY <1>1, <1>4, CollectedTyped DEF StepMessages, h
<1> HIDE DEF new
<1>7. /\ new.phase = h.kind /\ new.status = (IF h.kind = "completed" THEN h.status ELSE r.status)
      /\ new.current = r.current /\ new.files = r.files
  <2>1. CASE h.kind = "completed"
    BY <1>1, <1>6, <2>1 DEF Results
  <2>2. CASE h.kind # "completed"
    BY <1>1, <1>6, <2>2 DEF Results
  <2> QED
    BY <2>1, <2>2
<1>8. Has(new) = new.files /\ Has(r) = r.files
  BY <1>1, <1>3, <1>5, <1>7, HasFiles
<1> QED
  BY <1>3, <1>5, <1>7, <1>8 DEF h, r, new

(* What the client has of a step when it has added chunk c of file f. *)
Placed(r, new, f, c) ==
    /\ new \in Results /\ new.phase = "file" /\ new.status = r.status
    /\ new.current = f /\ Len(new.data) = c
    /\ DOMAIN Has(new) = DOMAIN Has(r) \cup {f}
    /\ Has(new)[f] = Prefix(f, c) /\ Len(Has(new)[f]) = c
    /\ \A g \in DOMAIN Has(r) : g # f => Has(new)[g] = Has(r)[g]

(* A chunk is put where it belongs: after the one before it in its file. *)
LEMMA ChunkTaken ==
  ASSUME RunStateInv, client = "reading", out # <<>>, NEW s \in Steps, StepTold(s),
         Of(Head(out), s), Head(out).kind = "file"
  PROVE  LET p == Spot(Head(out))
         IN  /\ p[1] \in Nat \ {0} /\ p[2] \in Nat \ {0} /\ p = <<p[1], p[2]>>
             /\ Placed(result[s], Collected(result[s], Head(out)), p[1], p[2])
<1> DEFINE h == Head(out)
           r == result[s]
           new == Collected(r, h)
           f == Spot(h)[1]
           c == Spot(h)[2]
<1>1. r \in Results /\ h \in News /\ h.kind = "file" /\ out \in Seq(News)
  BY HeadFollows DEF RunStateInv, ChannelsTyped
<1>2. Sound(s, h) /\ Comes(r, h) /\ r.phase \in {"completed", "file"}
  <2>1. r.phase # "none" /\ r.phase \notin {"started", "output"}
    BY HeadFollows
  <2> QED
    BY <1>1, <2>1, HeadFollows DEF Results
<1>3. Collects(s, r) /\ Linked(r, out, s)
  BY DEF StepTold
<1>4. Brings(h, s, "file")
  BY DEF Brings, Of
<1>5. ASSUME QueuedChunk(out, s, <<f, c - 1>>), f \in Nat, c \in Nat PROVE FALSE
  <2>1. Spot(h) # <<f, c - 1>>
    BY <1>5
  <2>2. QueuedChunk(Tail(out), s, <<f, c - 1>>)
    BY <1>1, <1>5, <2>1, QueuedTail
  <2>3. PICK i \in DOMAIN Tail(out) :
           Brings(Tail(out)[i], s, "file") /\ Spot(Tail(out)[i]) = <<f, c - 1>>
    BY <2>2 DEF QueuedChunk
  <2>4. Before(h, Tail(out)[i])
    BY <1>1, <2>3, OrderedTail DEF StepTold, Brings, Of
  <2> QED
    <3>1. Earlier(Spot(h), <<f, c - 1>>)
      BY <1>1, <2>3, <2>4 DEF Before, Brings
    <3>2. f < f \/ c < c - 1
      BY <3>1 DEF Earlier
    <3> QED
      BY <1>5, <3>2
<1>6. c # 1 => (r.current = f /\ Len(r.data) = c - 1) \/ QueuedChunk(out, s, <<f, c - 1>>)
  <2>1. 1 \in DOMAIN out /\ out[1] = h
    BY <1>1, TailAt
  <2> QED
    BY <1>3, <1>4, <2>1 DEF Linked
<1> HIDE DEF h, r
<1>7. /\ Spot(h) = <<f, c>> /\ f \in Nat \ {0} /\ c \in Nat \ {0}
      /\ h.data = <<<<f, c>>>> /\ h.name = (IF c = 1 THEN f ELSE NoName)
  BY <1>1, <1>2 DEF Sound, Chunks
<1> HIDE DEF f, c
<1>8. \A g \in DOMAIN Has(r) : g \in Nat \ {0} /\ Has(r)[g] \in Seq(Chunks) /\ Len(Has(r)[g]) \in Nat \ {0}
  <2>1. \A g \in DOMAIN Has(r) : g \in Nat \ {0} /\ Has(r)[g] \in Seq(Chunks)
    BY <1>1, HasFiles
  <2>2. ASSUME NEW g \in DOMAIN Has(r)
        PROVE  Len(Has(r)[g]) \in Nat \ {0}
    <3>1. Len(Has(r)[g]) \in Nat
      BY <2>1, LenProperties
    <3>2. g \in 1 .. Len(sizes[s]) /\ Len(Has(r)[g]) \in 1 .. sizes[s][g]
      BY <1>3 DEF Collects, ChunkOf, Last
    <3>3. sizes[s][g] \in Nat
      BY <3>2, SizesTyped DEF RunStateInv, TaskIInv
    <3> QED
      BY <3>1, <3>2, <3>3
  <2> QED
    BY <2>1, <2>2
<1>9. \A g \in DOMAIN Has(r) : g < f \/ (g = f /\ Len(Has(r)[g]) < c)
  <2>1. \A g \in DOMAIN Has(r) : Earlier(Last(r, g), <<f, c>>)
    BY <1>1, <1>2, <1>7 DEF Comes
  <2> QED
    BY <2>1 DEF Last, Earlier
<1>10. new \in Results
  BY <1>1, CollectedTyped DEF StepMessages
<1>11. ASSUME c = 1 PROVE Placed(r, new, f, c)
  <2>0. h.kind \in StepMessages /\ h.name = f /\ h.name # NoName /\ h.data = <<<<f, c>>>>
    BY <1>1, <1>7, <1>11 DEF StepMessages, NoName
  <2>1. new = [Finalized(r) EXCEPT !.current = h.name, !.data = h.data, !.phase = "file"]
    BY <1>1, <2>0, CollectedTyped
  <2> HIDE DEF new
  <2>2. /\ new.current = f /\ new.data = <<<<f, c>>>> /\ new.phase = "file"
        /\ new.status = r.status /\ new.files = Has(r)
    BY <1>1, <2>0, <2>1, FinalizedTyped DEF Results, Has
  <2>3. <<<<f, c>>>> = Prefix(f, c)
    BY <1>11 DEF Prefix
  <2>4. f \notin DOMAIN Has(r)
    BY <1>7, <1>8, <1>9, <1>11
  <2>5. /\ DOMAIN Has(new) = DOMAIN Has(r) \cup {f} /\ Has(new)[f] = new.data
        /\ \A g \in DOMAIN Has(r) : g # f => Has(new)[g] = Has(r)[g]
    BY <1>7, <1>10, <2>2, HasFiles DEF NoName
  <2>6. Len(Prefix(f, c)) = c
    BY <1>7, PrefixTyped
  <2> QED
    BY <1>10, <2>2, <2>3, <2>5, <2>6 DEF Placed
<1>12. ASSUME c # 1 PROVE Placed(r, new, f, c)
  <2>1. r.current = f /\ Len(r.data) = c - 1 /\ f # NoName
    BY <1>5, <1>6, <1>7, <1>12 DEF NoName
  <2>2. new = [r EXCEPT !.data = r.data \o <<<<f, c>>>>]
    <3>1. h.kind \in StepMessages /\ h.name = NoName /\ h.data = <<<<f, c>>>> /\ r.current # NoName
      BY <1>1, <1>7, <1>12, <2>1 DEF StepMessages
    <3>2. new = [r EXCEPT !.data = r.data \o h.data]
      BY <1>1, <3>1, CollectedTyped
    <3> QED
      BY <3>1, <3>2
  <2> HIDE DEF new
  <2>3. /\ new.current = f /\ new.data = r.data \o <<<<f, c>>>> /\ new.phase = r.phase
        /\ new.status = r.status /\ new.files = r.files
    BY <1>1, <2>1, <2>2 DEF Results
  <2>4. r.phase = "file"
    BY <1>3, <2>1 DEF Collects
  <2>5. f \in DOMAIN Has(r) /\ Has(r)[f] = r.data
    BY <1>1, <2>1, HasFiles
  <2>6. r.data = Prefix(f, c - 1)
    BY <1>3, <2>1, <2>5 DEF Collects
  <2>7. new.data = Prefix(f, c)
    <3>1. c - 1 \in Nat /\ (c - 1) + 1 = c
      BY <1>7
    <3> QED
      BY <1>7, <2>3, <2>6, <3>1, PrefixGrows
  <2>8. /\ DOMAIN Has(new) = DOMAIN new.files \cup {f} /\ Has(new)[f] = new.data
        /\ \A g \in DOMAIN new.files : g # f => Has(new)[g] = new.files[g]
    BY <1>10, <2>1, <2>3, HasFiles
  <2>9. /\ DOMAIN Has(r) = DOMAIN r.files \cup {f}
        /\ \A g \in DOMAIN r.files : g # f => Has(r)[g] = r.files[g]
    BY <1>1, <2>1, HasFiles
  <2>10. /\ DOMAIN Has(new) = DOMAIN Has(r) \cup {f}
         /\ \A g \in DOMAIN Has(r) : g # f => Has(new)[g] = Has(r)[g]
    BY <2>3, <2>5, <2>8, <2>9
  <2>11. Len(new.data) = c
    BY <1>7, <2>7, PrefixTyped
  <2> QED
    BY <1>10, <2>3, <2>4, <2>7, <2>8, <2>10, <2>11 DEF Placed
<1> QED
  BY <1>7, <1>11, <1>12 DEF h, r, f, c, new

(* The messages left follow what the client has made of the one it took. *)
LEMMA OrderTaken ==
  ASSUME RunStateInv, client = "reading", out # <<>>, out' = Tail(out), NEW s \in Steps,
         StepTold(s), Of(Head(out), s), result'[s] = Collected(result[s], Head(out))
  PROVE  Ordered(out', s) /\ Continues(result'[s], out', s) /\ Linked(result'[s], out', s)
<1> DEFINE h == Head(out)
           r == result[s]
           new == Collected(r, h)
           t == Tail(out)
           f == Spot(h)[1]
           c == Spot(h)[2]
<1>1. /\ out \in Seq(News) /\ r \in Results /\ Sound(s, h) /\ h.kind \in StepMessages
      /\ Ordered(out, s) /\ Continues(r, out, s) /\ Linked(r, out, s)
  BY HeadFollows DEF StepTold, RunStateInv, ChannelsTyped, Of
<1>2. ASSUME NEW i \in DOMAIN t, Of(t[i], s)
      PROVE  /\ Before(h, t[i]) /\ Comes(r, t[i])
             /\ t[i].kind = "file" => Spot(t[i])[1] \in Nat \ {0} /\ Spot(t[i])[2] \in Nat
  <2>1. Before(h, t[i]) /\ Comes(r, t[i])
    BY <1>1, <1>2, OrderedTail, ContinuesTail DEF Continues
  <2>2. Sound(s, t[i])
    <3>1. i + 1 \in DOMAIN out /\ t[i] = out[i + 1]
      BY <1>1, TailAt
    <3> QED
      BY <1>2, <3>1 DEF StepTold, MessagesSound, Msgs
  <2> QED
    BY <2>1, <2>2 DEF Sound, Chunks
<1>3. CASE h.kind # "file"
  <2>1. /\ new.phase = h.kind /\ new.current = NoName /\ r.current = NoName
        /\ DOMAIN Has(new) = {}
    BY <1>3, EventTaken
  <2> HIDE DEF h, r, new, t
  <2>2. Continues(new, t, s)
    <3> SUFFICES ASSUME NEW i \in DOMAIN t, Of(t[i], s) PROVE Comes(new, t[i])
      BY DEF Continues
    <3> QED
      BY <1>1, <1>2, <1>3, <2>1 DEF Before, Comes, StepMessages
  <2>3. Linked(new, t, s)
    <3>1. \A i \in DOMAIN t : Brings(t[i], s, "file") => r.current # Spot(t[i])[1]
      BY <1>2, <2>1 DEF Brings, Of, NoName
    <3>2. ~Brings(h, s, "file")
      BY <1>3 DEF Brings
    <3> QED
      BY <1>1, <3>1, <3>2, LinkedTail DEF h, t
  <2> QED
    BY <1>1, <2>2, <2>3, OrderedTail DEF h, r, new, t
<1>4. CASE h.kind = "file"
  <2>1. /\ Placed(r, new, f, c)
        /\ f \in Nat \ {0} /\ c \in Nat \ {0} /\ Spot(h) = <<f, c>>
    BY <1>4, ChunkTaken
  <2>2. ASSUME NEW i \in DOMAIN t, Brings(t[i], s, "file")
        PROVE  Earlier(<<f, c>>, Spot(t[i]))
    BY <1>2, <1>4, <2>1, <2>2 DEF Before, Brings, Of
  <2> HIDE DEF h, r, new, t, f, c
  <2>3. Continues(new, t, s)
    <3> SUFFICES ASSUME NEW i \in DOMAIN t, Of(t[i], s) PROVE Comes(new, t[i])
      BY DEF Continues
    <3>1. t[i].kind = "file"
      BY <1>2, <1>4 DEF Before
    <3>2. ASSUME NEW g \in DOMAIN Has(new)
          PROVE  Earlier(Last(new, g), Spot(t[i]))
      <4>1. CASE g = f
        <5>1. Last(new, g) = <<f, c>>
          BY <2>1, <4>1 DEF Placed, Last
        <5> QED
          BY <2>2, <3>1, <5>1 DEF Brings, Of
      <4>2. CASE g # f
        <5>1. g \in DOMAIN Has(r) /\ Last(new, g) = Last(r, g)
          BY <2>1, <4>2 DEF Placed, Last
        <5> QED
          BY <1>2, <3>1, <5>1 DEF Comes
      <4> QED
        BY <4>1, <4>2
    <3> QED
      BY <2>1, <3>1, <3>2 DEF Comes, Placed
  <2>4. Linked(new, t, s)
    <3>1. ASSUME NEW i \in DOMAIN t, Brings(t[i], s, "file"),
                 r.current = Spot(t[i])[1], Len(r.data) = Spot(t[i])[2] - 1
          PROVE  FALSE
      <4> DEFINE p == Spot(t[i])
      <4>1. p[1] \in Nat \ {0} /\ p[2] \in Nat
        BY <1>2, <3>1 DEF Brings, Of
      <4>2. p[1] \in DOMAIN Has(r) /\ Len(Has(r)[p[1]]) = p[2] - 1
        BY <1>1, <3>1, <4>1, HasFiles DEF NoName
      <4>3. Earlier(<<p[1], p[2] - 1>>, <<f, c>>)
        <5>1. Comes(r, h) /\ h.kind = "file"
          BY <1>4, HeadFollows DEF h, r
        <5> QED
          BY <2>1, <4>2, <5>1 DEF Comes, Last
      <4>4. Earlier(<<f, c>>, p)
        BY <2>2, <3>1
      <4> HIDE DEF p
      <4> QED
        BY <2>1, <4>1, <4>3, <4>4 DEF Earlier
    <3>2. ASSUME NEW i \in DOMAIN t, Brings(t[i], s, "file"),
                 Spot(h) = <<Spot(t[i])[1], Spot(t[i])[2] - 1>>
          PROVE  new.current = Spot(t[i])[1] /\ Len(new.data) = Spot(t[i])[2] - 1
      BY <2>1, <3>2 DEF Placed
    <3> QED
      BY <1>1, <3>1, <3>2, LinkedTail DEF h, t
  <2> QED
    BY <1>1, <2>3, <2>4, OrderedTail DEF h, r, new, t
<1> QED
  BY <1>3, <1>4

LEMMA CollectsTaken ==
  ASSUME RunStateInv, client = "reading", out # <<>>, NEW s \in Steps,
         StepTold(s), Of(Head(out), s)
  PROVE  Collects(s, Collected(result[s], Head(out)))
<1> DEFINE h == Head(out)
           r == result[s]
           new == Collected(r, h)
           f == Spot(h)[1]
           c == Spot(h)[2]
<1>1. Sound(s, h) /\ Comes(r, h) /\ h.kind \in StepMessages /\ Collects(s, r) /\ r \in Results
  BY HeadFollows DEF StepTold, RunStateInv, ChannelsTyped, Of
<1>2. CASE h.kind # "file"
  <2>1. /\ new.phase = h.kind /\ new.current = NoName /\ DOMAIN Has(new) = {} /\ DOMAIN new.files = {}
        /\ new.status = (IF h.kind = "completed" THEN h.status ELSE r.status)
    BY <1>2, EventTaken
  <2> HIDE DEF h, r, new
  <2>2. /\ report[s] # "none" /\ new.phase # "none"
        /\ place[s] = "unborn" => new.phase = "completed"
        /\ Live(s) => new.phase \in {"started", "output"}
    BY <1>1, <2>1 DEF Sound, StepMessages
  <2>3. phase # "aborted" /\ new.status # "unspecified" =>
           new.status = report[s] /\ report[s] \notin {"none", "started"}
    BY <1>1, <2>1 DEF Sound, Collects
  <2>4. Collects(s, new)
    BY <2>1, <2>2, <2>3 DEF Collects
  <2> QED
    BY <2>4 DEF h, r, new
<1>3. CASE h.kind = "file"
  <2>1. /\ Placed(r, new, f, c)
        /\ f \in Nat \ {0} /\ c \in Nat \ {0} /\ Spot(h) = <<f, c>>
    BY <1>3, ChunkTaken
  <2>2. ChunkOf(s, Spot(h)) /\ Earlier(Spot(h), at[s]) /\ ~Live(s) /\ place[s] # "unborn"
        /\ report[s] # "none"
    BY <1>1, <1>3 DEF Sound
  <2> HIDE DEF h, r, new, f, c
  <2>3. ASSUME NEW g \in DOMAIN Has(new)
        PROVE  /\ ChunkOf(s, Last(new, g)) /\ Earlier(Last(new, g), at[s])
               /\ Has(new)[g] = Prefix(g, Len(Has(new)[g])) /\ g <= new.current
    <3>1. CASE g = f
      <4>1. Last(new, g) = <<f, c>> /\ new.current = f /\ Has(new)[g] = Prefix(f, c)
            /\ Len(Has(new)[g]) = c
        BY <2>1, <3>1 DEF Placed, Last
      <4> QED
        BY <2>1, <2>2, <3>1, <4>1
    <3>2. CASE g # f
      <4>1. g \in DOMAIN Has(r) /\ Has(new)[g] = Has(r)[g] /\ Last(new, g) = Last(r, g)
            /\ new.current = f
        BY <2>1, <3>2 DEF Placed, Last
      <4>2. g \in Nat /\ Earlier(Last(r, g), <<f, c>>)
        BY <1>1, <1>3, <2>1, <4>1, HasFiles DEF Comes
      <4>3. g <= f
        BY <2>1, <4>2 DEF Earlier, Last
      <4> QED
        BY <1>1, <4>1, <4>3 DEF Collects
    <3> QED
      BY <3>1, <3>2
  <2>4. new.phase = "file" /\ new.status = r.status
    BY <2>1 DEF Placed
  <2>5. phase # "aborted" /\ new.status # "unspecified" =>
           new.status = report[s] /\ report[s] \notin {"none", "started"}
    BY <1>1, <2>4 DEF Collects
  <2>6. Collects(s, new)
    BY <2>2, <2>3, <2>4, <2>5 DEF Collects
  <2> QED
    BY <2>6 DEF h, r, new
<1> QED
  BY <1>2, <1>3

LEMMA ToldTaken ==
  ASSUME RunStateInv, client = "reading", out # <<>>, out' = Tail(out), NEW s \in Steps,
         StepTold(s), Of(Head(out), s), result'[s] = Collected(result[s], Head(out)),
         UNCHANGED <<vars, executors, events, tasks>>
  PROVE  Told(s)'
<1> DEFINE h == Head(out)
           r == result[s]
           new == Collected(r, h)
<1>1. /\ Sound(s, h) /\ Comes(r, h) /\ h.kind \in StepMessages /\ Told(s) /\ out \in Seq(News)
      /\ r.phase \in {"completed", "file"} => h.kind = "file"
  BY HeadFollows DEF StepTold, RunStateInv, ChannelsTyped, Of
<1>2. new.phase = h.kind /\ new.status = (IF h.kind = "completed" THEN h.status ELSE r.status)
  BY EventTaken, ChunkTaken DEF Placed
<1>3. \A what : Queued(out, s, what) => Queued(Tail(out), s, what) \/ h.kind = what
  BY <1>1, QueuedTail DEF Brings
<1> HIDE DEF h, r, new
<1>4. place[s] # "unborn" => new.phase # "none"
  BY <1>1, <1>2 DEF StepMessages
<1>5. Forwarded(s) => new.phase \in {"completed", "file"} \/ Queued(Tail(out), s, "completed")
  BY <1>1, <1>2, <1>3 DEF Told, r
<1>6. phase # "aborted" /\ report[s] \notin {"none", "started"} =>
          new.status = report[s] \/ Queued(Tail(out), s, "completed")
  BY <1>1, <1>2, <1>3 DEF Told, Sound, r
<1> QED
  BY <1>4, <1>5, <1>6, PipelineRests DEF Told, h, r, new

LEMMA ArrivesTaken ==
  ASSUME RunStateInv, client = "reading", out # <<>>, out' = Tail(out), NEW s \in Steps,
         StepTold(s), Of(Head(out), s), result'[s] = Collected(result[s], Head(out)),
         UNCHANGED <<vars, executors, events, tasks>>
  PROVE  Arrives(s)'
<1> DEFINE h == Head(out)
           r == result[s]
           new == Collected(r, h)
           f == Spot(h)[1]
           c == Spot(h)[2]
<1>1. /\ Sound(s, h) /\ Comes(r, h) /\ Arrives(s) /\ out \in Seq(News) /\ r \in Results
  BY HeadFollows DEF StepTold, RunStateInv, ChannelsTyped, Of
<1>2. ASSUME NEW p \in Chunks, ChunkOf(s, p), Earlier(p, at[s]), <<s, p[1]>> \notin broken
      PROVE  \/ p[1] \in DOMAIN Has(new) /\ p[2] <= Len(Has(new)[p[1]])
             \/ QueuedChunk(Tail(out), s, p)
  <2>1. \/ p[1] \in DOMAIN Has(r) /\ p[2] <= Len(Has(r)[p[1]])
        \/ QueuedChunk(Tail(out), s, p)
        \/ h.kind = "file" /\ Spot(h) = p
    BY <1>1, <1>2, QueuedTail DEF Arrives, Brings
  <2>2. CASE h.kind # "file"
    BY <2>1, <2>2, EventTaken
  <2>3. CASE h.kind = "file"
    <3>1. /\ Placed(r, new, f, c)
          /\ f \in Nat \ {0} /\ c \in Nat \ {0} /\ Spot(h) = <<f, c>>
      BY <2>3, ChunkTaken
    <3> HIDE DEF h, r, new, f, c
    <3>2. CASE p[1] \in DOMAIN Has(r) /\ p[2] <= Len(Has(r)[p[1]])
      <4>1. CASE p[1] = f
        <5>1. Earlier(Last(r, f), <<f, c>>)
          BY <1>1, <2>3, <3>1, <3>2, <4>1 DEF Comes
        <5>2. Len(Has(r)[f]) \in Nat /\ p[2] \in Nat
          BY <1>1, <3>2, <4>1, HasFiles, LenProperties DEF Chunks
        <5>3. p[2] <= c
          BY <3>1, <3>2, <4>1, <5>1, <5>2 DEF Earlier, Last
        <5> QED
          BY <3>1, <4>1, <5>3 DEF Placed
      <4>2. CASE p[1] # f
        BY <3>1, <3>2, <4>2 DEF Placed
      <4> QED
        BY <4>1, <4>2
    <3>3. CASE Spot(h) = p
      BY <3>1, <3>3 DEF Placed
    <3> QED
      BY <2>1, <3>2, <3>3
  <2> QED
    BY <2>2, <2>3
<1> QED
  BY <1>2, PipelineRests DEF Arrives

LEMMA WaitsTaken ==
  ASSUME RunStateInv, client = "reading", out # <<>>, out' = Tail(out), NEW s \in Steps,
         StepTold(s), Of(Head(out), s), UNCHANGED <<vars, executors, events, tasks>>
  PROVE  Waits(s)'
<1>0. out \in Seq(News) /\ Waits(s)
  BY DEF RunStateInv, ChannelsTyped, StepTold
<1>1. UNCHANGED <<place, dep_map>>
  BY PipelineRests
<1>2. /\ DOMAIN out = 1 .. Len(out) /\ DOMAIN out' = 1 .. Len(out) - 1 /\ Len(out) \in Nat \ {0}
      /\ Head(out) = out[1] /\ \A i \in 1 .. Len(out) - 1 : out'[i] = out[i + 1]
  BY <1>0, TailAt
<1>3. ASSUME NEW d \in DepsOf(dep_map, s), NEW i \in DOMAIN out', NEW j \in DOMAIN out', i < j,
             Brings(out'[i], s, "started")
      PROVE  ~Brings(out'[j], d, "file")
  <2>1. i + 1 \in DOMAIN out /\ j + 1 \in DOMAIN out /\ i + 1 < j + 1
        /\ out'[i] = out[i + 1] /\ out'[j] = out[j + 1]
    BY <1>2, <1>3
  <2> QED
    BY <1>0, <1>3, <2>1 DEF Waits
<1>4. ASSUME NEW d \in DepsOf(dep_map, s), place[s] # "unborn"
      PROVE  ~Queued(out', d, "file")
  <2>1. CASE result[s].phase # "none"
    BY <1>0, <1>4, <2>1, QueuedTail DEF Waits
  <2>2. CASE result[s].phase = "none"
    <3>1. Brings(out[1], s, "started") /\ 1 \in DOMAIN out
      BY <1>2, <1>4, <2>2, HeadFollows DEF Of, Brings
    <3>2. ASSUME NEW j \in DOMAIN out' PROVE ~Brings(out'[j], d, "file")
      <4>1. j + 1 \in DOMAIN out /\ 1 < j + 1 /\ out'[j] = out[j + 1]
        BY <1>2
      <4> QED
        BY <1>0, <3>1, <4>1 DEF Waits
    <3> QED
      BY <3>2 DEF Queued
  <2> QED
    BY <2>1, <2>2
<1> QED
  BY <1>1, <1>3, <1>4 DEF Waits

LEMMA OwnTaken ==
  ASSUME RunStateInv, client = "reading", client' = client, out # <<>>, out' = Tail(out),
         NEW s \in Steps, StepTold(s), Of(Head(out), s),
         result'[s] = Collected(result[s], Head(out)),
         UNCHANGED <<vars, executors, events, tasks>>
  PROVE  StepTold(s)'
<1>1. Ordered(out', s) /\ Continues(result'[s], out', s) /\ Linked(result'[s], out', s)
  BY OrderTaken
<1>2. Told(s)' /\ Arrives(s)' /\ Waits(s)'
  BY ToldTaken, ArrivesTaken, WaitsTaken
<1>3. MessagesSound(s)'
  <2>1. out \in Seq(News)
    BY DEF RunStateInv, ChannelsTyped
  <2> QED
    BY <2>1, MsgsTail, PipelineRests DEF StepTold, MessagesSound
<1>4. Collects(s, result[s])'
  <2>1. Collects(s, result'[s])
    BY CollectsTaken
  <2> QED
    BY <2>1, PipelineRests DEF Collects
<1> QED
  BY <1>1, <1>2, <1>3, <1>4 DEF StepTold

(* With PipelineCompleted the client puts down the file it was making. *)
LEMMA ClosedTaken ==
  ASSUME RunStateInv, out # <<>>, out' = Tail(out), Tail(out) = <<>>, Head(out).kind = "closed",
         NEW s \in Steps, StepTold(s), result'[s] = Finalized(result[s]), client' = "done",
         UNCHANGED <<vars, executors, events, tasks>>
  PROVE  StepTold(s)' /\ result'[s].current = NoName
<1>0. out \in Seq(News) /\ result[s] \in Results /\ DOMAIN out' = {}
  BY EmptySeq DEF RunStateInv, ChannelsTyped
<1> PICK r \in Results : r = result[s]
  BY <1>0
<1>1. PICK new : new = Finalized(r)
  OBVIOUS
<1>2. /\ new \in Results /\ new.phase = r.phase /\ new.status = r.status /\ new.current = NoName
      /\ r.current = NoName => new = r
      /\ Has(new) = Has(r) /\ new = result'[s]
  <2>1. /\ new \in Results /\ new.phase = r.phase /\ new.status = r.status /\ new.current = NoName
        /\ r.current = NoName => new = r
    BY <1>1, FinalizedTyped
  <2>2. Has(new) = new.files
    BY <2>1, HasFiles
  <2> QED
    BY <1>1, <2>1, <2>2 DEF Has
<1>3. /\ \A what : ~Queued(out, s, what) /\ ~Queued(out', s, what)
      /\ \A p : ~QueuedChunk(out, s, p)
      /\ \A d, what : ~Queued(out', d, what)
  BY <1>0, QueuedTail DEF Queued, QueuedChunk, Brings, StepMessages
<1>5. Ordered(out', s) /\ Continues(result'[s], out', s) /\ Linked(result'[s], out', s)
  BY <1>0 DEF Ordered, Continues, Linked
<1>6. MessagesSound(s)'
  BY <1>0 DEF MessagesSound, Msgs
<1>7. Told(s)'
  BY <1>2, <1>3, PipelineRests DEF StepTold, Told
<1>8. Collects(s, new)'
  <2>1. Collects(s, r)
    BY DEF StepTold
  <2>2. r.phase # "file" => new = r
    BY <1>2, <2>1 DEF Collects
  <2>3. \A f \in DOMAIN Has(new) : /\ ChunkOf(s, Last(new, f)) /\ Earlier(Last(new, f), at[s])
                                   /\ Has(new)[f] = Prefix(f, Len(Has(new)[f]))
    BY <1>2, <2>1 DEF Collects, Last
  <2> QED
    BY <1>2, <2>1, <2>2, <2>3, PipelineRests DEF Collects
<1>9. Arrives(s)'
  BY <1>2, <1>3, PipelineRests DEF StepTold, Arrives
<1>10. Waits(s)'
  BY <1>0, <1>3 DEF Waits
<1>11. Collects(s, result[s])'
  BY <1>2, <1>8 DEF Collects
<1> QED
  BY <1>2, <1>5, <1>6, <1>7, <1>9, <1>10, <1>11 DEF StepTold

-----------------------------------------------------------------------------
(* What the client is told and has is an invariant *)

LEMMA ClientInit == RunInit => ClientIInv
<1> SUFFICES ASSUME RunInit PROVE ClientIInv
  OBVIOUS
<1>1. out = <<>> /\ DOMAIN out = {} /\ client = "reading"
  BY DEF RunInit
<1>2. Closing
  BY <1>1 DEF Closing
<1>3. ASSUME NEW s \in Steps
      PROVE  StepTold(s)
  <2>1. /\ place[s] = "unborn" /\ ~Forwarded(s) /\ ~Live(s) /\ report[s] = "none" /\ result[s] = Fresh
        /\ sizes[s] = <<>>
    BY <1>3 DEF RunInit, Init, Forwarded, Live, CompletedSent, Nothing
  <2>2. /\ DOMAIN Has(Fresh) = {} /\ DOMAIN Fresh.files = {} /\ Fresh.current = NoName
        /\ Fresh.phase = "none" /\ Fresh.status = "unspecified"
    BY DEF Has, Finalized, Fresh, NoName
  <2>3. Ordered(out, s) /\ Continues(result[s], out, s) /\ Linked(result[s], out, s)
    BY <1>1 DEF Ordered, Continues, Linked
  <2>4. MessagesSound(s) /\ Told(s) /\ Collects(s, result[s])
    BY <1>1, <2>1, <2>2 DEF MessagesSound, Msgs, Told, Collects
  <2>5. Arrives(s)
    <3>1. \A p : ~ChunkOf(s, p)
      BY <2>1 DEF ChunkOf
    <3> QED
      BY <3>1 DEF Arrives
  <2>6. Waits(s)
    BY <1>1, <2>1 DEF Waits
  <2> QED
    BY <2>3, <2>4, <2>5, <2>6 DEF StepTold
<1> QED
  BY <1>1, <1>2, <1>3 DEF ClientIInv

LEMMA PipelineMoves ==
  ASSUME RunStateInv, RunStateInv', ClientIInv,
         SchedulerRuns \/ \E s \in Steps : Executor(s) \/ TaskRuns(s)
  PROVE  ClientIInv'
<1>1. UNCHANGED <<client, result, verdict>>
  BY DEF SchedulerRuns, Announce, MakeTempDir, Launch, Tell, Listen, Executor, EmitOutput,
         EmitCompleted, ExecFails, Emit, TaskRuns, Receive, Cancel, EventsClosed, ForwardOutput,
         ForwardCompleted, StreamChunk, StreamFails, FilesStreamed, SendTimedOut, SendDone, caller
<1>2. dep_map' = dep_map
  BY SchedulerMoves, TaskMoves, SchedulerForward
<1>3. phase # "finished"
  BY FinishedQuiet
<1>4. CASE client = "reading"
  <2>1. \E m \in News : Tells(m)
    <3>1. ASSUME NEW s \in Steps, Executor(s) PROVE \E m \in News : Tells(m)
      BY <3>1, ExecutorTells, NewsTyped
    <3> QED
      BY <1>4, <3>1, SchedulerTells, TaskTells
  <2>2. PICK m \in News : Tells(m)
    BY <2>1
  <2>3. \A s \in Steps : StepTold(s)'
    BY <1>1, <1>2, <1>4, <2>2, StepToldKept DEF ClientIInv
  <2>4. out \in Seq(News) /\ \A i \in DOMAIN out : out[i].kind # "closed"
    BY <1>3, <1>4 DEF RunStateInv, ChannelsTyped, ClientIInv, Closing
  <2>5. ASSUME NEW i \in DOMAIN out', out'[i].kind = "closed"
        PROVE  i = Len(out') /\ phase' = "finished" /\ out'[i].summary = summary'
    <3>1. out' = Append(out, m)
      BY <2>2, <2>4, <2>5 DEF Tells, Sends
    <3>2. out'[i] = m /\ i = Len(out) + 1
      BY <2>4, <2>5, <3>1, AppendAt
    <3>3. Len(out') = Len(out) + 1
      BY <2>4, <3>1, AppendProperties
    <3> QED
      BY <2>2, <2>5, <3>2, <3>3 DEF Tells
  <2> QED
    BY <1>1, <1>4, <2>3, <2>5 DEF ClientIInv, Closing
<1>5. CASE client # "reading"
  BY <1>1, <1>3, <1>5 DEF ClientIInv, Closing
<1> QED
  BY <1>4, <1>5

LEMMA ClientTakes ==
  ASSUME RunStateInv, ClientIInv, Take
  PROVE  ClientIInv'
<1> DEFINE h == Head(out)
<1>1. /\ client = "reading" /\ out # <<>> /\ out' = Tail(out) /\ h.kind # "error"
      /\ UNCHANGED <<vars, executors, events, tasks>> /\ UNCHANGED <<phase, summary>>
  BY DEF Take, vars
<1>2. /\ out \in Seq(News) /\ h \in News /\ Closing /\ \A s \in Steps : StepTold(s)
      /\ result \in [Steps -> Results]
  BY <1>1, TailAt DEF RunStateInv, ChannelsTyped, ClientIInv
<1>3. /\ Len(out) \in Nat \ {0} /\ DOMAIN out = 1 .. Len(out) /\ DOMAIN out' = 1 .. Len(out) - 1
      /\ h = out[1] /\ Len(out') = Len(out) - 1
      /\ \A i \in 1 .. Len(out) - 1 : out'[i] = out[i + 1]
  BY <1>1, <1>2, TailAt, HeadTailProperties
<1>4. \A i \in DOMAIN out' : out'[i].kind = "closed" =>
          i = Len(out') /\ phase' = "finished" /\ out'[i].summary = summary'
  <2>1. ASSUME NEW i \in DOMAIN out', out'[i].kind = "closed"
        PROVE  i = Len(out') /\ phase = "finished" /\ out'[i].summary = summary
    <3>1. i + 1 \in DOMAIN out /\ out[i + 1].kind = "closed" /\ out'[i] = out[i + 1]
      BY <1>3, <2>1
    <3>2. i + 1 = Len(out) /\ phase = "finished" /\ out[i + 1].summary = summary
      BY <1>2, <3>1 DEF Closing
    <3> QED
      BY <1>3, <3>1, <3>2
  <2> QED
    BY <1>1, <2>1
<1>5. CASE h.kind \in StepMessages
  <2>1. PICK t \in Steps : t = h.step
    BY <1>2, <1>5 DEF News, StepMessages
  <2>2. /\ result' = [result EXCEPT ![t] = Collected(result[t], h)]
        /\ client' = client
    BY <1>5, <2>1 DEF Take, StepMessages
  <2>3. StepTold(t)'
    <3>1. Of(h, t) /\ result'[t] = Collected(result[t], h)
      BY <1>2, <1>5, <2>1, <2>2 DEF Of
    <3> QED
      BY <1>1, <1>2, <2>2, <3>1, OwnTaken
  <2>4. ASSUME NEW s \in Steps, s # t PROVE StepTold(s)'
    <3>1. ~Of(h, s) /\ result'[s] = result[s]
      BY <1>2, <2>1, <2>2, <2>4 DEF Of
    <3> QED
      BY <1>1, <1>2, <2>2, <3>1, OthersTaken
  <2>5. \A s \in Steps : StepTold(s)'
    BY <2>3, <2>4
  <2> QED
    BY <1>1, <1>4, <2>2, <2>5 DEF ClientIInv, Closing
<1>6. CASE h.kind = "begun"
  <2>1. result' = result /\ client' = client
    BY <1>6 DEF Take, StepMessages, caller
  <2>2. \A s \in Steps : StepTold(s)'
    BY <1>1, <1>2, <1>6, <2>1, OthersTaken DEF Of, StepMessages
  <2> QED
    BY <1>1, <1>4, <2>1, <2>2 DEF ClientIInv, Closing
<1>7. CASE h.kind = "closed"
  <2>1. /\ result' = [s \in Steps |-> Finalized(result[s])]
        /\ verdict' = h.summary /\ client' = "done"
    BY <1>7 DEF Take, StepMessages, ClosedOf
  <2>2. phase = "finished" /\ h.summary = summary /\ Len(out) = 1
    BY <1>2, <1>3, <1>7 DEF Closing
  <2>3. Tail(out) = <<>>
    <3>1. Tail(out) \in Seq(News) /\ Len(Tail(out)) = 0
      BY <1>1, <1>2, <1>3, <2>2, TailAt
    <3> QED
      BY <3>1, EmptySeq
  <2>4. \A s \in Steps : StepTold(s)' /\ result'[s].current = NoName
    BY <1>1, <1>2, <1>7, <2>1, <2>3, ClosedTaken
  <2>5. phase' = "finished" /\ verdict' = summary' /\ out' = <<>>
    BY <1>1, <2>1, <2>2, <2>3
  <2> QED
    BY <1>4, <2>1, <2>4, <2>5 DEF ClientIInv, Closing
<1>8. h.kind \in StepMessages \cup {"begun", "error", "closed"}
  BY <1>2 DEF News, StepMessages
<1> QED
  BY <1>1, <1>5, <1>6, <1>7, <1>8

(* Nothing changes. *)
LEMMA NothingTold ==
  ASSUME ClientIInv, UNCHANGED RunVars
  PROVE  ClientIInv'
<1>1. /\ UNCHANGED <<vars, executors, events, tasks, out, client, result, verdict>>
      /\ UNCHANGED <<phase, summary>>
  BY DEF RunVars, caller, vars
<1>2. ASSUME NEW s \in Steps, StepTold(s) PROVE StepTold(s)'
  <2>1. Ordered(out', s) /\ Continues(result'[s], out', s) /\ Linked(result'[s], out', s)
    BY <1>1, <1>2 DEF StepTold
  <2>2. MessagesSound(s)'
    BY <1>1, <1>2, PipelineRests DEF StepTold, MessagesSound, Msgs
  <2>3. Told(s)'
    BY <1>1, <1>2, PipelineRests DEF StepTold, Told
  <2>4. Collects(s, result[s])'
    BY <1>1, <1>2, PipelineRests DEF StepTold, Collects
  <2>5. Arrives(s)'
    BY <1>1, <1>2, PipelineRests DEF StepTold, Arrives
  <2>6. Waits(s)'
    BY <1>1, <1>2, PipelineRests DEF StepTold, Waits
  <2> QED
    BY <2>1, <2>2, <2>3, <2>4, <2>5, <2>6 DEF StepTold
<1> QED
  BY <1>1, <1>2 DEF ClientIInv, Closing

LEMMA ClientNext ==
  RunClientInv /\ RunStateInv' /\ [RunNext]_RunVars => RunClientInv'
<1> SUFFICES ASSUME RunClientInv, RunStateInv', [RunNext]_RunVars
             PROVE  ClientIInv'
  BY DEF RunClientInv
<1>1. CASE SchedulerRuns \/ \E s \in Steps : Executor(s) \/ TaskRuns(s)
  BY <1>1, PipelineMoves DEF RunClientInv
<1>2. CASE Take
  BY <1>2, ClientTakes DEF RunClientInv
<1>3. CASE Leave
  BY <1>3 DEF Leave, ClientIInv
<1>4. CASE UNCHANGED RunVars
  BY <1>4, NothingTold DEF RunClientInv
<1> QED
  BY <1>1, <1>2, <1>3, <1>4 DEF RunNext, Client, RunOver

(* In every reachable state what is on its way to the client continues     *)
(* what it has, in the order it needs it, and is true of the pipeline, and *)
(* nothing that was sent is missing from the two together.                 *)
THEOREM RunClientInvariant == RunSpec => []RunClientInv
<1>1. RunInit /\ RunStateInv => RunClientInv
  BY ClientInit DEF RunClientInv
<1> QED
  BY <1>1, RunStateInvariant, ClientNext, PTL DEF RunSpec

(* For any number of steps and channels of any capacity a step's messages  *)
(* reach the client in the order its handlers rely on.                     *)
THEOREM PhasesInOrder == RunSpec => []StepPhases
<1>1. RunClientInv => StepPhases
  <2> SUFFICES ASSUME RunClientInv, client = "reading", out # <<>>, Head(out).kind \in StepMessages
               PROVE  Head(out).kind \in Follows[result[Head(out).step].phase]
    BY DEF StepPhases
  <2>1. out \in Seq(News) /\ Head(out) \in News /\ result \in [Steps -> Results]
    BY TailAt DEF RunClientInv, RunStateInv, ChannelsTyped
  <2>2. PICK s \in Steps : s = Head(out).step
    BY <2>1 DEF News, StepMessages
  <2>3. StepTold(s) /\ Of(Head(out), s)
    BY <2>2 DEF RunClientInv, ClientIInv, Of
  <2>4. /\ result[s].phase = "none" => Head(out).kind \in {"started", "completed"}
        /\ result[s].phase \in {"started", "output"} => Head(out).kind \in {"output", "completed"}
        /\ result[s].phase \in {"completed", "file"} => Head(out).kind = "file"
    BY <2>3, HeadFollows DEF RunClientInv
  <2>5. result[s].phase \in {"none", "started", "output", "completed", "file"}
    BY <2>1 DEF Results
  <2> QED
    BY <2>2, <2>4, <2>5 DEF Follows
<1> QED
  BY <1>1, RunClientInvariant, PTL

(* When a step's task is past its files and none is on its way, the client *)
(* has all of them that were not lost, whole and in order.                 *)
LEMMA AllFilesHere ==
  ASSUME RunStateInv, NEW s \in Steps, StepTold(s), place[s] # "streaming", ~Queued(out, s, "file")
  PROVE  FilesArrived(s, Has(result[s]))
<1> SUFFICES ASSUME NEW f \in 1 .. Len(sizes[s]), <<s, f>> \notin broken
             PROVE  /\ f \in DOMAIN Has(result[s])
                    /\ Has(result[s])[f] = Prefix(f, sizes[s][f])
  BY DEF FilesArrived, Prefix
<1> DEFINE r == result[s]
           n == sizes[s][f]
<1>1. /\ r \in Results /\ Len(sizes[s]) \in Nat /\ f \in Nat \ {0} /\ n \in Nat \ {0}
      /\ at[s][1] \in Nat /\ at[s][1] > Len(sizes[s])
  BY SizesTyped, StepsTyped DEF RunStateInv, ChannelsTyped, TaskIInv, FilesAgree
<1>2. /\ <<f, n>> \in Chunks /\ ChunkOf(s, <<f, n>>) /\ Earlier(<<f, n>>, at[s])
  BY <1>1 DEF Chunks, ChunkOf, Earlier
<1>3. ~QueuedChunk(out, s, <<f, n>>)
  BY DEF QueuedChunk, Queued
<1>4. f \in DOMAIN Has(r) /\ n <= Len(Has(r)[f])
  BY <1>2, <1>3 DEF StepTold, Arrives
<1>5. Len(Has(r)[f]) \in 1 .. n /\ Has(r)[f] = Prefix(f, Len(Has(r)[f]))
  BY <1>4 DEF StepTold, Collects, ChunkOf, Last
<1>6. Len(Has(r)[f]) = n
  BY <1>1, <1>4, <1>5
<1> QED
  BY <1>4, <1>5, <1>6

(* For any number of steps, any dependencies, files of any number and size *)
(* and channels of any capacity, a client that has read to the end has put *)
(* the interleaved stream together right.                                  *)
THEOREM ClientIsFaithful == RunSpec => []ClientFaithful
<1>1. RunClientInv => ClientFaithful
  <2> SUFFICES ASSUME RunClientInv, client = "done"
               PROVE  /\ verdict = summary
                      /\ \A s \in Steps :
                            /\ result[s].status = IF Lost(s) THEN "unspecified" ELSE report[s]
                            /\ FilesArrived(s, result[s].files)
    BY DEF ClientFaithful
  <2>1. /\ phase = "finished" /\ verdict = summary /\ out = <<>> /\ RunStateInv
        /\ \A s \in Steps : result[s].current = NoName /\ StepTold(s) /\ result[s] \in Results
    BY DEF RunClientInv, ClientIInv, Closing, RunStateInv, ChannelsTyped
  <2>2. \A s, what : ~Queued(out, s, what)
    BY <2>1, EmptySeq DEF Queued
  <2>3. ASSUME NEW s \in Steps
        PROVE  result[s].status = IF Lost(s) THEN "unspecified" ELSE report[s]
    <3>1. /\ result[s].status # "unspecified" =>
                result[s].status = report[s] /\ report[s] \notin {"none", "started"}
          /\ report[s] \notin {"none", "started"} => result[s].status = report[s]
      BY <2>1, <2>2 DEF StepTold, Collects, Told
    <3>2. report[s] \in {"succeeded", "failed", "timed_out", "skipped"} \/ Lost(s)
      BY <2>1, NoStepForgottenHolds DEF NoStepForgotten, RunStateInv
    <3> QED
      BY <3>1, <3>2 DEF Lost
  <2>4. ASSUME NEW s \in Steps
        PROVE  FilesArrived(s, result[s].files)
    <3>1. task[s] \in {"unborn", "ended"}
      BY <2>1, NothingRunsHolds DEF NothingRunsAfterFinish, RunStateInv
    <3>2. place[s] # "streaming"
      BY <2>1, <3>1 DEF RunStateInv, TaskIInv, RunIInv, ExecutorsMatch
    <3>3. FilesArrived(s, Has(result[s]))
      BY <2>1, <2>2, <3>2, AllFilesHere
    <3>4. Has(result[s]) = result[s].files
      BY <2>1, HasFiles
    <3> QED
      BY <3>3, <3>4
  <2> QED
    BY <2>1, <2>3, <2>4
<1> QED
  BY <1>1, RunClientInvariant, PTL

(* Whatever the order in which steps end and channels fill up, a client    *)
(* that is told of a step's start or output has the files of the steps it  *)
(* depends on.                                                             *)
THEOREM FilesComeFirst == RunSpec => []FilesBeforeDependents
<1>1. RunClientInv => FilesBeforeDependents
  <2> SUFFICES ASSUME RunClientInv, NEW s \in Steps, result[s].phase \notin {"none", "completed"},
                      NEW d \in DepsOf(dep_map, s)
               PROVE  FilesArrived(d, Finalized(result[d]).files)
    BY DEF FilesBeforeDependents
  <2>1. client \in {"reading", "done"}
    BY DEF RunClientInv, ClientIInv, RunStateInv, ChannelsTyped, Fresh
  <2>2. RunStateInv /\ \A t \in Steps : StepTold(t)
    BY <2>1 DEF RunClientInv, ClientIInv
  <2>3. place[s] # "unborn"
    BY <2>2 DEF StepTold, Collects
  <2>4. ~Queued(out, d, "file")
    BY <2>2, <2>3 DEF StepTold, Waits
  <2>5. d \in Steps /\ place[d] = "ended"
    BY <2>2, <2>3, DependenciesOver DEF RunStateInv, TaskIInv
  <2>6. FilesArrived(d, Has(result[d]))
    BY <2>2, <2>4, <2>5, AllFilesHere
  <2> QED
    BY <2>6 DEF Has
<1> QED
  BY <1>1, RunClientInvariant, PTL
==============================================================================
