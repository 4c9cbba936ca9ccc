# at-runner: TLA+ models, checks and proofs

at-runner is a gRPC service that runs command-line models (`*.exe` files of
the Acoustics Toolbox) for remote clients. This directory holds the TLA+
specifications of its concurrent core, the TLC runs that check them on small
instances, and the TLAPS proofs that carry the main results to all instances.
Paths such as `pipeline.rs:93` are relative to `service/src/` unless they name
another directory of the repository.

## 1. The system

| Component | State it keeps | Operations | Talks to | What is hard |
|---|---|---|---|---|
| Pipeline validation (`pipeline.rs:190-291`) | locals: id set, the dependency graph, Kahn's counters and queue | validate, build graph, ensure acyclic | scheduler, which relies on the verdict | repeated `depends_on` entries are counted twice on both sides; unsigned counters |
| Pipeline scheduler (`pipeline.rs:49-104, 303-409, 695-787`) | `SchedulerState` (ready, active, completed, failed, skipped, remaining_deps, cancel senders), the deadline | launch, skip, record done, cancel and drain, sweep, finish | step tasks by `done_rx` and cancel channels; the client by the output stream | completions in any order, the deadline against late results, a launch that fails in the middle |
| Step task (`pipeline.rs:530-629, 659-693`) | `StepOutcome`, the handle of the executor | forward events, abort, hand over `StepDone` | executor, scheduler, client | a cancellation racing `Completed`; an executor error that is only logged |
| `exec_lock` and workspace RPCs (`workspace.rs`, `runner.rs:32-47, 189-194`, `main.rs:50-59`) | the lock; the files of the workspace, temporary uploads among them | UploadFile, GetFile, DeleteFile, ListFiles; RunSync as reader; Run, RunPipeline as writers | everything that touches the workspace | handlers dropped in the middle, file operations that outlive them, a streaming task that outlives its lock guard |
| Run (`runner.rs:177-332`) with `run_streaming` (`executor.rs:254-380`) | child process, two pipes, event channel, output channel | start, read, deadline, terminate, detect outputs, stream files | the client | back-pressure from the client to the process; SIGTERM races; errors before `Completed` |
| RunSync (`runner.rs:32-135`, `executor.rs:142-251`) | a temporary directory, buffers | populate, run, collect | workspace | its scan of a workspace that other readers change |
| Run directories and outputs (`executor.rs:41-139`, `pipeline.rs:496-528`) | files and their mtimes | populate, snapshot, detect, materialize | every execution | which of several files of one name wins; coarse mtimes |
| File chunks (`files.rs`) | none | name only in the first chunk | GetFile, Run, steps, the clients | a failure after some chunks |
| Clients (`client/rust`, `client/python`) | partial files, collected output | upload, download, assemble streams | the service | assembling files from unnamed chunks |
| Validation of names, allowlist, timeouts, session ids (`validation.rs`, `main.rs`, `session.rs`) | configuration | pure functions | all requests | overflow of a product of timeouts (`pipeline.rs:297`) |
| Sweep drivers, scripts, images, CI, generated stubs | none of the service's | | | not part of the service |

What makes each component correct:

* validation accepts exactly what the scheduler can run to an end, and gives a
  true reason otherwise;
* the scheduler starts a step only on complete inputs, skips exactly the steps
  whose dependencies went wrong, forgets none, tells each story once, and its
  summary agrees with what it told before; it leaves nothing running;
* the lock keeps a Run or RunPipeline alone in the workspace; uploads appear
  whole or not at all; nobody waits for ever;
* a Run's stream has the protocol's phases, its output is complete and in
  order, its status is true, and the process is gone before the lock is free;
* a pipeline ends and leaves no executable behind, however small its channels
  are and whenever its client leaves, and the client puts the interleaved
  streams of the steps together right;
* a step starts on the files its request determines and is credited with what
  it wrote itself; the workspace is not changed by steps or by RunSync;
* a RunSync's answer is true and whole, and it never waits for an executable
  that waits for it.

`PROJECT.json` lists the hazards behind these properties line by line.

## 2. The modules

| Module | Models | Used by |
|---|---|---|
| `DependencyGraph` | the counters over `dep_map`/`rev_dep`, shared by validation and scheduler; the reference definition `Acyclic` | the next five |
| `ValidatePipeline` | `validate_pipeline`, one action per loop round | `MCValidatePipeline`, `ValidatePipelineProofs` |
| `PipelineContract` | abstract: what RunPipeline promises its client about each step and the summary | refined by `PipelineScheduler` |
| `PipelineScheduler` | `run_pipeline_task` and its helpers, one task per step | `RunPipeline`, `MCPipelineScheduler`, `PipelineSchedulerProofs` |
| `RunPipeline` | the composition: scheduler, bounded channels, `run_step_task` of every step with its executor, file streaming, the client | `MCRunPipeline`, `RunPipelineProofs` (it implements `PipelineScheduler`) |
| `StepDirectory` | the directories of steps: populate, inline inputs, outputs of dependencies, snapshot and output detection, executables at work meanwhile | `MCStepDirectory`, `StepDirectoryProofs` |
| `WorkspaceAccess` | the lock, the workspace, all RPCs that touch them | `MCWorkspaceAccess`, `WorkspaceAccessProofs` |
| `RunContract` | abstract: the phases of a Run's stream (`proto/at/runner/v1/runner.proto`, above `RunOutput`, and ARCHITECTURE.md:252-256) | refined by `RunStream` |
| `RunStream` | one Run: process, pipes, `run_streaming`, `kill_with_grace`, the task that holds the lock, the client | checked directly, `RunStreamProofs` |
| `RunSync` | one RunSync: process, pipes, `run_buffered`, `kill_with_grace`, the collection of outputs, a handler dropped anywhere | checked directly, `RunSyncProofs` |
| `DependencyGraphProofs` | lemmas about the counters | both pipeline proof modules |

The pieces meet as follows. `PipelineContract` is implemented by
`PipelineScheduler`, that by `RunPipeline`. `RunPipeline` reduces
`run_streaming` to the events it sends, whose inside is `RunStream`, and
`launch_step` to one action, whose inside is `StepDirectory`.
`WorkspaceAccess` reduces the three execution RPCs to the times at which they
hold the lock and touch the workspace.

### How state and actions correspond to the code

**PipelineScheduler.** The variables carry the names of the fields of
`SchedulerState`; `done_rx` is the channel, `task` where each `run_step_task`
is, `report` the last lifecycle event sent for a step, `summary` the content of
`PipelineCompleted`. The scheduler is one async task, so an action is what it
does up to one send to the client: `LaunchReady` is `launch_step`, `SkipReady`
is `skip_step` with its `unblock_dependents`, `RecordDone` is
`record_step_done`, `DeadlineHits` covers both places where the loop looks at
the deadline, `DrainDone` and `SweepUnfinished` are the two loops of
`cancel_unfinished_steps`. The ready queue and the channel are sets: every
order is explored, the code's among them. `depends_on` lists are sequences,
because an id listed twice is counted twice by the code.

**ValidatePipeline.** The two loops over the steps, the construction of the
graph and Kahn's algorithm, in the code's order, so that the reason for which a
malformed request is rejected is the code's. The per-step checks of names,
file root and model are one boolean of the request.

**RunPipeline.** The module extends `PipelineScheduler`: an action of the
scheduler is taken together with its `send_output`, which needs room in
`out`, or fails at once when the client has gone. `place` is where a
`run_step_task` stands in its loop, `hand` the event it handles, `exec` its
executor, which may hang for ever; `Cancel` is the arm of `select!` that looks
at `completed_sent` and aborts. When the scheduler returns early after a launch
that failed (`phase = "aborted"`) the cancel senders are dropped, which
cancels the remaining tasks, and their `StepDone` goes nowhere. `result` is
what `run_pipeline_with_timeout` of the Rust client, and
`_consume_pipeline_stream` of the Python one, have put together.

**StepDirectory.** A directory maps names to files, so that copying a file can
be told from linking it. A file is its origin and the tick of its last change.
`launch_step` is called by one task, so one step is launched at a time, but
every copy is an action of its own and the executables of other steps write in
between. A copy that fails has already removed the name (`pipeline.rs:514`).

**RunSync.** A pipe holds `PipeCap` chunks; the executable waits when it is
full. `taken` and `eof` are the two reads that `tokio::join!` drives. `Drop` is
what the end of the handler does, whether it answers or its client leaves: the
child is killed by `kill_on_drop`, the guard released.

**WorkspaceAccess.** Each call makes one request. `pc` is where its handler is
between two suspension points; the sets `Reading` and `Writing` are the places
where the code holds a guard. The directory maps entries to inodes and inodes
to versions, so that a rename leaves open files alone while a Run that
truncates a file does not. A `tokio::fs` operation is handed to the blocking
pool (`pool`) and takes place even if `ClientLeaves` drops the handler, and its
guard, first. tokio's RwLock is fair, but writers only try: readers queue only
behind a writer, and are let in together when it ends.

**RunStream.** Every write, read, send and receive is an action, and both
channels are bounded. The process may write, close pipes, ignore SIGTERM, hang,
or leave descendants with its pipes; `expired` is the deadline. `result` is
what the client has put together with the algorithm of
`client/rust/src/session.rs:141-205` (the Python client's
`_consume_run_stream` is the same).

Operators called *slips* in the comments are plausible mistakes, defined next
to the operator they would replace. No specification uses them; each breaks
one of the checked properties when it takes the operator's place.

## 3. The runs

| Run | Question | Bounds |
|---|---|---|
| `scheduler` | do the counters, sets, reports and summary agree under every order of events, and is `PipelineContract` implemented? | 4 steps, lists of at most 2 entries, all acyclic graphs; symmetric |
| `validate` | is the verdict right, and is there always one? | requests of up to 2 steps over 2 ids with invalid, duplicate and missing ones; all graphs of 3 steps |
| `workspace` | are runs exclusive and uploads atomic, and does every waiter get the lock? | 3 calls of any kind, 1 name, any initial files |
| `run_stream` | is a Run's stream faithful, its lock long enough, and does it end? | both channels of capacity 1, 2 chunks per pipe, 2 files of at most 2 chunks |
| `run_pipeline` | does the composition of scheduler, tasks, channels and client keep its promises, and does it end? | 2 steps, both free or one naming the other twice, all channels of capacity 1, a hanging executable, a client that may leave |
| `step_directory` | which files does a step start on, and which are its outputs? | 3 steps, one of which may depend on both others in either order, 1 name, 2 inline inputs of it, 2 ticks |
| `run_sync` | is the answer true, and does the handler end? | pipes of 1 chunk, 3 chunks per pipe, 2 files, a limit of 3 |
| `claim_*` | does a statement of the documentation hold of the code? | the instances above, or smaller ones; each finds a counterexample |

Why the bounds are enough. A chain, a diamond, a repeated entry, an independent
branch and a skip of a skip all fit into four steps; the theorems of section 5
cover any number. Of the lock, three calls give a writer with two waiters, a
reader that leaves under a writer, and two uploads against one reader. Calls on
different names only meet in the lock and in the listing of a directory, so one
name brings the most conflicts; that more names change nothing is what the
theorems, for any number, say of the safety properties. The same holds of the
directories of steps: whether the file of a name is right depends on that name
alone. Three steps there give a dependent with two suppliers, or a chain.
Channels of capacity one are the smallest on which a sender blocks, and
blocking is the only thing a capacity decides; two chunks in each pipe fill
both channels and the hands of both tasks; two files of two chunks are the
smallest case in which chunks of different files can mix. In `run_pipeline` two
steps already compete for one channel to the client and one to the scheduler.
`MaxWrites`, `MaxFiles`, `MaxSize`, `MaxChunks`, `MaxOutputs` and `MaxTick` are
bounds of the model, not of the code.

Fairness. `ValidatePipeline`: a function that is called returns.
`WorkspaceAccess`: only a writer that has the lock goes on, which is what
`RunStream` and `RunPipeline` establish; nothing is assumed of readers or
clients. `RunStream`: the runtime polls both tasks and time passes
(`ServerSpec`); `RunEnds` also needs a client that reads or leaves
(`FairSpec`), and `claim_deadline` shows that without it the process can
outlive its deadline. `RunPipeline` (`RunFairness`): the runtime polls the
scheduler and the step tasks, and the client reads or leaves; weak fairness of
the scheduler includes that its deadline comes, which is a timer's. Nothing is
assumed of the executables: `PipelineEnds` holds although each may hang.
`RunSync` (`FairSpec`): the runtime polls the handler and SIGKILL works;
nothing is assumed of the executable, of when the deadline passes, of the lock
or of the client. Where an executable may go on writing it is bounded in what
it writes, so that the random choice of tokio's `select!` needs no stronger
assumption to reach the other arm.

Deadlock is checked in every run; a behaviour may stop only in the states that
the actions `Terminated`, `Decided`, `AllOver`, `RunOver`, `Done` and `Over`
describe.

## 4. Where documents and code disagree

Five runs state a sentence of the documentation or of a comment as a property
and find that the code does otherwise:

* `claim_run_sync_fails`: ARCHITECTURE.md:656 calls RunSync always safe to
  call concurrently; it fails when a listed entry disappears before it is copied.
* `claim_workspace_stable`: ARCHITECTURE.md:657 promises that no file changes
  mid-execution; the file operation of an abandoned upload or delete may.
* `claim_inline_override`: ARCHITECTURE.md:329 lets a step's inline inputs
  override files of the same name from dependencies; `pipeline.rs:512-517`
  copies the dependencies' outputs over them.
* `claim_deadline`: `executor.rs:284` says output cannot starve the timeout; a
  client that stops reading can, as sends are awaited inside the select arms.
* `claim_run_completes`: ARCHITECTURE.md:252 and 675 promise `completed`, or an
  INTERNAL error; when `run_streaming` fails the stream just ends.

Four more of the same kind are in the models but have no run of their own.
A RunSync waits while a Run or RunPipeline is active (`runner.rs:45-47`, as the
comment there says), where ARCHITECTURE.md:656 lets them overlap. A Run is
refused as "another Run or RunPipeline is active" while only a reader, say a
ListFiles, holds the lock (`runner.rs:193`, ARCHITECTURE.md:655). A GetFile
answered before a Run started reads its file during the Run, its guard being
dropped with the handler (`workspace.rs:108`, ARCHITECTURE.md:657);
`TornOnlyByRun` says what such a read may see. And a pipeline that ends because
a step cannot be launched releases the lock while tasks of its other steps have
yet to kill their executables (`pipeline.rs:345-358`, ARCHITECTURE.md:655).

## 5. What is proved

The theorems hold for every value of the constants, under the named
assumptions: `StepsAssumption` (finitely many steps) and `DepListsAssumption`
(lists of steps) for the scheduler, with `Capacities` and
`FileListsAssumption` for the whole pipeline, `RequestsAssumption` for
validation, `Distinct` (calls, names and the two null values differ) for the
workspace, `DirectoriesDiffer`, `FilesDiffer` and `ListsAssumption` for the
directories, `SyncBounds` (numbers) for a RunSync, the capacities (at least
one) and the bounds (numbers) of `RunStream` for a Run.

Every safety property that a run checks is the conclusion of a theorem.

* **Scheduler** (`PipelineSchedulerProofs`). `CountsExact` is not inductive by
  itself: that a decrement is right depends on the step being in exactly one
  set, which depends on the done messages being of active steps, which depends
  on the step tasks. The invariant `IInv` joins these: disjoint sets, resolved
  dependencies of all that left the waiting state, tasks, messages and reports
  that match, skips with a cause, and the counters. The arithmetic is in
  `DependencyGraphProofs`: `DecrementExact` says that taking off one per
  occurrence keeps the counter equal to the number of unresolved entries, for
  lists with repetitions. From `IInv` follow the safety properties, two among
  them that no run lists because others imply them (`NoStepForgotten`,
  `NothingRunsAfterFinish`), and `ImplementsContract`: the initial state maps
  to one of `PipelineContract`, and every action to one of its actions or to a
  stutter.
* **The whole pipeline** (`RunPipelineProofs`). `RefinesScheduler`: bounded
  channels and a client only take behaviours away, so that every step is one
  of the scheduler or a stutter. What is proved of the scheduler holds, and
  `RunKeepsContract` follows. `NoExecutableLeft` needs `RunIInv`, which ties
  the executor of a step to the place of its task and both to `task` of the
  scheduler: a step that counts as ended has an executor that was aborted or
  has returned.
* **The pipeline's client** (`RunPipelineProofs`, second half). The client
  reads one queue into which the scheduler and the tasks of all steps write.
  `RunStateInv` first says what the tasks do by themselves: `Completed` is the
  last event of a step, is forwarded once, and only then its files are streamed,
  in order; it gives `RunTypeOK`. `ClientIInv` then relates the queue to what
  the client has (`result`), for each step apart, in both directions. What is
  queued is sound (`MessagesSound`), any two messages of the step are in order
  (`Ordered`), each may follow what the client has (`Continues`), and a later
  chunk of a file has the one before it in the queue or at the end of what the
  client is making (`Linked`): without that the unnamed chunks of two files
  could not be told apart. Conversely what was sent is with the client or
  queued: the lifecycle events (`Told`) and every chunk of a file that is not
  lost (`Arrives`). `Waits` compares two steps: behind the `Started` of one no
  file of a step it depends on is queued, since `StepDone` goes to the scheduler
  only after the last chunk. The proof has one lemma for senders: a step of the
  pipeline sends at most one message that fits (`Tells`), so each action is
  only shown to do that; and one for each way the client takes a message.
  `StepPhases`, `ClientFaithful` and `FilesBeforeDependents` follow.
  The invariant holds while the client reads and when it is done; one that has
  left has thrown everything away.
* **Run** (`RunStreamProofs`). From the process to the client a message is in
  the event channel, in the hand of the forwarding task, or in the channel to
  the client. The invariant looks at the three as one `Queue`, which moving a
  message leaves as it is, and says that it continues what the client has:
  `Numbered`, each stream's output is queued in order, without a gap between
  what the client has and what was taken off the pipe, and before any verdict;
  `Chained`, each message is of a phase that may follow the one before it and
  each chunk the next one of its file or the first of the next file that is not
  lost; `Sound`, a verdict on its way was read off an ended process with both
  pipes drained. `Ties` says by where `run_streaming` and its task are what the
  process and the pipes may be. All safety properties of `run_stream` follow,
  and `ImplementsRunContract`: each action is a step of `RunContract` or a
  stutter, because the phase of the head of the queue follows the client's.
* **Directories** (`StepDirectoryProofs`). `DInv` says of the step in the
  making what every name holds after the files copied so far, of those before
  it that their outputs have not changed since they were detected, and that no
  time exceeds the clock. All five properties of `step_directory` are theorems.
* **RunSync** (`RunSyncProofs`). `SyncInv` ties the place of the handler to the
  process and the pipes: before the process exists nothing is open or read, a
  signal is sent only when the time is up, the process is reaped only when both
  pipes were read to their ends, and a pipe at its end has been read whole.
  `ResponseTruthful` needs it because the response is made of what was read and
  of a verdict that were fixed many steps before.
* **Validation** (`ValidatePipelineProofs`). The heart is the invariant of
  Kahn's algorithm: the popped steps are closed under dependencies and contain
  no cycle, the queue holds exactly the other steps with all dependencies
  popped. When the queue is empty and not everything was popped, the rest is a
  set in which every step depends on another, which is what `Acyclic` denies.
* **Workspace** (`WorkspaceAccessProofs`). `WorkspaceInv` says who holds the
  lock by where the handlers are; what can be on the pool; and `Whole`: an
  inode that a name or an open file refers to was complete once, or belongs to
  a Run. An upload that is not published is referred to by nobody, which is why
  creating and completing it disturbs no reader. All six safety properties of
  `workspace` are theorems.

Only model-checked: the liveness properties (`Decides`, `WaitersAdmitted`,
`RunEnds`, `PipelineEnds`, `FullPipeDrained`, `EndsOnceUnwanted`), which need
fairness and ENABLED and are beyond the prover. The two invariants about the
clients were checked by TLC before they were proved, `ClientIInv` with channels
of capacity up to 4 and three lists of files beside the instance of
`run_pipeline`.

## 6. Not modelled

* Contents and sizes of files, formatting, logging, session ids: no property
  depends on them. Of the 256 MiB limits only that on the outputs of a RunSync
  is modelled, which does not count stdout and stderr, as in the code.
* The chunk arithmetic of uploads and downloads (`build_upload_chunks`,
  `files.rs:29-63`, the clients' joining of chunks): sequential functions of
  one buffer.
* Time is a nondeterministic deadline. The product in `pipeline_timeout` may
  overflow for absurd defaults; the properties hold for any deadline.
* A pipeline's client that stops reading but stays: it stops the pipeline, in
  the model as in the code, where `RunEnds` and `PipelineEnds` assume otherwise.
* Descendants that go on writing to a directory after the process that was
  waited for is gone. `RunStream` and `RunSync` have them keep the pipes;
  `WorkspaceAccess` and `StepDirectory` assume that an executable changes files
  only until its outputs are detected.
* Temporary directories that a crash of the server leaves behind; nothing in
  the service reads them again.
* Errors of reading a pipe (`executor.rs:315`, `331`) and of waiting for the
  child (`executor.rs:293`) in `run_streaming`. The code goes on as if the pipe
  had ended, or the child had been signaled; `OutputFaithful` and
  `StatusTruthful` take such faults of the environment not to happen.
* A write that fails unseen. `UploadsPublishedWhole` takes `sync_all`
  (`workspace.rs:76`) to report every failed write of the upload; tokio's `File`
  may keep the error of its last buffered write for a later call.
* The last write to its temporary file that a failed or abandoned upload may
  have left on the blocking pool: `OnlyRunChangesWorkspace` follows the creating,
  renaming and removing of entries there, not this write.
* The listing of a directory is taken at one moment, where tokio reads it in
  batches of 32.
* Name validation and the allowlist are pure predicates; the start of the
  server only reads its configuration; drivers and scripts are not part of the
  service.

## 7. Plan

Written so far, in this order: `DependencyGraph`, `PipelineScheduler` with
`PipelineContract` and proofs, `ValidatePipeline` with proofs,
`WorkspaceAccess` with proofs, `RunStream` with `RunContract`, `RunPipeline`
with the step tasks and proofs, `StepDirectory` with proofs, `RunSync` with
proofs, the proofs of `RunStream` and of the client of `RunPipeline`.

1. What `RunPipeline` and `WorkspaceAccess` take from the inside of a run, as
   theorems: that the events `RunStream` sends are those of the executor of
   `RunPipeline`.
2. `ChunkedTransfer`: the chunk arithmetic of uploads and downloads and the
   clients' reassembly, as functions against the identity.
