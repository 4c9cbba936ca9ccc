------------------------------- MODULE RunStream -------------------------------
(***************************************************************************)
(* One Run, from the executable to the client: the process and its two     *)
(* pipes; executor::run_streaming, which reads them and waits for the      *)
(* process; the task of RunnerService::run, which holds the exec_lock,     *)
(* forwards the events and streams the output files; and the client that   *)
(* puts the stream together (client/rust/src/session.rs, run_with_timeout; *)
(* the Python client does the same).  Each is sequential, and they are     *)
(* joined by two bounded channels.                                         *)
(*                                                                         *)
(* A chunk is what one read returns: chunk n of a pipe is the number n.    *)
(* The data of a file is its list of chunks.                               *)
(***************************************************************************)
EXTENDS Naturals, Sequences, FiniteSets

CONSTANTS
    EventCap,     \* capacity of the channel from the executor (32)
    OutCap,       \* capacity of the channel to the client (32)
    MaxWrites,    \* bound: chunks written to each pipe
    MaxFiles,     \* bound: output files
    MaxChunks     \* bound: chunks in a file

ASSUME Capacities == EventCap \in Nat \ {0} /\ OutCap \in Nat \ {0}
ASSUME Bounds == MaxWrites \in Nat /\ MaxFiles \in Nat /\ MaxChunks \in Nat

VARIABLES
    proc,       \* the child process: unborn, running, exited or signaled
    open,       \* pipes that have a writer, the child or a descendant of it
    written,    \* pipe -> chunks written to it
    termed,     \* the child was sent SIGTERM
    expired,    \* the deadline of run_streaming has passed
    exec,       \* where run_streaming is
    taken,      \* pipe -> chunks read from it
    eof,        \* stdout_done, stderr_done
    outgoing,   \* the event run_streaming is sending
    events,     \* event_tx / event_rx
    run,        \* where the task of Run is
    forwarded,  \* the event it forwards
    sizes,      \* output_files: the chunks each of them has
    at,         \* <<file, chunk>> that it streams next
    broken,     \* history: files whose streaming failed
    out,        \* out_tx / out_rx
    client,     \* reading, gone or done
    result      \* what the client has put together

process  == <<proc, open, written, termed>>
executor == <<exec, taken, eof, outgoing>>
task     == <<run, forwarded, at, broken>>
caller   == <<client, result>>
vars == <<process, expired, executor, events, task, sizes, out, caller>>

Streams == {"stdout", "stderr"}
Ended   == {"exited", "signaled"}

Output(s, n)        == [kind |-> "output", stream |-> s, chunk |-> n]
Completed(status)   == [kind |-> "completed", status |-> status]
FileChunk(name, data) == [kind |-> "file", name |-> name, data |-> data]
Started == [kind |-> "started"]
Nothing == [kind |-> "nothing"]
NoName  == 0    \* later chunks of a file leave its name empty

Init ==
    /\ proc = "unborn" /\ open = {} /\ termed = FALSE
    /\ written = [s \in Streams |-> 0]
    /\ expired = FALSE
    /\ exec = "unborn" /\ eof = {} /\ outgoing = Nothing
    /\ taken = [s \in Streams |-> 0]
    /\ events = <<>>
    /\ run = "starting" /\ forwarded = Nothing
    /\ sizes = <<>> /\ at = <<1, 1>> /\ broken = {}
    /\ out = <<>>
    /\ client = "reading"
    /\ result = [parts |-> [s \in Streams |-> <<>>], status |-> "unspecified",
                 files |-> [f \in {} |-> <<>>], current |-> NoName, data |-> <<>>,
                 phase |-> "none"]

-----------------------------------------------------------------------------
(* The process.  It may ignore SIGTERM, hang, or leave descendants that    *)
(* keep its ends of the pipes.                                             *)

Write(s) ==
    /\ s \in open /\ written[s] < MaxWrites
    /\ written' = [written EXCEPT ![s] = written[s] + 1]
    /\ UNCHANGED <<proc, open, termed, expired, executor, events, task, sizes, out, caller>>

ClosePipe(s) ==
    /\ s \in open
    /\ open' = open \ {s}
    /\ UNCHANGED <<proc, written, termed, expired, executor, events, task, sizes, out, caller>>

(* It ends by itself, or by a signal, with its pipes kept open or not. *)
Exit ==
    /\ proc = "running"
    /\ proc' \in Ended
    /\ open' \in SUBSET open
    /\ UNCHANGED <<written, termed, expired, executor, events, task, sizes, out, caller>>

DeadlinePasses ==
    /\ proc # "unborn" /\ ~expired
    /\ expired' = TRUE
    /\ UNCHANGED <<process, executor, events, task, sizes, out, caller>>

-----------------------------------------------------------------------------
(* run_streaming *)

(* The snapshot of the directory or the spawn fails: the error is logged. *)
SpawnFails ==
    /\ exec = "preparing"
    /\ exec' = "returned"
    /\ UNCHANGED <<process, expired, taken, eof, outgoing, events, task, sizes, out, caller>>

Spawn ==
    /\ exec = "preparing"
    /\ exec' = "selecting"
    /\ proc' = "running"
    /\ open' = Streams
    /\ UNCHANGED <<written, termed, expired, taken, eof, outgoing, events, task, sizes,
                   out, caller>>

Read(s) ==
    /\ exec = "selecting"
    /\ taken[s] < written[s]
    /\ taken' = [taken EXCEPT ![s] = taken[s] + 1]
    /\ outgoing' = Output(s, taken[s] + 1)
    /\ exec' = "sending"
    /\ UNCHANGED <<process, expired, eof, events, task, sizes, out, caller>>

(* Slip: the first end of file is taken for the end of the process. *)
ReadEofOfAny(s) ==
    /\ exec = "selecting"
    /\ s \notin eof \cup open /\ taken[s] = written[s]
    /\ eof' = eof \cup {s}
    /\ exec' = "reaping"
    /\ UNCHANGED <<process, expired, taken, outgoing, events, task, sizes, out, caller>>

ReadEof(s) ==
    /\ exec = "selecting"
    /\ s \notin eof \cup open /\ taken[s] = written[s]
    /\ eof' = eof \cup {s}
    /\ exec' = IF eof' = Streams THEN "reaping" ELSE "selecting"
    /\ UNCHANGED <<process, expired, taken, outgoing, events, task, sizes, out, caller>>

(* Slip: the channel has no bound. *)
SendOutputUnbounded ==
    /\ exec = "sending"
    /\ events' = Append(events, outgoing)
    /\ outgoing' = Nothing
    /\ exec' = "selecting"
    /\ UNCHANGED <<process, expired, taken, eof, task, sizes, out, caller>>

(* The send waits for room; the deadline is not looked at meanwhile. *)
SendOutput ==
    /\ exec = "sending" /\ Len(events) < EventCap
    /\ events' = Append(events, outgoing)
    /\ outgoing' = Nothing
    /\ exec' = "selecting"
    /\ UNCHANGED <<process, expired, taken, eof, task, sizes, out, caller>>

(* The deadline arm of the select, or of the wait for the process. *)
Terminate ==
    /\ exec \in {"selecting", "reaping"} /\ expired
    /\ exec' = "terminating"
    /\ termed' = (termed \/ proc = "running")
    /\ UNCHANGED <<proc, open, written, expired, taken, eof, outgoing, events, task,
                   sizes, out, caller>>

Verdict(status) ==
    /\ exec' = "detecting"
    /\ outgoing' = Completed(status)
    /\ UNCHANGED <<expired, taken, eof, events, task, sizes, out, caller>>

(* Both pipes are at their end and the process is waited for. *)
Reap ==
    /\ exec = "reaping" /\ proc \in Ended
    /\ Verdict(IF proc = "exited" THEN "completed" ELSE "signaled")
    /\ UNCHANGED process

(* Slip: the exit status of the terminated process is reported. *)
GraceDiesAsExit ==
    /\ exec = "terminating" /\ proc \in Ended
    /\ Verdict(IF proc = "exited" THEN "completed" ELSE "signaled")
    /\ UNCHANGED process

(* kill_with_grace: the process is gone within five seconds of SIGTERM... *)
GraceDies ==
    /\ exec = "terminating" /\ proc \in Ended
    /\ Verdict("timed_out")
    /\ UNCHANGED process

(* Two slips: giving up without SIGKILL, and waiting again. *)
GraceGivesUp ==
    /\ exec = "terminating" /\ proc = "running"
    /\ Verdict("timed_out")
    /\ UNCHANGED process

GraceWaitsOn ==
    /\ exec = "terminating" /\ proc = "running"
    /\ UNCHANGED vars

(* ... or it is sent SIGKILL and waited for. *)
GraceKills ==
    /\ exec = "terminating" /\ proc = "running"
    /\ proc' = "signaled"
    /\ open' \in SUBSET open
    /\ UNCHANGED <<written, termed>>
    /\ Verdict("timed_out")

(* detect_outputs fails: the verdict is lost with the error. *)
DetectFails ==
    /\ exec = "detecting"
    /\ exec' = "returned"
    /\ outgoing' = Nothing
    /\ UNCHANGED <<process, expired, taken, eof, events, task, sizes, out, caller>>

Detect ==
    /\ exec = "detecting"
    /\ exec' = "completing"
    /\ sizes' \in UNION {[1 .. n -> 0 .. MaxChunks] : n \in 0 .. MaxFiles}
    /\ UNCHANGED <<process, expired, taken, eof, outgoing, events, task, out, caller>>

(* Slip: what is left in the pipes is sent after the verdict. *)
SendCompletedAndDrain ==
    /\ exec = "completing" /\ Len(events) < EventCap
    /\ events' = Append(events, outgoing)
    /\ outgoing' = Nothing
    /\ exec' = IF eof = Streams THEN "returned" ELSE "selecting"
    /\ UNCHANGED <<process, expired, taken, eof, task, sizes, out, caller>>

SendCompleted ==
    /\ exec = "completing" /\ Len(events) < EventCap
    /\ events' = Append(events, outgoing)
    /\ outgoing' = Nothing
    /\ exec' = "returned"
    /\ UNCHANGED <<process, expired, taken, eof, task, sizes, out, caller>>

-----------------------------------------------------------------------------
(* The task of Run.  A send waits for room, or fails if the client left.   *)

ToClient(msg) ==
    \/ client = "gone" /\ UNCHANGED out
    \/ client # "gone" /\ Len(out) < OutCap /\ out' = Append(out, msg)

SendStarted ==
    /\ run = "starting"
    /\ ToClient(Started)
    /\ run' = "receiving"
    /\ exec' = "preparing"
    /\ UNCHANGED <<process, expired, taken, eof, outgoing, events, forwarded, at, broken,
                   sizes, caller>>

Receive ==
    /\ run = "receiving" /\ events # <<>>
    /\ forwarded' = Head(events)
    /\ events' = Tail(events)
    /\ run' = "forwarding"
    /\ UNCHANGED <<process, expired, executor, at, broken, sizes, out, caller>>

Forward ==
    /\ run = "forwarding"
    /\ ToClient(forwarded)
    /\ forwarded' = Nothing
    /\ run' = "receiving"
    /\ UNCHANGED <<process, expired, executor, events, at, broken, sizes, caller>>

(* run_streaming has returned and dropped its sender. *)
EventsClosed ==
    /\ run = "receiving" /\ events = <<>> /\ exec = "returned"
    /\ run' = "files"
    /\ UNCHANGED <<process, expired, executor, events, forwarded, at, broken, sizes, out,
                   caller>>

NextFile == at' = <<at[1] + 1, 1>>

(* An empty file is one empty chunk. *)
SendFileChunk ==
    /\ run = "files" /\ at[1] <= Len(sizes)
    /\ LET name == IF at[2] = 1 THEN at[1] ELSE NoName
           data == IF sizes[at[1]] = 0 THEN <<>> ELSE <<at>>
       IN  ToClient(FileChunk(name, data))
    /\ IF at[2] < sizes[at[1]] THEN at' = <<at[1], at[2] + 1>> ELSE NextFile
    /\ UNCHANGED <<process, expired, executor, events, run, forwarded, broken, sizes, caller>>

(* The file cannot be opened, or not be read to its end. *)
FileFails ==
    /\ run = "files" /\ at[1] <= Len(sizes)
    /\ broken' = broken \cup {at[1]}
    /\ NextFile
    /\ UNCHANGED <<process, expired, executor, events, run, forwarded, sizes, out, caller>>

(* The guard and out_tx are dropped. *)
Finish ==
    /\ run = "files" /\ at[1] > Len(sizes)
    /\ run' = "over"
    /\ UNCHANGED <<process, expired, executor, events, forwarded, at, broken, sizes, out,
                   caller>>

-----------------------------------------------------------------------------
(* The client *)

KeepFile(r) ==
    IF r.current = NoName THEN r.files
    ELSE [f \in DOMAIN r.files \cup {r.current} |->
             IF f = r.current THEN r.data ELSE r.files[f]]

(* Slip: the chunks of the file before are not cleared. *)
AssembledUncleared(r, msg) ==
    [CASE msg.kind = "output" ->
            [r EXCEPT !.parts[msg.stream] = Append(r.parts[msg.stream], msg.chunk)]
       [] msg.kind = "completed" -> [r EXCEPT !.status = msg.status]
       [] msg.kind = "file" /\ msg.name # NoName ->
            [r EXCEPT !.files = KeepFile(r), !.current = msg.name,
                      !.data = r.data \o msg.data]
       [] msg.kind = "file" /\ msg.name = NoName -> [r EXCEPT !.data = r.data \o msg.data]
       [] OTHER -> r
     EXCEPT !.phase = msg.kind]

Assembled(r, msg) ==
    [CASE msg.kind = "output" ->
            [r EXCEPT !.parts[msg.stream] = Append(r.parts[msg.stream], msg.chunk)]
       [] msg.kind = "completed" -> [r EXCEPT !.status = msg.status]
       [] msg.kind = "file" /\ msg.name # NoName ->
            [r EXCEPT !.files = KeepFile(r), !.current = msg.name, !.data = msg.data]
       [] msg.kind = "file" /\ msg.name = NoName -> [r EXCEPT !.data = r.data \o msg.data]
       [] OTHER -> r
     EXCEPT !.phase = msg.kind]

Take ==
    /\ client = "reading" /\ out # <<>>
    /\ result' = Assembled(result, Head(out))
    /\ out' = Tail(out)
    /\ UNCHANGED <<process, expired, executor, events, task, sizes, client>>

Return ==
    /\ client = "reading" /\ out = <<>> /\ run = "over"
    /\ result' = [result EXCEPT !.files = KeepFile(result)]
    /\ client' = "done"
    /\ UNCHANGED <<process, expired, executor, events, task, sizes, out>>

Leave ==
    /\ client = "reading"
    /\ client' = "gone"
    /\ out' = <<>>
    /\ UNCHANGED <<process, expired, executor, events, task, sizes, result>>

-----------------------------------------------------------------------------
Process == Exit \/ \E s \in Streams : Write(s) \/ ClosePipe(s)

Executor ==
    \/ SpawnFails \/ Spawn \/ SendOutput \/ Terminate \/ Reap
    \/ (\E s \in Streams : Read(s) \/ ReadEof(s))
    \/ GraceDies \/ GraceKills \/ DetectFails \/ Detect \/ SendCompleted

RunTask ==
    \/ SendStarted \/ Receive \/ Forward \/ EventsClosed
    \/ SendFileChunk \/ FileFails \/ Finish

Client == Take \/ Return \/ Leave

Over == run = "over" /\ client # "reading" /\ UNCHANGED vars

Next == Process \/ DeadlinePasses \/ Executor \/ RunTask \/ Client \/ Over

Spec == Init /\ [][Next]_vars

(* The runtime polls the two tasks, and time passes.  Nothing is assumed   *)
(* of the process.                                                         *)
ServerFairness == WF_vars(DeadlinePasses) /\ WF_vars(Executor) /\ WF_vars(RunTask)

ServerSpec == Spec /\ ServerFairness

(* The client goes on reading, or leaves. *)
FairSpec == ServerSpec /\ WF_vars(Client)

-----------------------------------------------------------------------------
(* Properties *)

Statuses == {"completed", "signaled", "timed_out"}
Events == {Nothing} \cup {Output(s, n) : s \in Streams, n \in 1 .. MaxWrites}
            \cup {Completed(v) : v \in Statuses}

TypeOK ==
    /\ proc \in {"unborn", "running"} \cup Ended
    /\ open \subseteq Streams /\ eof \subseteq Streams
    /\ \A s \in Streams : taken[s] <= written[s] /\ written[s] <= MaxWrites
    /\ exec \in {"unborn", "preparing", "selecting", "sending", "reaping",
                 "terminating", "detecting", "completing", "returned"}
    /\ outgoing # Nothing <=> exec \in {"sending", "detecting", "completing"}
    /\ {outgoing, forwarded} \subseteq Events
    /\ \A i \in DOMAIN events : events[i] \in Events
    /\ Len(events) <= EventCap /\ Len(out) <= OutCap
    /\ run \in {"starting", "receiving", "forwarding", "files", "over"}
    /\ client \in {"reading", "gone", "done"}
    /\ DOMAIN result.files \subseteq 1 .. Len(sizes)

(* The client gets what the process wrote, nothing lost, doubled or        *)
(* reordered within a stream; and all of it, when it is told that the      *)
(* process ended by itself.                                                *)
OutputFaithful ==
    \A s \in Streams :
        /\ \A i \in DOMAIN result.parts[s] : result.parts[s][i] = i
        /\ Len(result.parts[s]) <= written[s]
        /\ result.status \in {"completed", "signaled"} =>
               Len(result.parts[s]) = written[s]

(* The status the client sees is how the process ended: "completed" only   *)
(* of one that exited without having been terminated, "timed_out" only     *)
(* after the deadline, and never of one that is still running.             *)
StatusTruthful ==
    /\ result.status = "completed" => proc = "exited" /\ ~termed
    /\ result.status = "signaled" => proc = "signaled" /\ ~termed
    /\ result.status = "timed_out" => proc \in Ended /\ expired

(* The exec_lock is not released before the process it protects is gone,   *)
(* whatever the client does.                                               *)
LockOutlivesProcess == run = "over" => proc # "running"

Whole(f) == [k \in 1 .. sizes[f] |-> <<f, k>>]

(* The client ends up with every output file, each with its own chunks in  *)
(* order, except those whose streaming failed.                             *)
FilesWhole ==
    client = "done" /\ result.status # "unspecified" =>
        \A f \in 1 .. Len(sizes) \ broken :
            f \in DOMAIN result.files /\ result.files[f] = Whole(f)

(* A Run comes to its end, and gives the lock back, if its client reads or *)
(* leaves: whatever the process does.                                      *)
RunEnds == <>(run = "over")

Contract == INSTANCE RunContract WITH phase <- result.phase, status <- result.status

(* The client sees the four phases of the protocol in their order.         *)
KeepsRunContract == Contract!Spec

-----------------------------------------------------------------------------
(* What comments and documents say *)

(* "Use an absolute deadline so busy output can't starve the timeout": a   *)
(* process that runs beyond the deadline is ended.                         *)
DeadlineEndsProcess == (expired /\ proc = "running") ~> proc # "running"

(* The stream has its four phases: a client that reads it to the end       *)
(* learns how the executable ended.                                        *)
EveryRunCompletes == client = "done" => result.status # "unspecified"
==============================================================================
