-------------------------------- MODULE RunSync --------------------------------
(***************************************************************************)
(* One RunSync: RunnerService::run_sync, which holds the exec_lock for     *)
(* reading, and executor::run_buffered, which collects what the executable *)
(* writes to its two pipes.  The handler is one task without a channel: it *)
(* is dropped where it stands when its client leaves.                      *)
(*                                                                         *)
(* A pipe holds PipeCap chunks, and the executable waits when it is full.  *)
(* Of output files only the sizes are kept, of the chunks their number.    *)
(***************************************************************************)
EXTENDS Naturals, Sequences, FiniteSets

CONSTANTS
    PipeCap,     \* chunks a pipe of the operating system holds
    MaxResponse, \* max_response: what the outputs of an answer may add up to
    MaxWrites,   \* bound: chunks written to each pipe
    MaxFiles,    \* bound: output files
    MaxSize      \* bound: size of an output file

ASSUME SyncBounds ==
    /\ PipeCap \in Nat \ {0} /\ MaxResponse \in Nat
    /\ MaxWrites \in Nat /\ MaxFiles \in Nat /\ MaxSize \in Nat

VARIABLES
    call,     \* where run_sync is
    guard,    \* it holds the lock for reading
    proc,     \* the child process: unborn, running, exited or signaled
    open,     \* pipes that have a writer, the child or a descendant of it
    written,  \* pipe -> chunks written to it
    signals,  \* the signals sent to the child
    taken,    \* pipe -> chunks read from it
    eof,      \* pipes read to their end
    expired,  \* the deadline of run_buffered has passed
    verdict,  \* the result's status
    sizes,    \* output_files: the size of each
    total,    \* total_output_bytes
    at,       \* the output file that is read next
    answer    \* what the client is sent

process == <<proc, open, written, signals>>
reader  == <<taken, eof>>
result  == <<verdict, sizes, total, at>>
vars == <<call, guard, process, reader, expired, result, answer>>

Streams  == {"stdout", "stderr"}
Ended    == {"exited", "signaled"}
Over     == {"answered", "dropped"}
Executes == {"reading", "reaping", "terminating", "killing"}

NoAnswer == [kind |-> "none"]
Error(code) == [kind |-> "error", code |-> code]
Response(status, chunks, files) ==
    [kind |-> "response", status |-> status, chunks |-> chunks, files |-> files]
NoOutput == [s \in Streams |-> 0]

Init ==
    /\ call = "arrived" /\ guard = FALSE
    /\ proc = "unborn" /\ open = {} /\ written = NoOutput /\ signals = {}
    /\ taken = NoOutput /\ eof = {}
    /\ expired = FALSE
    /\ verdict = "none" /\ sizes = <<>> /\ total = 0 /\ at = 1
    /\ answer = NoAnswer

Goto(next) == call' = next

-----------------------------------------------------------------------------
(* The process.  It may hang, ignore SIGTERM, or leave descendants that    *)
(* keep its ends of the pipes.                                             *)

Full(s) == written[s] - taken[s] >= PipeCap

(* While run_buffered has the pipes: it keeps them when the time is up. *)
Write(s) ==
    /\ s \in open /\ ~Full(s) /\ written[s] < MaxWrites
    /\ call \in Executes
    /\ written' = [written EXCEPT ![s] = written[s] + 1]
    /\ UNCHANGED <<call, guard, proc, open, signals, reader, expired, result, answer>>

ClosePipe(s) ==
    /\ s \in open
    /\ open' = open \ {s}
    /\ UNCHANGED <<call, guard, proc, written, signals, reader, expired, result, answer>>

Dies(how) ==
    /\ proc = "running"
    /\ proc' = how
    /\ open' \in SUBSET open
    /\ UNCHANGED <<call, guard, written, signals, reader, expired, result, answer>>

Exit   == \E how \in Ended : Dies(how)
Killed == "KILL" \in signals /\ Dies("signaled")

DeadlinePasses ==
    /\ call \in {"reading", "reaping"} /\ ~expired
    /\ expired' = TRUE
    /\ UNCHANGED <<call, guard, process, reader, result, answer>>

-----------------------------------------------------------------------------
(* run_sync, to the executable *)

(* The handler's locals are dropped, the child first, the guard last. *)
Drop(sent) ==
    /\ signals' = signals \cup {sig \in sent : proc = "running"}
    /\ guard' = FALSE
    /\ UNCHANGED <<proc, open, written, reader, expired, result>>

Answer(a) ==
    /\ Goto("answered")
    /\ answer' = a
    /\ Drop({"KILL"})

(* An unknown model, an invalid name; no temporary directory, the copying, *)
(* the snapshot, the spawn, the wait or the listing of outputs fails.      *)
Refuse == call = "arrived" /\ Answer(Error("invalid"))
Fails  == call \in {"populating", "spawning", "reaping", "detecting"} /\ Answer(Error("internal"))

Accept ==
    /\ call = "arrived"
    /\ Goto("waiting")
    /\ UNCHANGED <<guard, process, reader, expired, result, answer>>

Admitted ==
    /\ call = "waiting"
    /\ Goto("populating")
    /\ guard' = TRUE
    /\ UNCHANGED <<process, reader, expired, result, answer>>

Populated ==
    /\ call = "populating"
    /\ Goto("spawning")
    /\ UNCHANGED <<guard, process, reader, expired, result, answer>>

Spawn ==
    /\ call = "spawning"
    /\ Goto("reading")
    /\ proc' = "running" /\ open' = Streams
    /\ UNCHANGED <<guard, written, signals, reader, expired, result, answer>>

-----------------------------------------------------------------------------
(* run_buffered *)

(* Slip: one pipe is read to its end before the other. *)
ReadInOrder(s) ==
    /\ call = "reading" /\ taken[s] < written[s]
    /\ s = "stdout" \/ "stdout" \in eof
    /\ taken' = [taken EXCEPT ![s] = taken[s] + 1]
    /\ UNCHANGED <<call, guard, process, eof, expired, result, answer>>

Read(s) ==
    /\ call = "reading" /\ taken[s] < written[s]
    /\ taken' = [taken EXCEPT ![s] = taken[s] + 1]
    /\ UNCHANGED <<call, guard, process, eof, expired, result, answer>>

AtEnd(s) == call = "reading" /\ s \notin eof \cup open /\ taken[s] = written[s]

(* Slip: the reads race instead of being joined. *)
ReadEofOfFirst(s) ==
    /\ AtEnd(s)
    /\ eof' = eof \cup {s}
    /\ Goto("reaping")
    /\ UNCHANGED <<guard, process, taken, expired, result, answer>>

ReadEof(s) ==
    /\ AtEnd(s)
    /\ eof' = eof \cup {s}
    /\ Goto(IF eof' = Streams THEN "reaping" ELSE "reading")
    /\ UNCHANGED <<guard, process, taken, expired, result, answer>>

Verdict(status) ==
    /\ verdict' = status
    /\ Goto("detecting")
    /\ UNCHANGED <<guard, process, reader, expired, sizes, total, at, answer>>

Reap ==
    /\ call = "reaping" /\ proc \in Ended
    /\ Verdict(IF proc = "exited" THEN "completed" ELSE "signaled")

Signal(sig, next) ==
    /\ signals' = signals \cup {x \in {sig} : proc = "running"}
    /\ Goto(next)
    /\ UNCHANGED <<guard, proc, open, written, reader, expired, result, answer>>

TimeIsUp == call \in {"reading", "reaping"} /\ expired /\ Signal("TERM", "terminating")

(* Five seconds after SIGTERM. *)
Kills == call = "terminating" /\ Signal("KILL", "killing")

Terminated == call \in {"terminating", "killing"} /\ proc \in Ended /\ Verdict("timed_out")

Detect ==
    /\ call = "detecting"
    /\ sizes' \in UNION {[1 .. n -> 0 .. MaxSize] : n \in 0 .. MaxFiles}
    /\ Goto("collecting")
    /\ UNCHANGED <<guard, process, reader, expired, verdict, total, at, answer>>

-----------------------------------------------------------------------------
(* run_sync, from the result to the answer *)

FileRead ==
    /\ call = "collecting" /\ at <= Len(sizes)
    /\ total' = total + sizes[at]
    /\ at' = at + 1
    /\ UNCHANGED <<call, guard, process, reader, expired, verdict, sizes, answer>>

(* Slip: a single file is looked at instead of the sum. *)
ReadOutputBySize == FileRead /\ sizes[at] <= MaxResponse

ReadOutput == FileRead /\ total' <= MaxResponse

TooLarge ==
    /\ call = "collecting" /\ at <= Len(sizes)
    /\ total + sizes[at] > MaxResponse
    /\ Answer(Error("out_of_range"))

(* The file is gone or unreadable, whatever its size. *)
ReadOutputFails ==
    /\ call = "collecting" /\ at <= Len(sizes)
    /\ Answer(Error("internal"))

Respond ==
    /\ call = "collecting" /\ at > Len(sizes)
    /\ Answer(Response(verdict, IF verdict = "timed_out" THEN NoOutput ELSE taken, at - 1))

(* Slip: a child that is not killed with its handle. *)
ClientLeavesItRunning ==
    /\ call \notin Over
    /\ Goto("dropped")
    /\ Drop({})
    /\ UNCHANGED answer

ClientLeaves ==
    /\ call \notin Over
    /\ Goto("dropped")
    /\ Drop({"KILL"})
    /\ UNCHANGED answer

-----------------------------------------------------------------------------
Process == Exit \/ \E s \in Streams : Write(s) \/ ClosePipe(s)

Executor ==
    \/ Spawn \/ Reap \/ TimeIsUp \/ Kills \/ Terminated \/ Detect
    \/ \E s \in Streams : Read(s) \/ ReadEof(s)

Handler ==
    \/ Refuse \/ Accept \/ Populated \/ Fails
    \/ ReadOutput \/ TooLarge \/ ReadOutputFails \/ Respond

Done == call \in Over /\ UNCHANGED vars

Next ==
    \/ Process \/ Killed \/ DeadlinePasses \/ Executor \/ Handler
    \/ Admitted \/ ClientLeaves \/ Done

Spec == Init /\ [][Next]_vars

(* The runtime polls the task, and SIGKILL works.  Nothing is assumed of   *)
(* the executable, its deadline, the lock or the client.                   *)
FairSpec == Spec /\ WF_vars(Executor) /\ WF_vars(Handler) /\ WF_vars(Killed)

-----------------------------------------------------------------------------
(* Properties *)

TypeOK ==
    /\ call \in {"arrived", "waiting", "populating", "spawning", "detecting", "collecting"}
                    \cup Executes \cup Over
    /\ guard \in BOOLEAN /\ (guard <=> call \notin {"arrived", "waiting"} \cup Over)
    /\ proc \in {"unborn", "running"} \cup Ended
    /\ open \subseteq Streams /\ eof \subseteq Streams /\ signals \subseteq {"TERM", "KILL"}
    /\ \A s \in Streams :
          taken[s] <= written[s] /\ written[s] <= taken[s] + PipeCap /\ written[s] <= MaxWrites
    /\ expired \in BOOLEAN
    /\ verdict \in {"none", "completed", "signaled", "timed_out"}
    /\ total <= MaxResponse /\ at \in 1 .. Len(sizes) + 1

(* A response tells how the process ended, and it has ended; it has all    *)
(* that was written to both pipes, unless the time was up; and it has all  *)
(* the output files.                                                       *)
ResponseTruthful ==
    answer.kind = "response" =>
        /\ answer.files = Len(sizes)
        /\ \/ /\ answer.status = (IF proc = "exited" THEN "completed" ELSE "signaled")
              /\ proc \in Ended /\ signals = {} /\ answer.chunks = written
           \/ /\ answer.status = "timed_out" /\ expired /\ proc \in Ended
              /\ answer.chunks = NoOutput

(* A pipe that is full is drained, whatever the other one does: the        *)
(* executable never waits for run_buffered while that waits for it.        *)
FullPipeDrained ==
    \A s \in Streams : (call = "reading" /\ Full(s)) ~> (~Full(s) \/ call # "reading")

(* Once its time is up, or its client has left, the guard is released and  *)
(* the process gone, whatever the executable does.                         *)
EndsOnceUnwanted ==
    (expired \/ call = "dropped") ~> (~guard /\ proc # "running")
================================================================================
