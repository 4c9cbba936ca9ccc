----------------------------- MODULE RunSyncProofs -----------------------------
(***************************************************************************)
(* Proofs about RunSync, for pipes of any capacity, any limit of the       *)
(* response and any number of chunks and files.                            *)
(***************************************************************************)
EXTENDS RunSync, TLAPS

Before    == {"arrived", "waiting", "populating", "spawning"}
Judged    == {"detecting", "collecting"}

(* What TypeOK leaves open. *)
Typed ==
    /\ written \in [Streams -> Nat] /\ taken \in [Streams -> Nat]
    /\ sizes \in Seq(Nat) /\ total \in Nat /\ at \in Nat

(* The verdict is that of a process which has ended that way, and unless   *)
(* the time was up both pipes have been read to their ends.                *)
VerdictHolds ==
    /\ proc \in Ended
    /\ \/ /\ verdict = (IF proc = "exited" THEN "completed" ELSE "signaled")
          /\ signals = {} /\ eof = Streams
       \/ verdict = "timed_out" /\ expired

(* How the handler, the process and the pipes go together. *)
Stages ==
    /\ call \in Before => proc = "unborn" /\ open = {} /\ eof = {}
    /\ call \in {"reading", "reaping"} \cup Before => signals = {}
    /\ call = "reaping" => eof = Streams
    /\ \A s \in eof : s \notin open /\ taken[s] = written[s]
    /\ call \in {"terminating", "killing"} => expired
    /\ call \in Judged => VerdictHolds
    /\ call \in Before \cup Executes \cup {"detecting"} => at = 1
    /\ answer.kind = "response" => call = "answered"

SyncInv == TypeOK /\ Typed /\ Stages /\ ResponseTruthful

USE SyncBounds

LEMMA SyncInit == Init => SyncInv
<1> SUFFICES ASSUME Init PROVE SyncInv
  OBVIOUS
<1> USE DEF Init
<1>1. written \in [Streams -> Nat] /\ taken \in [Streams -> Nat]
  BY DEF NoOutput
<1>2. sizes \in Seq(Nat) /\ Len(sizes) = 0
  OBVIOUS
<1>3. \A s \in Streams : taken[s] = 0 /\ written[s] = 0
  BY DEF NoOutput
<1>4. guard \in BOOLEAN /\ (guard <=> call \notin {"arrived", "waiting"} \cup Over)
  BY DEF Over
<1>5. TypeOK
  <2>1. call \in {"arrived", "waiting", "populating", "spawning", "detecting", "collecting"}
                   \cup Executes \cup Over
    OBVIOUS
  <2>2. proc \in {"unborn", "running"} \cup Ended
    OBVIOUS
  <2>3. open \subseteq Streams /\ eof \subseteq Streams /\ signals \subseteq {"TERM", "KILL"}
    OBVIOUS
  <2>4. \A s \in Streams :
          taken[s] <= written[s] /\ written[s] <= taken[s] + PipeCap /\ written[s] <= MaxWrites
    BY <1>3
  <2>5. total <= MaxResponse /\ at \in 1 .. Len(sizes) + 1
    BY <1>2
  <2> QED
    BY <1>4, <2>1, <2>2, <2>3, <2>4, <2>5 DEF TypeOK
<1>6. Typed
  BY <1>1, <1>2 DEF Typed
<1>7. Stages
  BY DEF Stages, Before, Judged, NoAnswer, Executes
<1>8. ResponseTruthful
  BY DEF ResponseTruthful, NoAnswer
<1> QED
  BY <1>5, <1>6, <1>7, <1>8 DEF SyncInv

-----------------------------------------------------------------------------
(* Every action *)

LEMMA ProcessKeeps ==
  ASSUME SyncInv, Process \/ Killed \/ DeadlinePasses
  PROVE  SyncInv'
<1> USE DEF SyncInv, TypeOK, Typed, Stages, ResponseTruthful, VerdictHolds, Before, Judged,
            Over, Executes, Ended, result, reader, process
<1>1. ASSUME NEW s \in Streams, Write(s) PROVE SyncInv'
  BY <1>1 DEF Write, Full
<1>2. ASSUME NEW s \in Streams, ClosePipe(s) PROVE SyncInv'
  BY <1>2 DEF ClosePipe
<1>3. ASSUME NEW how \in Ended, Dies(how) PROVE SyncInv'
  BY <1>3 DEF Dies
<1>4. CASE DeadlinePasses
  BY <1>4 DEF DeadlinePasses
<1> QED
  BY <1>1, <1>2, <1>3, <1>4 DEF Process, Exit, Killed

LEMMA ExecutorKeeps ==
  ASSUME SyncInv, Executor
  PROVE  SyncInv'
<1> USE DEF SyncInv, TypeOK, Typed, Stages, ResponseTruthful, VerdictHolds, Before, Judged,
            Over, Executes, Ended, Goto, result, reader, process
<1>1. CASE Spawn
  BY <1>1 DEF Spawn
<1>2. ASSUME NEW s \in Streams, Read(s) PROVE SyncInv'
  BY <1>2 DEF Read
<1>3. ASSUME NEW s \in Streams, ReadEof(s) PROVE SyncInv'
  BY <1>3 DEF ReadEof, AtEnd
<1>4. CASE Reap
  BY <1>4 DEF Reap, Verdict
<1>5. CASE TimeIsUp
  BY <1>5 DEF TimeIsUp, Signal
<1>6. CASE Kills
  BY <1>6 DEF Kills, Signal
<1>7. CASE Terminated
  BY <1>7 DEF Terminated, Verdict
<1>8. CASE Detect
  <2>1. sizes' \in Seq(Nat) /\ at = 1
    BY <1>8 DEF Detect
  <2> QED
    BY <1>8, <2>1 DEF Detect
<1> QED
  BY <1>1, <1>2, <1>3, <1>4, <1>5, <1>6, <1>7, <1>8 DEF Executor

LEMMA ErrorKeeps ==
  ASSUME SyncInv, call \notin Over, NEW code, Answer(Error(code))
  PROVE  SyncInv'
<1> USE DEF SyncInv, Answer, Error, Drop, Goto, result, reader
<1>1. answer'.kind = "error" /\ call' = "answered" /\ ~guard'
  OBVIOUS
<1>2. signals' \subseteq {"TERM", "KILL"}
  BY DEF TypeOK
<1>3. TypeOK'
  BY <1>1, <1>2 DEF TypeOK, Over
<1>4. Typed'
  BY DEF Typed
<1>5. Stages'
  BY <1>1 DEF Stages, Before, Judged, Executes
<1>6. ResponseTruthful'
  BY <1>1 DEF ResponseTruthful
<1> QED
  BY <1>3, <1>4, <1>5, <1>6

LEMMA HandlerKeeps ==
  ASSUME SyncInv, Handler \/ Admitted \/ ClientLeaves
  PROVE  SyncInv'
<1> USE DEF SyncInv, TypeOK, Typed, Stages, ResponseTruthful, VerdictHolds, Before, Judged,
            Over, Executes, Ended, Goto, result, reader, process
<1>1. CASE Refuse \/ Fails
  BY <1>1, ErrorKeeps DEF Refuse, Fails
<1>2. CASE Accept
  BY <1>2 DEF Accept
<1>3. CASE Admitted
  BY <1>3 DEF Admitted
<1>4. CASE Populated
  BY <1>4 DEF Populated
<1>5. CASE ReadOutput
  BY <1>5 DEF ReadOutput, FileRead
<1>6. CASE TooLarge \/ ReadOutputFails
  BY <1>6, ErrorKeeps DEF TooLarge, ReadOutputFails
<1>7. CASE Respond
  <2> USE <1>7 DEF Respond, Answer, Drop, Response
  <2>1. proc # "running" /\ signals' = signals
    OBVIOUS
  <2>2. TypeOK' /\ Typed' /\ Stages'
    BY <2>1
  <2>3. /\ answer'.status = verdict
        /\ answer'.chunks = (IF verdict = "timed_out" THEN NoOutput ELSE taken)
        /\ answer'.files = Len(sizes)
    OBVIOUS
  <2>4. CASE verdict = "timed_out"
    BY <2>1, <2>3, <2>4
  <2>5. CASE verdict # "timed_out"
    <3>1. taken = written
      BY <2>5
    <3> QED
      BY <2>1, <2>3, <2>5, <3>1
  <2> QED
    BY <2>2, <2>4, <2>5
<1>8. CASE ClientLeaves
  BY <1>8 DEF ClientLeaves, Drop
<1> QED
  BY <1>1, <1>2, <1>3, <1>4, <1>5, <1>6, <1>7, <1>8 DEF Handler

-----------------------------------------------------------------------------
(* The whole specification *)

(* What the handler, the executable and the two pipes keep to, whatever    *)
(* the client and the deadline do.                                         *)
THEOREM SyncInvariant == Spec => []SyncInv
<1>1. SyncInv /\ [Next]_vars => SyncInv'
  <2> SUFFICES ASSUME SyncInv, [Next]_vars PROVE SyncInv'
    OBVIOUS
  <2>1. CASE UNCHANGED vars
    BY <2>1 DEF vars, SyncInv, TypeOK, Typed, Stages, ResponseTruthful, VerdictHolds,
                process, reader, result
  <2> QED
    BY <2>1, ProcessKeeps, ExecutorKeeps, HandlerKeeps DEF Next, Done
<1> QED
  BY SyncInit, <1>1, PTL DEF Spec

(* A RunSync's state is well typed for any pipes and limits: no pipe holds *)
(* more than its capacity, and no answer more than the limit.              *)
THEOREM SyncTypes == Spec => []TypeOK
<1>1. SyncInv => TypeOK
  BY DEF SyncInv
<1> QED
  BY SyncInvariant, <1>1, PTL

(* The response of a RunSync tells how its process ended, and has all of   *)
(* what it wrote.                                                          *)
THEOREM ResponsesAreTruthful == Spec => []ResponseTruthful
<1>1. SyncInv => ResponseTruthful
  BY DEF SyncInv
<1> QED
  BY SyncInvariant, <1>1, PTL
==============================================================================
