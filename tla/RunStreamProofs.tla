---------------------------- MODULE RunStreamProofs ----------------------------
(***************************************************************************)
(* Proofs about RunStream, for channels of any capacity, any amount of     *)
(* output and any number of files: what is on its way from run_streaming   *)
(* to the client continues what the client has.                            *)
(***************************************************************************)
EXTENDS RunStream, SequenceTheorems, TLAPS

Chunks   == Nat \X Nat
Messages ==
    {Started} \cup {Output(s, n) : s \in Streams, n \in Nat}
    \cup {Completed(v) : v \in Statuses}
    \cup {FileChunk(name, data) : name \in Nat, data \in Seq(Chunks)}

Results ==
    [parts : [Streams -> Seq(Nat)], status : Statuses \cup {"unspecified"},
     files : UNION {[S -> Seq(Chunks)] : S \in SUBSET Nat}, current : Nat,
     data : Seq(Chunks), phase : {"none", "started", "output", "completed", "file"}]

(* What TypeOK leaves open. *)
Typed ==
    /\ written \in [Streams -> Nat] /\ taken \in [Streams -> Nat]
    /\ termed \in BOOLEAN /\ expired \in BOOLEAN
    /\ out \in Seq(Messages) /\ events \in Seq(Messages)
    /\ sizes \in Seq(Nat) /\ at \in (Nat \ {0}) \X (Nat \ {0}) /\ broken \subseteq Nat
    /\ result \in Results

-----------------------------------------------------------------------------
(* How the process, run_streaming and the task of Run go together *)

AtWork    == {"selecting", "sending", "reaping", "terminating", "detecting", "completing"}
Judging   == {"detecting", "completing"}
Forwarding == {"starting", "receiving", "forwarding"}

Ties ==
    /\ run = "starting" <=> exec = "unborn"
    /\ run = "starting" => events = <<>>
    /\ exec \in {"unborn", "preparing"} => proc = "unborn" /\ open = {} /\ eof = {} /\ ~termed
    /\ exec \in AtWork => proc # "unborn"
    /\ exec \in Judging \cup {"returned"} => proc # "running"
    /\ termed => exec \in {"terminating", "returned"} \cup Judging
    /\ exec = "terminating" => expired
    /\ exec = "reaping" => eof = Streams
    /\ \A s \in eof : s \notin open /\ taken[s] = written[s]
    /\ forwarded # Nothing <=> run = "forwarding"
    /\ run \notin Forwarding => exec = "returned" /\ events = <<>>
    /\ run = "over" => at[1] > Len(sizes)
    /\ exec \notin {"completing", "returned"} => sizes = <<>>
    /\ run \in Forwarding => at = <<1, 1>> /\ broken = {}
    /\ at[2] # 1 => at[1] \in 1 .. Len(sizes) /\ at[2] <= sizes[at[1]]

(* A verdict that has been reached is true, and stays true. *)
True(v) ==
    /\ v = "completed" => proc = "exited" /\ ~termed /\ eof = Streams
    /\ v = "signaled" => proc = "signaled" /\ ~termed /\ eof = Streams
    /\ v = "timed_out" => proc \in Ended /\ expired

Reached(v) == exec = "returned" /\ True(v)

Outgoing ==
    /\ exec = "sending" => outgoing.kind = "output" /\ outgoing.chunk = taken[outgoing.stream]
    /\ exec \in Judging => outgoing.kind = "completed" /\ True(outgoing.status)

-----------------------------------------------------------------------------
(* What is on its way to a client that reads *)

Pending == IF run = "forwarding" THEN <<forwarded>> ELSE <<>>
Queue   == out \o (Pending \o events)

(* The place in the files of the chunk a message brings. *)
Spot(m) == IF m.kind # "file" THEN <<0, 0>>
           ELSE IF m.name # NoName THEN <<m.name, 1>> ELSE m.data[1]

(* A file's chunk has the name and the data that its place asks for. *)
ChunkGood(m) ==
    LET w == Spot(m)
    IN  /\ w \in Chunks /\ w[1] \in 1 .. Len(sizes) /\ w[2] # 0
        /\ w[2] = 1 \/ w[2] <= sizes[w[1]]
        /\ m.name = (IF w[2] = 1 THEN w[1] ELSE NoName)
        /\ m.data = (IF sizes[w[1]] = 0 THEN <<>> ELSE <<w>>)

Sound(m) ==
    /\ m.kind = "completed" => Reached(m.status)
    /\ m.kind = "file" => run \notin Forwarding /\ ChunkGood(m)

InQueue       == {Queue[i] : i \in 1 .. Len(Queue)}
MessagesSound == client = "reading" => \A m \in InQueue : Sound(m)

(* The output in a queue is what was sent after what the client has, in    *)
(* the order of each stream, and before any verdict or file.               *)
IsOutput(m, s, n) == m.kind = "output" /\ m.stream = s /\ m.chunk = n

Numbered(q, have, sent) ==
    /\ \A i \in 1 .. Len(q) : q[i].kind = "output" =>
          /\ have[q[i].stream] < q[i].chunk /\ q[i].chunk <= sent[q[i].stream]
          /\ \A j \in 1 .. i - 1 :
                /\ q[j].kind \in {"started", "output"}
                /\ q[j].kind = "output" /\ q[j].stream = q[i].stream => q[j].chunk < q[i].chunk
    /\ \A s \in Streams : \A n \in have[s] + 1 .. sent[s] :
          \E i \in 1 .. Len(q) : IsOutput(q[i], s, n)

Have == [s \in Streams |-> Len(result.parts[s])]
Sent == [s \in Streams |->
            IF exec = "sending" /\ outgoing.stream = s THEN taken[s] - 1 ELSE taken[s]]

OutputsQueued ==
    client = "reading" => Numbered(Queue, Have, Sent) /\ \A s \in Streams : Have[s] <= Sent[s]

PartsInOrder ==
    \A s \in Streams :
        /\ \A i \in DOMAIN result.parts[s] : result.parts[s][i] = i
        /\ Len(result.parts[s]) <= taken[s]
        /\ result.status \in {"completed", "signaled"} => Len(result.parts[s]) = taken[s]

(* The phase of a message may follow that of the one before it, and the    *)
(* chunk it brings follows the chunk before it: it is the next one of its  *)
(* file, or the first of the next file that is not lost.                   *)
Goes(p, q) ==
    \/ p = "none" /\ q = "started"
    \/ p \in {"started", "output"} /\ q \in {"output", "completed"}
    \/ p \in {"completed", "file"} /\ q = "file"

Leads(v, w, lost, size) ==
    \/ w[1] = v[1] /\ w[2] = v[2] + 1
    \/ /\ w[1] > v[1] /\ w[2] = 1
       /\ v[1] = 0 \/ v[1] \in lost \/ v[2] >= size[v[1]]
       /\ \A f \in v[1] + 1 .. w[1] - 1 : f \in lost

(* A queue continues from phase p and place v. *)
PhaseAt(q, p, i) == IF i = 0 THEN p ELSE q[i].kind
SpotAt(q, v, i)  == IF i = 0 THEN v ELSE Spot(q[i])

Chained(q, p, v, lost, size) ==
    \A i \in 1 .. Len(q) :
        /\ Goes(PhaseAt(q, p, i - 1), q[i].kind)
        /\ q[i].kind = "file" => Leads(SpotAt(q, v, i - 1), Spot(q[i]), lost, size)

(* The last chunk the client has. *)
ClientSpot == IF result.current = NoName THEN <<0, 0>>
              ELSE <<result.current, IF result.data = <<>> THEN 1 ELSE Len(result.data)>>

LastPhase(p) ==
    /\ run = "starting" => p = "none"
    /\ exec \notin {"unborn", "returned"} => p \in {"started", "output"}
    /\ exec = "returned" /\ sizes # <<>> => p \in {"completed", "file"}

Trail ==
    client = "reading" =>
        /\ Chained(Queue, result.phase, ClientSpot, broken, sizes)
        /\ LastPhase(PhaseAt(Queue, result.phase, Len(Queue)))
        /\ Leads(SpotAt(Queue, ClientSpot, Len(Queue)), at, broken, sizes)

-----------------------------------------------------------------------------
(* What the client has *)

VerdictTrue == result.status # "unspecified" => Reached(result.status)

Prefix(f, n) == [k \in 1 .. n |-> <<f, k>>]
Kept(f)      == f \in DOMAIN result.files /\ result.files[f] = Whole(f)

FilesKept ==
    /\ run \in Forwarding => result.current = NoName
    /\ result.current \in 0 .. Len(sizes)
    /\ result.phase # "file" => result.current = NoName
    /\ result.current = NoName => DOMAIN result.files = {} /\ result.data = <<>>
    /\ \A f \in 1 .. Len(sizes) : f < result.current /\ f \notin broken => Kept(f)
    /\ result.current # NoName =>
          /\ result.data = Prefix(result.current, Len(result.data))
          /\ Len(result.data) <= sizes[result.current]
          /\ result.data = <<>> => sizes[result.current] = 0

Arrived ==
    client = "done" => run = "over" /\ \A f \in 1 .. Len(sizes) \ broken : Kept(f)

StreamInv ==
    /\ TypeOK /\ Typed /\ Ties /\ Outgoing
    /\ MessagesSound /\ OutputsQueued /\ Trail
    /\ VerdictTrue /\ PartsInOrder /\ FilesKept /\ Arrived

-----------------------------------------------------------------------------
(* Messages and results *)

LEMMA OutputKind ==
  ASSUME NEW s, NEW n
  PROVE  Output(s, n).kind = "output" /\ Output(s, n).stream = s /\ Output(s, n).chunk = n
BY DEF Output

LEMMA CompletedKind ==
  ASSUME NEW v
  PROVE  Completed(v).kind = "completed" /\ Completed(v).status = v
BY DEF Completed

LEMMA ChunkKind ==
  ASSUME NEW name, NEW data
  PROVE  /\ FileChunk(name, data).kind = "file"
         /\ FileChunk(name, data).name = name /\ FileChunk(name, data).data = data
BY DEF FileChunk

LEMMA MessageKinds ==
  ASSUME NEW m \in Messages
  PROVE  /\ m.kind \in {"started", "output", "completed", "file"}
         /\ m.kind = "output" => m.stream \in Streams /\ m.chunk \in Nat
         /\ m.kind = "completed" => m.status \in Statuses
         /\ m.kind = "file" => m.name \in Nat /\ m.data \in Seq(Chunks)
<1>1. CASE m = Started
  BY <1>1 DEF Started
<1>2. ASSUME NEW s \in Streams, NEW n \in Nat, m = Output(s, n) PROVE m.kind = "output" /\ m.stream \in Streams /\ m.chunk \in Nat
  BY <1>2, OutputKind
<1>3. ASSUME NEW v \in Statuses, m = Completed(v) PROVE m.kind = "completed" /\ m.status \in Statuses
  BY <1>3, CompletedKind
<1>4. ASSUME NEW name \in Nat, NEW data \in Seq(Chunks), m = FileChunk(name, data)
      PROVE  m.kind = "file" /\ m.name \in Nat /\ m.data \in Seq(Chunks)
  BY <1>4, ChunkKind
<1> QED
  BY <1>1, <1>2, <1>3, <1>4 DEF Messages

LEMMA EventKinds ==
  ASSUME NEW e \in Events, e # Nothing
  PROVE  e \in Messages /\ e.kind \in {"output", "completed"}
<1>1. ASSUME NEW s \in Streams, NEW n \in 1 .. MaxWrites, e = Output(s, n)
      PROVE  e \in Messages /\ e.kind = "output"
  BY <1>1, OutputKind, Bounds DEF Messages
<1>2. ASSUME NEW v \in Statuses, e = Completed(v) PROVE e \in Messages /\ e.kind = "completed"
  BY <1>2, CompletedKind DEF Messages
<1> QED
  BY <1>1, <1>2 DEF Events

LEMMA NotNothing ==
  /\ \A s, n : Output(s, n) # Nothing
  /\ \A v : Completed(v) # Nothing
BY OutputKind, CompletedKind DEF Nothing

LEMMA NoMessageIsNothing ==
  ASSUME NEW m \in Messages
  PROVE  m # Nothing
BY MessageKinds DEF Nothing

LEMMA AssembledStarted ==
  ASSUME NEW r \in Results, NEW m \in Messages, m.kind = "started"
  PROVE  /\ Assembled(r, m) \in Results
         /\ Assembled(r, m).phase = "started"
         /\ Assembled(r, m).parts = r.parts /\ Assembled(r, m).status = r.status
         /\ Assembled(r, m).files = r.files /\ Assembled(r, m).current = r.current
         /\ Assembled(r, m).data = r.data
<1>1. Assembled(r, m) = [r EXCEPT !.phase = m.kind]
  BY DEF Assembled
<1> QED
  BY <1>1 DEF Results

LEMMA AssembledOutput ==
  ASSUME NEW r \in Results, NEW m \in Messages, m.kind = "output"
  PROVE  /\ Assembled(r, m) \in Results
         /\ Assembled(r, m).phase = "output"
         /\ Assembled(r, m).parts = [r.parts EXCEPT ![m.stream] = Append(@, m.chunk)]
         /\ Assembled(r, m).status = r.status
         /\ Assembled(r, m).files = r.files /\ Assembled(r, m).current = r.current
         /\ Assembled(r, m).data = r.data
<1> DEFINE parts == [r.parts EXCEPT ![m.stream] = Append(r.parts[m.stream], m.chunk)]
<1>1. parts \in [Streams -> Seq(Nat)]
  BY MessageKinds DEF Results
<1>2. Assembled(r, m) = [[r EXCEPT !.parts = parts] EXCEPT !.phase = m.kind]
  BY DEF Assembled, Results
<1>3. [r EXCEPT !.parts = parts] \in Results
  BY <1>1 DEF Results
<1> QED
  BY <1>1, <1>2, <1>3 DEF Results

LEMMA AssembledCompleted ==
  ASSUME NEW r \in Results, NEW m \in Messages, m.kind = "completed"
  PROVE  /\ Assembled(r, m) \in Results
         /\ Assembled(r, m).phase = "completed"
         /\ Assembled(r, m).parts = r.parts /\ Assembled(r, m).status = m.status
         /\ Assembled(r, m).files = r.files /\ Assembled(r, m).current = r.current
         /\ Assembled(r, m).data = r.data
<1>1. Assembled(r, m) = [[r EXCEPT !.status = m.status] EXCEPT !.phase = m.kind]
  BY DEF Assembled
<1> QED
  BY <1>1, MessageKinds DEF Results

LEMMA KeptFiles ==
  ASSUME NEW r \in Results
  PROVE  /\ KeepFile(r) \in UNION {[S -> Seq(Chunks)] : S \in SUBSET Nat}
         /\ r.current = NoName => KeepFile(r) = r.files
         /\ r.current # NoName =>
               /\ DOMAIN KeepFile(r) = DOMAIN r.files \cup {r.current}
               /\ KeepFile(r)[r.current] = r.data
               /\ \A f \in DOMAIN r.files : f # r.current => KeepFile(r)[f] = r.files[f]
<1>1. PICK S \in SUBSET Nat : r.files \in [S -> Seq(Chunks)]
  BY DEF Results
<1>2. r.current \in Nat /\ r.data \in Seq(Chunks)
  BY DEF Results
<1>3. r.current # NoName => KeepFile(r) \in [S \cup {r.current} -> Seq(Chunks)]
  BY <1>1, <1>2 DEF KeepFile
<1>4. KeepFile(r) \in UNION {[T -> Seq(Chunks)] : T \in SUBSET Nat}
  <2>1. CASE r.current = NoName
    BY <1>1, <2>1 DEF KeepFile
  <2>2. CASE r.current # NoName
    <3>1. S \cup {r.current} \in SUBSET Nat
      BY <1>1, <1>2
    <3> QED
      BY <1>3, <2>2, <3>1
  <2> QED
    BY <2>1, <2>2
<1> QED
  BY <1>4 DEF KeepFile

LEMMA AssembledNamed ==
  ASSUME NEW r \in Results, NEW m \in Messages, m.kind = "file", m.name # NoName
  PROVE  /\ Assembled(r, m) \in Results
         /\ Assembled(r, m).phase = "file"
         /\ Assembled(r, m).parts = r.parts /\ Assembled(r, m).status = r.status
         /\ Assembled(r, m).files = KeepFile(r) /\ Assembled(r, m).current = m.name
         /\ Assembled(r, m).data = m.data
<1>1. Assembled(r, m) = [[r EXCEPT !.files = KeepFile(r), !.current = m.name, !.data = m.data]
                           EXCEPT !.phase = m.kind]
  BY DEF Assembled
<1> QED
  BY <1>1, MessageKinds, KeptFiles DEF Results

LEMMA AssembledUnnamed ==
  ASSUME NEW r \in Results, NEW m \in Messages, m.kind = "file", m.name = NoName
  PROVE  /\ Assembled(r, m) \in Results
         /\ Assembled(r, m).phase = "file"
         /\ Assembled(r, m).parts = r.parts /\ Assembled(r, m).status = r.status
         /\ Assembled(r, m).files = r.files /\ Assembled(r, m).current = r.current
         /\ Assembled(r, m).data = r.data \o m.data
<1>1. Assembled(r, m) = [[r EXCEPT !.data = r.data \o m.data] EXCEPT !.phase = m.kind]
  BY DEF Assembled
<1>2. r.data \o m.data \in Seq(Chunks)
  BY MessageKinds DEF Results
<1> QED
  BY <1>1, <1>2 DEF Results

-----------------------------------------------------------------------------
(* The queue *)

LEMMA SingletonSeq ==
  ASSUME NEW S, NEW m \in S
  PROVE  <<m>> \in Seq(S) /\ Len(<<m>>) = 1 /\ <<m>>[1] = m
OBVIOUS

LEMMA MoveAcross ==
  ASSUME NEW S, NEW a \in Seq(S), NEW m \in S, NEW b \in Seq(S)
  PROVE  Append(a, m) \o b = a \o (<<m>> \o b)
BY SingletonSeq, AppendIsConcat, ConcatAssociative

LEMMA HeadAndTail ==
  ASSUME NEW S, NEW b \in Seq(S), b # <<>>
  PROVE  <<Head(b)>> \o Tail(b) = b
<1>1. /\ Head(b) \in S /\ Tail(b) \in Seq(S) /\ Len(Tail(b)) = Len(b) - 1
      /\ \A i \in 1 .. Len(Tail(b)) : Tail(b)[i] = b[i + 1]
  BY HeadTailProperties
<1>2. <<Head(b)>> \in Seq(S) /\ Len(<<Head(b)>>) = 1 /\ <<Head(b)>>[1] = b[1]
  BY <1>1, SingletonSeq
<1> DEFINE c == <<Head(b)>> \o Tail(b)
<1>3. /\ c \in Seq(S) /\ Len(c) = 1 + Len(Tail(b))
      /\ \A i \in 1 .. 1 + Len(Tail(b)) :
            c[i] = IF i <= 1 THEN <<Head(b)>>[i] ELSE Tail(b)[i - 1]
  BY <1>1, <1>2, ConcatProperties
<1>4. Len(b) \in Nat \ {0}
  BY EmptySeq
<1>5. Len(c) = Len(b) /\ \A i \in 1 .. Len(c) : c[i] = b[i]
  <2> HIDE DEF c
  <2>1. Len(c) = Len(b)
    BY <1>1, <1>3, <1>4
  <2>2. ASSUME NEW i \in 1 .. Len(c) PROVE c[i] = b[i]
    <3>1. CASE i = 1
      BY <1>2, <1>3, <1>4, <2>1, <3>1
    <3>2. CASE i # 1
      <4>1. i - 1 \in 1 .. Len(Tail(b))
        BY <1>1, <1>4, <2>1, <3>2
      <4> QED
        BY <1>1, <1>3, <1>4, <2>1, <3>2, <4>1
    <3> QED
      BY <3>1, <3>2
  <2> QED
    BY <2>1, <2>2
<1> HIDE DEF c
<1>6. c = b
  BY <1>3, <1>5, SeqEqual
<1> QED
  BY <1>6 DEF c

LEMMA AppendAtEnd ==
  ASSUME NEW S, NEW a \in Seq(S), NEW b \in Seq(S), NEW m \in S
  PROVE  a \o Append(b, m) = Append(a \o b, m)
BY SingletonSeq, AppendIsConcat, ConcatAssociative, ConcatProperties

LEMMA TailOfFirst ==
  ASSUME NEW S, NEW a \in Seq(S), NEW b \in Seq(S), a # <<>>
  PROVE  /\ Tail(a \o b) = Tail(a) \o b
         /\ (a \o b)[1] = Head(a)
<1>1. /\ Tail(a) \in Seq(S) /\ Len(Tail(a)) = Len(a) - 1
      /\ \A i \in 1 .. Len(Tail(a)) : Tail(a)[i] = a[i + 1]
  BY HeadTailProperties
<1>2. Len(a) \in Nat \ {0} /\ Len(b) \in Nat
  BY EmptySeq, LenProperties
<1> DEFINE c == a \o b
           d == Tail(a) \o b
<1>3. /\ c \in Seq(S) /\ Len(c) = Len(a) + Len(b)
      /\ \A i \in 1 .. Len(a) + Len(b) : c[i] = IF i <= Len(a) THEN a[i] ELSE b[i - Len(a)]
  BY ConcatProperties
<1>4. /\ d \in Seq(S) /\ Len(d) = Len(Tail(a)) + Len(b)
      /\ \A i \in 1 .. Len(Tail(a)) + Len(b) :
            d[i] = IF i <= Len(Tail(a)) THEN Tail(a)[i] ELSE b[i - Len(Tail(a))]
  BY <1>1, ConcatProperties
<1> HIDE DEF c, d
<1>5. c # <<>>
  BY <1>2, <1>3
<1>6. /\ Tail(c) \in Seq(S) /\ Len(Tail(c)) = Len(c) - 1
      /\ \A i \in 1 .. Len(Tail(c)) : Tail(c)[i] = c[i + 1]
  BY <1>3, <1>5, HeadTailProperties
<1>7. ASSUME NEW i \in 1 .. Len(d) PROVE d[i] = Tail(c)[i]
  <2>1. i \in 1 .. Len(Tail(c)) /\ i + 1 \in 1 .. Len(a) + Len(b)
    BY <1>1, <1>2, <1>3, <1>4, <1>6
  <2>2. CASE i <= Len(Tail(a))
    BY <1>1, <1>2, <1>3, <1>4, <1>6, <2>1, <2>2
  <2>3. CASE ~(i <= Len(Tail(a)))
    <3>1. i - Len(Tail(a)) = (i + 1) - Len(a)
      BY <1>1, <1>2
    <3> QED
      BY <1>1, <1>2, <1>3, <1>4, <1>6, <2>1, <2>3, <3>1
  <2> QED
    BY <2>2, <2>3
<1>8. d = Tail(c)
  BY <1>1, <1>2, <1>3, <1>4, <1>6, <1>7, SeqEqual
<1>9. c[1] = Head(a)
  BY <1>2, <1>3
<1> QED
  BY <1>8, <1>9 DEF c, d

-----------------------------------------------------------------------------
(* What the actions do to the queue *)

Base == TypeOK /\ Typed /\ Ties

LEMMA QueueTyped ==
  ASSUME Base
  PROVE  /\ Pending \in Seq(Messages) /\ Queue \in Seq(Messages)
         /\ Len(Queue) \in Nat
         /\ \A i \in 1 .. Len(Queue) : Queue[i] \in Messages
<1>1. run = "forwarding" => forwarded \in Messages
  BY EventKinds DEF Base, TypeOK, Ties
<1>2. Pending \in Seq(Messages)
  BY <1>1, SingletonSeq, EmptySeq DEF Pending
<1>3. Queue \in Seq(Messages)
  BY <1>2, ConcatProperties DEF Queue, Base, Typed
<1> QED
  BY <1>2, <1>3, LenProperties, ElementOfSeq

LEMMA QueueParts ==
  ASSUME Base
  PROVE  \A i \in 1 .. Len(Queue) :
            \/ \E j \in DOMAIN out : Queue[i] = out[j]
            \/ Queue[i] = forwarded /\ run = "forwarding"
            \/ \E j \in DOMAIN events : Queue[i] = events[j]
<1> DEFINE rest == Pending \o events
<1>1. /\ out \in Seq(Messages) /\ Pending \in Seq(Messages) /\ events \in Seq(Messages)
      /\ rest \in Seq(Messages)
  BY QueueTyped, ConcatProperties DEF Base, Typed
<1>2. /\ Len(out) \in Nat /\ Len(Pending) \in Nat /\ Len(events) \in Nat
      /\ DOMAIN out = 1 .. Len(out) /\ DOMAIN events = 1 .. Len(events)
  BY <1>1, LenProperties
<1>3. /\ Len(rest) = Len(Pending) + Len(events)
      /\ \A i \in 1 .. Len(Pending) + Len(events) :
            rest[i] = IF i <= Len(Pending) THEN Pending[i] ELSE events[i - Len(Pending)]
  BY <1>1, ConcatProperties
<1> HIDE DEF rest
<1>4. /\ Len(Queue) = Len(out) + Len(rest)
      /\ \A i \in 1 .. Len(out) + Len(rest) :
            Queue[i] = IF i <= Len(out) THEN out[i] ELSE rest[i - Len(out)]
  BY <1>1, ConcatProperties DEF Queue, rest
<1>5. \A i \in 1 .. Len(Pending) : Pending[i] = forwarded /\ run = "forwarding"
  BY DEF Pending
<1>6. ASSUME NEW i \in 1 .. Len(Queue), i > Len(out)
      PROVE  \/ Queue[i] = forwarded /\ run = "forwarding"
             \/ \E j \in DOMAIN events : Queue[i] = events[j]
  <2>1. PICK k \in 1 .. Len(Pending) + Len(events) : k = i - Len(out)
    BY <1>2, <1>3, <1>4, <1>6
  <2>2. Queue[i] = rest[k]
    BY <1>2, <1>3, <1>4, <1>6, <2>1
  <2>3. CASE k <= Len(Pending)
    BY <1>2, <1>3, <1>5, <2>2, <2>3
  <2>4. CASE k > Len(Pending)
    <3>1. k - Len(Pending) \in DOMAIN events
      BY <1>2, <2>4
    <3>2. Queue[i] = events[k - Len(Pending)]
      BY <1>2, <1>3, <2>2, <2>4
    <3> QED
      BY <3>1, <3>2
  <2> QED
    BY <1>2, <2>3, <2>4
<1>7. ASSUME NEW i \in 1 .. Len(Queue), i <= Len(out)
      PROVE  \E j \in DOMAIN out : Queue[i] = out[j]
  BY <1>2, <1>3, <1>4, <1>7
<1> QED
  BY <1>2, <1>3, <1>4, <1>6, <1>7

(* While the client reads, a message that is forwarded only moves. *)
LEMMA ForwardMoves ==
  ASSUME Base, Forward, client = "reading"
  PROVE  Queue' = Queue
<1>1. forwarded \in Messages
  BY EventKinds DEF Base, TypeOK, Ties, Forward
<1>2. out' = Append(out, forwarded) /\ Pending' = <<>> /\ events' = events /\ Pending = <<forwarded>>
  BY DEF Forward, ToClient, Pending
<1>3. Pending' \o events' = events'
  BY <1>2, ConcatEmptySeq DEF Base, Typed
<1> QED
  BY <1>1, <1>2, <1>3, MoveAcross DEF Queue, Base, Typed

LEMMA ReceiveMoves ==
  ASSUME Base, Receive
  PROVE  Queue' = Queue
<1>1. events \in Seq(Messages) /\ events # <<>>
  BY DEF Base, Typed, Receive
<1>2. /\ out' = out /\ Pending = <<>> /\ Pending' = <<Head(events)>> /\ events' = Tail(events)
  BY DEF Receive, Pending
<1>3. Pending' \o events' = Pending \o events
  BY <1>1, <1>2, HeadAndTail, ConcatEmptySeq
<1> QED
  BY <1>2, <1>3 DEF Queue

LEMMA SendAppends ==
  ASSUME Base, SendOutput \/ SendCompleted
  PROVE  outgoing \in Messages /\ Queue' = Append(Queue, outgoing)
<1>1. outgoing \in Messages
  BY EventKinds DEF Base, TypeOK, SendOutput, SendCompleted
<1>2. out' = out /\ Pending' = Pending /\ events' = Append(events, outgoing)
  BY DEF SendOutput, SendCompleted, task, Pending
<1>3. /\ out \in Seq(Messages) /\ Pending \in Seq(Messages) /\ events \in Seq(Messages)
      /\ Pending \o events \in Seq(Messages)
  BY QueueTyped, ConcatProperties DEF Base, Typed
<1>4. Pending \o Append(events, outgoing) = Append(Pending \o events, outgoing)
  BY <1>1, <1>3, AppendAtEnd
<1>5. out \o Append(Pending \o events, outgoing) = Append(out \o (Pending \o events), outgoing)
  BY <1>1, <1>3, AppendAtEnd
<1>6. Queue' = out' \o (Pending' \o events')
  BY DEF Queue
<1>7. Queue' = Append(out \o (Pending \o events), outgoing)
  BY <1>2, <1>4, <1>5, <1>6
<1> QED
  BY <1>1, <1>7 DEF Queue

LEMMA ToClientAppends ==
  ASSUME Base, NEW m \in Messages, ToClient(m), client = "reading",
         Pending = <<>>, events = <<>>, Pending' = <<>>, events' = <<>>
  PROVE  Queue = out /\ Queue' = Append(Queue, m)
BY ConcatEmptySeq DEF Base, Typed, Queue, ToClient

LEMMA TakeRemoves ==
  ASSUME Base, Take
  PROVE  /\ Queue # <<>> /\ Queue[1] = Head(out) /\ Queue' = Tail(Queue)
<1>1. out \in Seq(Messages) /\ out # <<>> /\ Pending \o events \in Seq(Messages)
  BY QueueTyped, ConcatProperties DEF Base, Typed, Take
<1>2. out' = Tail(out) /\ Pending' = Pending /\ events' = events
  BY DEF Take, task, Pending
<1>3. Queue # <<>>
  BY <1>1, ConcatEqualIffEmpty, ConcatProperties, LenProperties, EmptySeq DEF Queue
<1> QED
  BY <1>1, <1>2, <1>3, TailOfFirst DEF Queue

-----------------------------------------------------------------------------
(* Types, and how the parts go together *)

LEMMA BaseProcess ==
  ASSUME Base, Process \/ DeadlinePasses
  PROVE  Base'
<1> USE DEF Base, TypeOK, Typed, Ties, AtWork, Judging, Forwarding, Ended, executor, task, caller, process
<1>1. ASSUME NEW s \in Streams, Write(s) PROVE Base'
  <2>1. /\ written' \in [Streams -> Nat]
        /\ \A t \in Streams : t # s => written'[t] = written[t]
        /\ written'[s] = written[s] + 1 /\ written'[s] <= MaxWrites /\ s \notin eof
    BY <1>1, Bounds DEF Write
  <2>2. \A t \in Streams : taken[t] <= written'[t] /\ written'[t] <= MaxWrites
    <3>1. \A t \in Streams : /\ taken[t] \in Nat /\ written[t] \in Nat
                              /\ taken[t] <= written[t] /\ written[t] <= MaxWrites
      OBVIOUS
    <3> HIDE DEF Base, TypeOK, Typed, Ties
    <3>2. ASSUME NEW t \in Streams
          PROVE  taken[t] <= written'[t] /\ written'[t] <= MaxWrites
      <4>1. CASE t = s
        BY <2>1, <3>1, <4>1
      <4>2. CASE t # s
        BY <2>1, <3>1, <4>2
      <4> QED
        BY <4>1, <4>2
    <3> QED
      BY <3>2
  <2>3. \A t \in eof : t \notin open /\ taken[t] = written'[t]
    BY <2>1
  <2>4. TypeOK'
    BY <1>1, <2>2 DEF Write
  <2>5. Typed'
    BY <1>1, <2>1 DEF Write
  <2>6. Ties'
    BY <1>1, <2>3 DEF Write
  <2> QED
    BY <2>4, <2>5, <2>6
<1>2. ASSUME NEW s \in Streams, ClosePipe(s) PROVE Base'
  BY <1>2 DEF ClosePipe
<1>3. CASE Exit
  BY <1>3 DEF Exit
<1>4. CASE DeadlinePasses
  BY <1>4 DEF DeadlinePasses
<1> QED
  BY <1>1, <1>2, <1>3, <1>4 DEF Process

LEMMA BaseExecutor ==
  ASSUME Base, Executor
  PROVE  Base'
<1> USE Bounds DEF Base, TypeOK, Typed, Ties, AtWork, Judging, Forwarding, Ended, executor, task, caller, process
<1>1. CASE SpawnFails
  BY <1>1 DEF SpawnFails
<1>2. CASE Spawn
  BY <1>2 DEF Spawn
<1>3. ASSUME NEW s \in Streams, Read(s) PROVE Base'
  <2>1. /\ taken' \in [Streams -> Nat]
        /\ \A t \in Streams : t # s => taken'[t] = taken[t]
        /\ taken'[s] = taken[s] + 1 /\ taken'[s] <= written[s] /\ s \notin eof
    BY <1>3 DEF Read
  <2>2. /\ \A t \in Streams : taken'[t] <= written[t]
        /\ \A t \in eof : t \notin open /\ taken'[t] = written[t]
    BY <2>1
  <2>3. outgoing' \in Events /\ outgoing' # Nothing
    <3>1. taken[s] + 1 \in 1 .. MaxWrites
      BY <2>1
    <3> QED
      BY <1>3, <3>1, NotNothing DEF Read, Events
  <2> QED
    BY <1>3, <2>1, <2>2, <2>3 DEF Read
<1>4. ASSUME NEW s \in Streams, ReadEof(s) PROVE Base'
  BY <1>4 DEF ReadEof
<1>5. CASE SendOutput
  <2>1. outgoing \in Messages /\ outgoing \in Events /\ Nothing \in Events
    BY <1>5, SendAppends DEF Events
  <2>2. /\ events' \in Seq(Messages) /\ Len(events') = Len(events) + 1
        /\ \A i \in DOMAIN events' : events'[i] \in Events
    BY <1>5, <2>1, AppendProperties DEF SendOutput
  <2>3. Len(events') <= EventCap
    BY <1>5, <2>2, Capacities DEF SendOutput
  <2> QED
    BY <1>5, <2>1, <2>2, <2>3 DEF SendOutput
<1>6. CASE Terminate
  BY <1>6 DEF Terminate
<1>7. CASE Reap
  BY <1>7, NotNothing DEF Reap, Verdict, Events, Statuses
<1>8. CASE GraceDies
  BY <1>8, NotNothing DEF GraceDies, Verdict, Events, Statuses
<1>9. CASE GraceKills
  BY <1>9, NotNothing DEF GraceKills, Verdict, Events, Statuses
<1>10. CASE DetectFails
  BY <1>10 DEF DetectFails, Events
<1>11. CASE Detect
  BY <1>11 DEF Detect
<1>12. CASE SendCompleted
  <2>1. outgoing \in Messages /\ outgoing \in Events /\ Nothing \in Events
    BY <1>12, SendAppends DEF Events
  <2>2. /\ events' \in Seq(Messages) /\ Len(events') = Len(events) + 1
        /\ \A i \in DOMAIN events' : events'[i] \in Events
    BY <1>12, <2>1, AppendProperties DEF SendCompleted
  <2>3. Len(events') <= EventCap
    BY <1>12, <2>2, Capacities DEF SendCompleted
  <2> QED
    BY <1>12, <2>1, <2>2, <2>3 DEF SendCompleted
<1> QED
  BY <1>1, <1>2, <1>3, <1>4, <1>5, <1>6, <1>7, <1>8, <1>9, <1>10, <1>11, <1>12 DEF Executor

LEMMA ToClientTyped ==
  ASSUME Base, NEW m \in Messages, ToClient(m)
  PROVE  out' \in Seq(Messages) /\ Len(out') <= OutCap
<1>1. out \in Seq(Messages) /\ Len(out) \in Nat /\ Len(out) <= OutCap /\ OutCap \in Nat
  BY Capacities DEF Base, TypeOK, Typed
<1>2. CASE out' = out
  BY <1>1, <1>2
<1>3. CASE Len(out) < OutCap /\ out' = Append(out, m)
  BY <1>1, <1>3, AppendProperties
<1> QED
  BY <1>2, <1>3 DEF ToClient

LEMMA AtRange ==
  ASSUME Base
  PROVE  /\ at[1] \in Nat \ {0} /\ at[2] \in Nat \ {0} /\ at = <<at[1], at[2]>>
         /\ Len(sizes) \in Nat /\ \A f \in 1 .. Len(sizes) : sizes[f] \in Nat
BY DEF Base, Typed

(* The chunk that is read next, as a message. *)
NextChunk == FileChunk(IF at[2] = 1 THEN at[1] ELSE NoName,
                       IF sizes[at[1]] = 0 THEN <<>> ELSE <<at>>)

LEMMA ChunkMessage ==
  ASSUME Base
  PROVE  NextChunk \in Messages
<1> DEFINE name == IF at[2] = 1 THEN at[1] ELSE NoName
           data == IF sizes[at[1]] = 0 THEN <<>> ELSE <<at>>
<1>1. name \in Nat /\ at \in Chunks
  BY AtRange DEF Chunks, NoName
<1>2. data \in Seq(Chunks)
  BY <1>1, SingletonSeq
<1> HIDE DEF name, data
<1>3. FileChunk(name, data) \in Messages
  BY <1>1, <1>2 DEF Messages
<1> QED
  BY <1>3 DEF NextChunk, name, data

LEMMA AtMoves ==
  ASSUME Base, NextFile
  PROVE  at' = <<at[1] + 1, 1>> /\ at' \in (Nat \ {0}) \X (Nat \ {0})
         /\ at'[1] = at[1] + 1 /\ at'[2] = 1
BY AtRange DEF NextFile

LEMMA BaseTask ==
  ASSUME Base, RunTask
  PROVE  Base'
<1> USE Capacities DEF Base, TypeOK, Typed, Ties, AtWork, Judging, Forwarding, Ended, executor, task, caller, process
<1>1. CASE SendStarted
  <2>1. ToClient(Started) /\ Started \in Messages
    BY <1>1 DEF SendStarted, Messages
  <2> QED
    BY <1>1, <2>1, ToClientTyped DEF SendStarted
<1>2. CASE Receive
  <2>1. /\ events' \in Seq(Messages) /\ Len(events') = Len(events) - 1
        /\ \A i \in 1 .. Len(events') : events'[i] = events[i + 1]
    BY <1>2, HeadTailProperties DEF Receive
  <2>2. Len(events) \in Nat /\ events # <<>>
    BY <1>2 DEF Receive
  <2>3. Len(events') <= EventCap /\ \A i \in DOMAIN events' : events'[i] \in Events
    <3>1. /\ Len(events) <= EventCap /\ Len(events') \in Nat
          /\ DOMAIN events' = 1 .. Len(events') /\ DOMAIN events = 1 .. Len(events)
          /\ \A i \in DOMAIN events : events[i] \in Events
      BY <2>1, LenProperties
    <3> HIDE DEF Base, TypeOK, Typed, Ties
    <3>2. \A i \in 1 .. Len(events') : i + 1 \in 1 .. Len(events)
      BY <2>1, <2>2, <3>1
    <3>3. Len(events') <= EventCap
      BY <2>1, <2>2, <3>1
    <3> QED
      BY <2>1, <3>1, <3>2, <3>3
  <2>4. forwarded' \in Events /\ forwarded' # Nothing
    <3>1. Head(events) \in Messages /\ Head(events) = events[1] /\ 1 \in DOMAIN events
      BY <2>2, HeadTailProperties
    <3>2. Head(events) # Nothing
      BY <3>1, NoMessageIsNothing
    <3> QED
      BY <1>2, <3>1, <3>2 DEF Receive
  <2> QED
    BY <1>2, <2>1, <2>3, <2>4 DEF Receive
<1>3. CASE Forward
  <2>1. ToClient(forwarded) /\ forwarded \in Messages
    BY <1>3, EventKinds DEF Forward
  <2>2. Nothing \in Events
    BY DEF Events
  <2> QED
    BY <1>3, <2>1, <2>2, ToClientTyped DEF Forward
<1>4. CASE EventsClosed
  BY <1>4 DEF EventsClosed
<1>5. CASE SendFileChunk
  <2>1. ToClient(NextChunk) /\ NextChunk \in Messages
    BY <1>5, ChunkMessage DEF SendFileChunk, NextChunk
  <2>2. at' \in (Nat \ {0}) \X (Nat \ {0})
        /\ (at'[2] # 1 => at'[1] \in 1 .. Len(sizes) /\ at'[2] <= sizes[at'[1]])
    BY <1>5, AtRange DEF SendFileChunk, NextFile
  <2> QED
    BY <1>5, <2>1, <2>2, ToClientTyped DEF SendFileChunk
<1>6. CASE FileFails
  <2>1. at' \in (Nat \ {0}) \X (Nat \ {0}) /\ at'[2] = 1
    BY <1>6, AtMoves DEF FileFails
  <2>2. broken' \subseteq Nat
    BY <1>6, AtRange DEF FileFails
  <2> QED
    BY <1>6, <2>1, <2>2 DEF FileFails
<1>7. CASE Finish
  BY <1>7 DEF Finish
<1> QED
  BY <1>1, <1>2, <1>3, <1>4, <1>5, <1>6, <1>7 DEF RunTask

LEMMA AssembledTyped ==
  ASSUME NEW r \in Results, NEW m \in Messages
  PROVE  /\ Assembled(r, m) \in Results
         /\ DOMAIN Assembled(r, m).files =
               IF m.kind = "file" /\ m.name # NoName /\ r.current # NoName
               THEN DOMAIN r.files \cup {r.current} ELSE DOMAIN r.files
<1>1. CASE m.kind = "started"
  BY <1>1, AssembledStarted
<1>2. CASE m.kind = "output"
  BY <1>2, AssembledOutput
<1>3. CASE m.kind = "completed"
  BY <1>3, AssembledCompleted
<1>4. CASE m.kind = "file" /\ m.name # NoName
  BY <1>4, AssembledNamed, KeptFiles
<1>5. CASE m.kind = "file" /\ m.name = NoName
  BY <1>5, AssembledUnnamed
<1> QED
  BY <1>1, <1>2, <1>3, <1>4, <1>5, MessageKinds

LEMMA TakeFacts ==
  ASSUME Base, Take
  PROVE  /\ Head(out) \in Messages /\ Head(out) = out[1] /\ 1 \in DOMAIN out
         /\ out' \in Seq(Messages) /\ Len(out') <= OutCap
         /\ result \in Results /\ result' = Assembled(result, Head(out)) /\ result' \in Results
<1>1. out \in Seq(Messages) /\ out # <<>> /\ Len(out) <= OutCap /\ result \in Results
  BY DEF Base, TypeOK, Typed, Take
<1>2. /\ Head(out) \in Messages /\ Head(out) = out[1] /\ 1 \in DOMAIN out
      /\ Tail(out) \in Seq(Messages) /\ Len(Tail(out)) = Len(out) - 1
  BY <1>1, HeadTailProperties, EmptySeq, LenProperties
<1>3. out' = Tail(out) /\ result' = Assembled(result, Head(out))
  BY DEF Take
<1>4. Len(out') <= OutCap
  BY <1>1, <1>2, <1>3, LenProperties, Capacities
<1> QED
  BY <1>1, <1>2, <1>3, <1>4, AssembledTyped

LEMMA ReturnFacts ==
  ASSUME Base, Return
  PROVE  /\ result' \in Results /\ result'.files = KeepFile(result)
         /\ result'.parts = result.parts /\ result'.status = result.status
         /\ result'.current = result.current /\ result'.data = result.data
         /\ result'.phase = result.phase
<1>1. result' = [result EXCEPT !.files = KeepFile(result)] /\ result \in Results
  BY DEF Return, Base, Typed
<1> QED
  BY <1>1, KeptFiles DEF Results

LEMMA KeptDomain ==
  ASSUME Base, result.current \in 0 .. Len(sizes)
  PROVE  /\ DOMAIN result.files \subseteq 1 .. Len(sizes)
         /\ DOMAIN KeepFile(result) \subseteq 1 .. Len(sizes)
         /\ result.current # NoName => result.current \in 1 .. Len(sizes)
<1>1. DOMAIN result.files \subseteq 1 .. Len(sizes) /\ result \in Results
  BY DEF Base, TypeOK, Typed
<1>2. result.current # NoName => result.current \in 1 .. Len(sizes)
  BY AtRange DEF NoName
<1> QED
  BY <1>1, <1>2, KeptFiles

LEMMA BaseClient ==
  ASSUME Base, FilesKept, Client
  PROVE  Base'
<1>1. result.current \in 0 .. Len(sizes)
  BY DEF FilesKept
<1>2. CASE Take
  <2> DEFINE m == Head(out)
  <2>1. m \in Messages /\ result \in Results /\ result' = Assembled(result, m)
    BY <1>2, TakeFacts
  <2>2. /\ DOMAIN result.files \subseteq 1 .. Len(sizes)
        /\ result.current # NoName => result.current \in 1 .. Len(sizes)
    BY <1>1, KeptDomain
  <2> HIDE DEF m
  <2>3. DOMAIN result'.files =
               IF m.kind = "file" /\ m.name # NoName /\ result.current # NoName
               THEN DOMAIN result.files \cup {result.current} ELSE DOMAIN result.files
    BY <2>1, AssembledTyped
  <2>4. DOMAIN result'.files \subseteq 1 .. Len(sizes)
    BY <2>2, <2>3
  <2>5. TypeOK'
    BY <1>2, <2>4, TakeFacts DEF Take, Base, TypeOK, executor, task, process
  <2>6. Typed'
    BY <1>2, TakeFacts DEF Take, Base, Typed, executor, task, process
  <2>7. Ties'
    BY <1>2 DEF Take, Base, Ties, executor, task, process
  <2> QED
    BY <2>5, <2>6, <2>7 DEF Base
<1>3. CASE Return
  <2>1. DOMAIN result'.files \subseteq 1 .. Len(sizes)
    BY <1>1, <1>3, ReturnFacts, KeptDomain
  <2>2. TypeOK'
    BY <1>3, <2>1 DEF Return, Base, TypeOK, executor, task, process
  <2>3. Typed'
    BY <1>3, ReturnFacts DEF Return, Base, Typed, executor, task, process
  <2>4. Ties'
    BY <1>3 DEF Return, Base, Ties, executor, task, process
  <2> QED
    BY <2>2, <2>3, <2>4 DEF Base
<1>4. CASE Leave
  BY <1>4, Capacities DEF Leave, Base, TypeOK, Typed, Ties, executor, task, process
<1> QED
  BY <1>2, <1>3, <1>4 DEF Client
-----------------------------------------------------------------------------
(* What Append and Tail do to a queue that is sound, numbered or chained *)

LEMMA AppendAt ==
  ASSUME NEW q \in Seq(Messages), NEW m \in Messages
  PROVE  /\ Len(q) \in Nat /\ Len(Append(q, m)) = Len(q) + 1
         /\ \A i \in 1 .. Len(q) : Append(q, m)[i] = q[i]
         /\ Append(q, m)[Len(q) + 1] = m
BY AppendProperties, LenProperties

LEMMA TailAt ==
  ASSUME NEW q \in Seq(Messages), q # <<>>
  PROVE  /\ Len(q) \in Nat \ {0} /\ Len(Tail(q)) = Len(q) - 1 /\ q[1] \in Messages
         /\ \A i \in 1 .. Len(Tail(q)) : Tail(q)[i] = q[i + 1]
BY HeadTailProperties, EmptySeq, LenProperties, ElementOfSeq

LEMMA MessageAt ==
  ASSUME NEW q \in Seq(Messages), NEW i \in 1 .. Len(q)
  PROVE  /\ q[i] \in Messages
         /\ q[i].kind = "output" => q[i].stream \in Streams /\ q[i].chunk \in Nat
BY MessageKinds, ElementOfSeq

Counts == [Streams -> Nat]

LEMMA NumberedOther ==
  ASSUME NEW q \in Seq(Messages), NEW m \in Messages, m.kind # "output",
         NEW have \in Counts, NEW sent \in Counts, Numbered(q, have, sent)
  PROVE  Numbered(Append(q, m), have, sent)
<1> DEFINE r == Append(q, m)
<1>1. /\ Len(q) \in Nat /\ Len(r) = Len(q) + 1
      /\ \A i \in 1 .. Len(q) : r[i] = q[i]
      /\ r[Len(q) + 1] = m
  BY AppendAt
<1> HIDE DEF r
<1>2. ASSUME NEW i \in 1 .. Len(r), r[i].kind = "output"
      PROVE  /\ have[r[i].stream] < r[i].chunk /\ r[i].chunk <= sent[r[i].stream]
             /\ \A j \in 1 .. i - 1 :
                /\ r[j].kind \in {"started", "output"}
                /\ r[j].kind = "output" /\ r[j].stream = r[i].stream => r[j].chunk < r[i].chunk
  <2>1. i \in 1 .. Len(q)
    BY <1>1, <1>2
  <2>2. r[i] = q[i] /\ \A j \in 1 .. i - 1 : j \in 1 .. Len(q) /\ r[j] = q[j]
    BY <1>1, <2>1
  <2> QED
    BY <1>2, <2>1, <2>2 DEF Numbered
<1>3. ASSUME NEW s \in Streams, NEW n \in have[s] + 1 .. sent[s]
      PROVE  \E i \in 1 .. Len(r) : IsOutput(r[i], s, n)
  <2>1. PICK i \in 1 .. Len(q) : IsOutput(q[i], s, n)
    BY DEF Numbered
  <2> QED
    BY <1>1, <2>1
<1> QED
  BY <1>2, <1>3 DEF Numbered, r

LEMMA NumberedOutput ==
  ASSUME NEW q \in Seq(Messages), NEW m \in Messages, m.kind = "output",
         NEW have \in Counts, NEW sent \in Counts, NEW more \in Counts, Numbered(q, have, sent),
         have[m.stream] <= sent[m.stream],
         m.chunk = sent[m.stream] + 1, more = [sent EXCEPT ![m.stream] = m.chunk],
         \A i \in 1 .. Len(q) : q[i].kind \in {"started", "output"}
  PROVE  Numbered(Append(q, m), have, more)
<1> DEFINE r == Append(q, m)
<1>1. /\ Len(q) \in Nat /\ Len(r) = Len(q) + 1
      /\ \A i \in 1 .. Len(q) : r[i] = q[i]
      /\ r[Len(q) + 1] = m
  BY AppendAt
<1>2. m.stream \in Streams /\ m.chunk \in Nat
  BY MessageKinds
<1>3. /\ \A s \in Streams : have[s] \in Nat /\ sent[s] \in Nat /\ more[s] \in Nat
      /\ \A s \in Streams : s # m.stream => more[s] = sent[s]
      /\ more[m.stream] = m.chunk
  BY <1>2 DEF Counts
<1>4. \A i \in 1 .. Len(q) : q[i].kind = "output" => q[i].stream \in Streams /\ q[i].chunk \in Nat
  BY MessageAt
<1> HIDE DEF r
<1>5. ASSUME NEW i \in 1 .. Len(r), r[i].kind = "output"
      PROVE  /\ have[r[i].stream] < r[i].chunk /\ r[i].chunk <= more[r[i].stream]
             /\ \A j \in 1 .. i - 1 :
                /\ r[j].kind \in {"started", "output"}
                /\ r[j].kind = "output" /\ r[j].stream = r[i].stream => r[j].chunk < r[i].chunk
  <2>1. CASE i \in 1 .. Len(q)
    <3>1. r[i] = q[i] /\ \A j \in 1 .. i - 1 : j \in 1 .. Len(q) /\ r[j] = q[j]
      BY <1>1, <2>1
    <3>2. q[i].stream \in Streams /\ q[i].chunk \in Nat
      BY <1>4, <1>5, <2>1, <3>1
    <3>3. /\ have[q[i].stream] < q[i].chunk /\ q[i].chunk <= sent[q[i].stream]
          /\ \A j \in 1 .. i - 1 :
                q[j].kind = "output" /\ q[j].stream = q[i].stream => q[j].chunk < q[i].chunk
      BY <1>5, <2>1, <3>1 DEF Numbered
    <3>4. q[i].chunk <= more[q[i].stream]
      BY <1>3, <3>2, <3>3
    <3> QED
      BY <3>1, <3>3, <3>4
  <2>2. CASE i = Len(q) + 1
    <3>1. r[i] = m /\ \A j \in 1 .. i - 1 : j \in 1 .. Len(q) /\ r[j] = q[j]
      BY <1>1, <2>2
    <3>2. ASSUME NEW j \in 1 .. Len(q), q[j].kind = "output", q[j].stream = m.stream
          PROVE  q[j].chunk < m.chunk
      <4>1. q[j].chunk <= sent[m.stream] /\ q[j].chunk \in Nat
        BY <1>4, <3>2 DEF Numbered
      <4> QED
        BY <1>2, <1>3, <4>1
    <3>3. have[m.stream] < m.chunk /\ m.chunk <= more[m.stream]
      BY <1>2, <1>3
    <3> QED
      BY <3>1, <3>2, <3>3
  <2> QED
    BY <1>1, <2>1, <2>2
<1>6. ASSUME NEW s \in Streams, NEW n \in have[s] + 1 .. more[s]
      PROVE  \E i \in 1 .. Len(r) : IsOutput(r[i], s, n)
  <2>1. CASE n <= sent[s]
    <3>1. n \in have[s] + 1 .. sent[s]
      BY <1>3, <2>1
    <3>2. PICK i \in 1 .. Len(q) : IsOutput(q[i], s, n)
      BY <3>1 DEF Numbered
    <3> QED
      BY <1>1, <3>2
  <2>2. CASE ~(n <= sent[s])
    <3>1. s = m.stream /\ n = m.chunk
      BY <1>2, <1>3, <2>2
    <3>2. IsOutput(r[Len(q) + 1], s, n) /\ Len(q) + 1 \in 1 .. Len(r)
      BY <1>1, <3>1 DEF IsOutput
    <3> QED
      BY <3>2
  <2> QED
    BY <2>1, <2>2
<1> QED
  BY <1>5, <1>6 DEF Numbered, r

(* The first message of a queue goes to the client. *)
LEMMA NumberedTail ==
  ASSUME NEW q \in Seq(Messages), q # <<>>,
         NEW have \in Counts, NEW more \in Counts, NEW sent \in Counts, Numbered(q, have, sent),
         \A s \in Streams : have[s] <= sent[s],
         more = IF q[1].kind = "output" THEN [have EXCEPT ![q[1].stream] = @ + 1] ELSE have
  PROVE  /\ Numbered(Tail(q), more, sent)
         /\ q[1].kind = "output" => q[1].chunk = have[q[1].stream] + 1
         /\ q[1].kind = "completed" => have = sent
         /\ \A s \in Streams : more[s] <= sent[s]
<1> DEFINE r == Tail(q)
<1>1. /\ Len(q) \in Nat \ {0} /\ Len(r) = Len(q) - 1
      /\ \A i \in 1 .. Len(r) : r[i] = q[i + 1]
  BY TailAt
<1>2. \A i \in 1 .. Len(q) : q[i].kind = "output" => q[i].stream \in Streams /\ q[i].chunk \in Nat
  BY MessageAt
<1>3. \A s \in Streams : have[s] \in Nat /\ sent[s] \in Nat /\ more[s] \in Nat
  BY DEF Counts
<1>4. \A s \in Streams : more[s] = IF q[1].kind = "output" /\ q[1].stream = s
                                   THEN have[s] + 1 ELSE have[s]
  BY <1>1, <1>2 DEF Counts
<1> HIDE DEF r
<1>5. \A i \in 1 .. Len(q) : q[i].kind = "output" =>
          /\ have[q[i].stream] < q[i].chunk /\ q[i].chunk <= sent[q[i].stream]
          /\ \A j \in 1 .. i - 1 :
                /\ q[j].kind \in {"started", "output"}
                /\ q[j].kind = "output" /\ q[j].stream = q[i].stream => q[j].chunk < q[i].chunk
  BY DEF Numbered
<1>6. \A s \in Streams : \A n \in have[s] + 1 .. sent[s] :
          \E i \in 1 .. Len(q) : IsOutput(q[i], s, n)
  BY DEF Numbered
<1>7. ASSUME q[1].kind = "output" PROVE q[1].chunk = have[q[1].stream] + 1
  <2> DEFINE s == q[1].stream
             n == q[1].chunk
  <2>1. 1 \in 1 .. Len(q)
    BY <1>1
  <2>2. s \in Streams /\ n \in Nat /\ have[s] < n /\ n <= sent[s]
    BY <1>2, <1>5, <1>7, <2>1
  <2>3. have[s] + 1 \in have[s] + 1 .. sent[s]
    BY <1>3, <2>2
  <2>4. PICK i \in 1 .. Len(q) : IsOutput(q[i], s, have[s] + 1)
    BY <1>6, <2>2, <2>3
  <2>5. CASE i = 1
    BY <2>4, <2>5 DEF IsOutput
  <2>6. CASE i # 1
    <3>1. 1 \in 1 .. i - 1
      BY <2>6
    <3>2. n < have[s] + 1
      BY <1>5, <1>7, <2>4, <3>1 DEF IsOutput
    <3> QED
      BY <1>3, <2>2, <3>2
  <2> QED
    BY <2>5, <2>6
<1>8. ASSUME q[1].kind = "completed" PROVE have = sent
  <2>1. ASSUME NEW s \in Streams, have[s] < sent[s] PROVE FALSE
    <3>1. have[s] + 1 \in have[s] + 1 .. sent[s]
      BY <1>3, <2>1
    <3>2. PICK i \in 1 .. Len(q) : IsOutput(q[i], s, have[s] + 1)
      BY <1>6, <3>1
    <3>3. i # 1 /\ q[i].kind = "output"
      BY <1>8, <3>2 DEF IsOutput
    <3>4. 1 \in 1 .. i - 1
      BY <3>3
    <3> QED
      BY <1>5, <1>8, <3>3, <3>4
  <2>2. \A s \in Streams : have[s] = sent[s]
    BY <1>3, <2>1
  <2> QED
    BY <2>2 DEF Counts
<1>9. ASSUME NEW i \in 1 .. Len(r), r[i].kind = "output"
      PROVE  /\ more[r[i].stream] < r[i].chunk /\ r[i].chunk <= sent[r[i].stream]
             /\ \A j \in 1 .. i - 1 :
                /\ r[j].kind \in {"started", "output"}
                /\ r[j].kind = "output" /\ r[j].stream = r[i].stream => r[j].chunk < r[i].chunk
  <2>1. /\ i + 1 \in 1 .. Len(q) /\ r[i] = q[i + 1] /\ 1 \in 1 .. Len(q)
        /\ \A j \in 1 .. i - 1 : j + 1 \in 1 .. (i + 1) - 1 /\ r[j] = q[j + 1]
        /\ 1 \in 1 .. (i + 1) - 1
    BY <1>1
  <2>2. /\ have[r[i].stream] < r[i].chunk /\ r[i].chunk <= sent[r[i].stream]
        /\ r[i].stream \in Streams /\ r[i].chunk \in Nat
        /\ \A j \in 1 .. i - 1 :
                /\ r[j].kind \in {"started", "output"}
                /\ r[j].kind = "output" /\ r[j].stream = r[i].stream => r[j].chunk < r[i].chunk
    BY <1>2, <1>5, <1>9, <2>1
  <2>3. q[1].kind = "output" /\ q[1].stream = r[i].stream => q[1].chunk < r[i].chunk
    BY <1>5, <1>9, <2>1
  <2>4. more[r[i].stream] < r[i].chunk
    BY <1>2, <1>3, <1>4, <1>7, <2>1, <2>2, <2>3
  <2> QED
    BY <2>2, <2>4
<1>10. ASSUME NEW s \in Streams, NEW n \in more[s] + 1 .. sent[s]
       PROVE  \E i \in 1 .. Len(r) : IsOutput(r[i], s, n)
  <2>1. n \in have[s] + 1 .. sent[s]
    BY <1>3, <1>4
  <2>2. PICK i \in 1 .. Len(q) : IsOutput(q[i], s, n)
    BY <1>6, <2>1
  <2>3. i # 1
    BY <1>3, <1>4, <1>7, <2>2 DEF IsOutput
  <2>4. i - 1 \in 1 .. Len(r) /\ r[i - 1] = q[i]
    BY <1>1, <2>3
  <2> QED
    BY <2>2, <2>4
<1>11. \A s \in Streams : more[s] <= sent[s]
  <2>1. ASSUME q[1].kind = "output"
        PROVE  have[q[1].stream] + 1 <= sent[q[1].stream]
    BY <1>1, <1>5, <1>7, <2>1
  <2> QED
    BY <1>3, <1>4, <2>1
<1> QED
  BY <1>7, <1>8, <1>9, <1>10, <1>11 DEF Numbered, r

LEMMA ChainedAppend ==
  ASSUME NEW q \in Seq(Messages), NEW m \in Messages, NEW p, NEW v, NEW lost, NEW size,
         Chained(q, p, v, lost, size),
         Goes(PhaseAt(q, p, Len(q)), m.kind),
         m.kind = "file" => Leads(SpotAt(q, v, Len(q)), Spot(m), lost, size)
  PROVE  /\ Chained(Append(q, m), p, v, lost, size)
         /\ PhaseAt(Append(q, m), p, Len(Append(q, m))) = m.kind
         /\ SpotAt(Append(q, m), v, Len(Append(q, m))) = Spot(m)
<1> DEFINE r == Append(q, m)
<1>1. /\ Len(q) \in Nat /\ Len(r) = Len(q) + 1
      /\ \A i \in 1 .. Len(q) : r[i] = q[i]
      /\ r[Len(q) + 1] = m
  BY AppendAt
<1> HIDE DEF r
<1>2. \A i \in 0 .. Len(q) : PhaseAt(r, p, i) = PhaseAt(q, p, i) /\ SpotAt(r, v, i) = SpotAt(q, v, i)
  BY <1>1 DEF PhaseAt, SpotAt
<1>3. ASSUME NEW i \in 1 .. Len(r)
      PROVE  /\ Goes(PhaseAt(r, p, i - 1), r[i].kind)
             /\ r[i].kind = "file" => Leads(SpotAt(r, v, i - 1), Spot(r[i]), lost, size)
  <2>1. i - 1 \in 0 .. Len(q)
    BY <1>1
  <2>2. CASE i \in 1 .. Len(q)
    BY <1>1, <1>2, <2>1, <2>2 DEF Chained
  <2>3. CASE i = Len(q) + 1
    BY <1>1, <1>2, <2>1, <2>3
  <2> QED
    BY <1>1, <2>2, <2>3
<1>4. PhaseAt(r, p, Len(r)) = m.kind /\ SpotAt(r, v, Len(r)) = Spot(m)
  BY <1>1 DEF PhaseAt, SpotAt
<1> QED
  BY <1>3, <1>4 DEF Chained, r

LEMMA ChainedTail ==
  ASSUME NEW q \in Seq(Messages), q # <<>>, NEW p, NEW v, NEW lost, NEW size,
         Chained(q, p, v, lost, size)
  PROVE  /\ Goes(p, q[1].kind)
         /\ q[1].kind = "file" => Leads(v, Spot(q[1]), lost, size)
         /\ Chained(Tail(q), q[1].kind, Spot(q[1]), lost, size)
         /\ PhaseAt(Tail(q), q[1].kind, Len(Tail(q))) = PhaseAt(q, p, Len(q))
         /\ SpotAt(Tail(q), Spot(q[1]), Len(Tail(q))) = SpotAt(q, v, Len(q))
<1> DEFINE r == Tail(q)
<1>1. /\ Len(q) \in Nat \ {0} /\ Len(r) = Len(q) - 1
      /\ \A i \in 1 .. Len(r) : r[i] = q[i + 1]
  BY TailAt
<1> HIDE DEF r
<1>2. \A i \in 0 .. Len(r) : /\ PhaseAt(r, q[1].kind, i) = PhaseAt(q, p, i + 1)
                              /\ SpotAt(r, Spot(q[1]), i) = SpotAt(q, v, i + 1)
  BY <1>1 DEF PhaseAt, SpotAt
<1>3. Goes(p, q[1].kind) /\ (q[1].kind = "file" => Leads(v, Spot(q[1]), lost, size))
  <2>1. 1 \in 1 .. Len(q) /\ PhaseAt(q, p, 1 - 1) = p /\ SpotAt(q, v, 1 - 1) = v
    BY <1>1 DEF PhaseAt, SpotAt
  <2> QED
    BY <2>1 DEF Chained
<1>4. ASSUME NEW i \in 1 .. Len(r)
      PROVE  /\ Goes(PhaseAt(r, q[1].kind, i - 1), r[i].kind)
             /\ r[i].kind = "file" => Leads(SpotAt(r, Spot(q[1]), i - 1), Spot(r[i]), lost, size)
  <2>1. i + 1 \in 1 .. Len(q) /\ r[i] = q[i + 1] /\ i - 1 \in 0 .. Len(r) /\ (i - 1) + 1 = (i + 1) - 1
    BY <1>1
  <2>2. /\ PhaseAt(r, q[1].kind, i - 1) = PhaseAt(q, p, (i + 1) - 1)
        /\ SpotAt(r, Spot(q[1]), i - 1) = SpotAt(q, v, (i + 1) - 1)
    BY <1>2, <2>1
  <2> QED
    BY <2>1, <2>2 DEF Chained
<1>5. /\ PhaseAt(r, q[1].kind, Len(r)) = PhaseAt(q, p, Len(q))
      /\ SpotAt(r, Spot(q[1]), Len(r)) = SpotAt(q, v, Len(q))
  <2>1. Len(r) \in 0 .. Len(r) /\ Len(r) + 1 = Len(q)
    BY <1>1
  <2> QED
    BY <1>2, <2>1
<1> QED
  BY <1>3, <1>4, <1>5 DEF Chained, r

(* A chain stays one when more files are lost. *)
LEMMA ChainedMoreLost ==
  ASSUME NEW q, NEW p, NEW v, NEW lost, NEW more, NEW size, lost \subseteq more,
         Chained(q, p, v, lost, size)
  PROVE  Chained(q, p, v, more, size)
BY DEF Chained, Leads

(* Without files it is about phases alone. *)
LEMMA ChainedNoFiles ==
  ASSUME NEW q, NEW p, NEW v, NEW lost, NEW more, NEW size, NEW other,
         \A i \in 1 .. Len(q) : q[i].kind # "file", Chained(q, p, v, lost, size)
  PROVE  Chained(q, p, v, more, other)
BY DEF Chained

-----------------------------------------------------------------------------
(* The steps, as they look from a client that reads *)

Sends(m) ==
    \/ SendStarted /\ m = Started
    \/ (SendOutput \/ SendCompleted) /\ m = outgoing
    \/ SendFileChunk /\ m = NextChunk

Stays == Queue' = Queue /\ Sent' = Sent /\ result' = result

LEMMA ProcessStays ==
  ASSUME Base, Process \/ DeadlinePasses
  PROVE  Stays /\ client' = client
<1>1. UNCHANGED <<executor, events, task, out, caller>>
  BY DEF Process, Write, ClosePipe, Exit, DeadlinePasses
<1> QED
  BY <1>1 DEF Stays, Queue, Pending, Sent, executor, task, caller

Steps ==
    \/ SpawnFails \/ Spawn \/ Terminate \/ Reap \/ (\E s \in Streams : Read(s) \/ ReadEof(s))
    \/ GraceDies \/ GraceKills \/ DetectFails \/ Detect

LEMMA ExecutorSteps ==
  Executor <=> Steps \/ SendOutput \/ SendCompleted
BY DEF Executor, Steps

LEMMA StepsStay ==
  ASSUME Base, Steps
  PROVE  Stays /\ client' = client
<1>1. UNCHANGED <<events, task, out, caller>>
  BY DEF Steps, SpawnFails, Spawn, Terminate, Reap, Read, ReadEof, GraceDies, GraceKills,
         DetectFails, Detect, Verdict
<1>2. Queue' = Queue /\ result' = result /\ client' = client
  BY <1>1 DEF Queue, Pending, task, caller
<1>3. Sent' = Sent
  <2>1. ASSUME NEW s \in Streams, Read(s) PROVE Sent' = Sent
    <3>1. /\ exec # "sending" /\ exec' = "sending" /\ outgoing'.stream = s
          /\ taken'[s] = taken[s] + 1 /\ taken[s] \in Nat
          /\ \A t \in Streams : t # s => taken'[t] = taken[t]
      BY <2>1, OutputKind DEF Read, Base, Typed
    <3>2. taken'[s] - 1 = taken[s]
      BY <3>1
    <3> QED
      BY <3>1, <3>2 DEF Sent
  <2>2. CASE exec # "sending" /\ exec' # "sending" /\ taken' = taken
    BY <2>2 DEF Sent
  <2> QED
    BY <2>1, <2>2 DEF Steps, SpawnFails, Spawn, Terminate, Reap, ReadEof, GraceDies,
       GraceKills, DetectFails, Detect, Verdict
<1> QED
  BY <1>2, <1>3 DEF Stays

LEMMA ExecutorMoves ==
  ASSUME Base, Executor
  PROVE  /\ client' = client
         /\ \/ Stays
            \/ /\ outgoing \in Messages /\ Sends(outgoing)
               /\ Queue' = Append(Queue, outgoing) /\ result' = result
<1>1. CASE Steps
  BY <1>1, StepsStay
<1>2. CASE SendOutput \/ SendCompleted
  <2>1. result' = result /\ client' = client
    BY <1>2 DEF SendOutput, SendCompleted, caller
  <2> QED
    BY <1>2, <2>1, SendAppends DEF Sends
<1> QED
  BY <1>1, <1>2, ExecutorSteps

(* A send reaches the end of the queue. *)
Sending == SendStarted \/ SendOutput \/ SendCompleted \/ SendFileChunk

LEMMA SendingMoves ==
  ASSUME Base, Sending, client = "reading"
  PROVE  /\ client' = client
         /\ \E m \in Messages : Sends(m) /\ Queue' = Append(Queue, m) /\ result' = result
<1>1. CASE SendStarted
  <2>1. /\ run = "starting" /\ exec = "unborn" /\ exec' = "preparing" /\ run' = "receiving"
        /\ events = <<>> /\ ToClient(Started) /\ UNCHANGED <<taken, events, caller>>
    BY <1>1 DEF SendStarted, Base, Ties
  <2>2. Pending = <<>> /\ Pending' = <<>> /\ Started \in Messages
    BY <2>1 DEF Pending, Messages
  <2>3. Queue' = Append(Queue, Started)
    BY <2>1, <2>2, ToClientAppends
  <2>4. result' = result /\ client' = client
    BY <2>1 DEF caller
  <2> QED
    BY <1>1, <2>2, <2>3, <2>4 DEF Sends
<1>2. CASE SendOutput \/ SendCompleted
  <2>1. result' = result /\ client' = client
    BY <1>2 DEF SendOutput, SendCompleted, caller
  <2> QED
    BY <1>2, <2>1, SendAppends DEF Sends
<1>3. CASE SendFileChunk
  <2>1. /\ UNCHANGED <<executor, events, run, caller>> /\ run = "files" /\ events = <<>>
        /\ ToClient(NextChunk)
    BY <1>3 DEF SendFileChunk, NextChunk, Base, Ties, Forwarding
  <2>2. Pending = <<>> /\ Pending' = <<>> /\ events' = <<>>
    BY <2>1 DEF Pending
  <2>3. NextChunk \in Messages /\ Queue' = Append(Queue, NextChunk)
    BY <2>1, <2>2, ChunkMessage, ToClientAppends
  <2>4. result' = result /\ client' = client
    BY <2>1 DEF caller
  <2> QED
    BY <1>3, <2>3, <2>4 DEF Sends
<1> QED
  BY <1>1, <1>2, <1>3 DEF Sending

LEMMA TaskMoves ==
  ASSUME Base, RunTask, client = "reading"
  PROVE  /\ client' = client
         /\ \/ Stays
            \/ \E m \in Messages :
                  Sends(m) /\ Queue' = Append(Queue, m) /\ result' = result
<1>1. CASE SendStarted \/ SendFileChunk
  BY <1>1, SendingMoves DEF Sending
<1>2. CASE Receive
  <2>1. Sent' = Sent /\ result' = result /\ client' = client
    BY <1>2 DEF Receive, Sent, executor, caller
  <2> QED
    BY <1>2, <2>1, ReceiveMoves DEF Stays
<1>3. CASE Forward
  <2>1. Sent' = Sent /\ result' = result /\ client' = client
    BY <1>3 DEF Forward, Sent, executor, caller
  <2> QED
    BY <1>3, <2>1, ForwardMoves DEF Stays
<1>4. CASE EventsClosed \/ FileFails \/ Finish
  <2>1. /\ UNCHANGED <<executor, events, forwarded, out, caller>>
        /\ run # "forwarding" /\ run' # "forwarding"
    BY <1>4 DEF EventsClosed, FileFails, Finish
  <2>2. Stays /\ client' = client
    BY <2>1 DEF Stays, Queue, Pending, Sent, executor, caller
  <2> QED
    BY <2>2
<1> QED
  BY <1>1, <1>2, <1>3, <1>4 DEF RunTask

-----------------------------------------------------------------------------
(* Messages are true, and stay true *)

LEMMA TrueStays ==
  ASSUME Base, Next, exec \in Judging \cup {"returned"}, NEW v, True(v)
  PROVE  exec' \in Judging \cup {"returned"} /\ True(v)'
<1>1. proc # "running" /\ exec \notin {"unborn", "preparing", "selecting", "sending",
                                       "reaping", "terminating"} /\ run # "starting"
  BY DEF Base, Ties, Judging
<1>2. CASE Process \/ DeadlinePasses
  BY <1>1, <1>2 DEF Process, Write, ClosePipe, Exit, DeadlinePasses, True, executor, process
<1>3. CASE Executor
  BY <1>1, <1>3 DEF Executor, SpawnFails, Spawn, Read, ReadEof, SendOutput, Terminate, Reap,
     GraceDies, GraceKills, DetectFails, Detect, SendCompleted, True, process, Judging
<1>4. CASE RunTask
  BY <1>1, <1>4 DEF RunTask, SendStarted, Receive, Forward, EventsClosed, SendFileChunk,
     FileFails, Finish, True, executor, process
<1>5. CASE Client \/ Over
  BY <1>5 DEF Client, Take, Return, Leave, Over, vars, True, executor, process
<1> QED
  BY <1>2, <1>3, <1>4, <1>5 DEF Next

LEMMA ReachedStays ==
  ASSUME Base, Next, NEW v, Reached(v)
  PROVE  Reached(v)'
<1>1. exec' = "returned"
  BY DEF Reached, Next, Process, Write, ClosePipe, Exit, DeadlinePasses, executor, Executor,
     SpawnFails, Spawn, Read, ReadEof, SendOutput, Terminate, Reap, GraceDies, GraceKills,
     DetectFails, Detect, SendCompleted, RunTask, SendStarted, Receive, Forward, EventsClosed,
     SendFileChunk, FileFails, Finish, Client, Take, Return, Leave, Over, vars, Base, Ties
<1> QED
  BY <1>1, TrueStays DEF Reached

(* Once the files are streamed, run_streaming has returned and their sizes *)
(* are fixed.                                                              *)
LEMMA FilesFixed ==
  ASSUME Base, Next, run \notin Forwarding
  PROVE  run' \notin Forwarding /\ sizes' = sizes
<1>1. exec = "returned" /\ events = <<>>
  BY DEF Base, Ties
<1> QED
  BY <1>1 DEF Forwarding, Next, Process, Write, ClosePipe, Exit, DeadlinePasses, task, Executor,
     SpawnFails, Spawn, Read, ReadEof, SendOutput, Terminate, Reap, GraceDies, GraceKills,
     DetectFails, Detect, SendCompleted, RunTask, SendStarted, Receive, Forward, EventsClosed,
     SendFileChunk, FileFails, Finish, Client, Take, Return, Leave, Over, vars

LEMMA SoundStays ==
  ASSUME Base, Next, NEW m, Sound(m)
  PROVE  Sound(m)'
<1>1. m.kind = "completed" => Reached(m.status)'
  BY ReachedStays DEF Sound
<1>2. m.kind = "file" => run' \notin Forwarding /\ ChunkGood(m)'
  BY FilesFixed DEF Sound, ChunkGood, Spot
<1> QED
  BY <1>1, <1>2 DEF Sound

LEMMA NextSpot ==
  ASSUME Base, SendFileChunk
  PROVE  /\ NextChunk.kind = "file" /\ Spot(NextChunk) = at /\ ChunkGood(NextChunk)
         /\ at[1] \in 1 .. Len(sizes) /\ at \in Chunks
<1> DEFINE name == IF at[2] = 1 THEN at[1] ELSE NoName
           data == IF sizes[at[1]] = 0 THEN <<>> ELSE <<at>>
<1>1. /\ at[1] \in Nat \ {0} /\ at[2] \in Nat \ {0} /\ at = <<at[1], at[2]>>
      /\ Len(sizes) \in Nat /\ at[1] <= Len(sizes)
      /\ \A f \in 1 .. Len(sizes) : sizes[f] \in Nat
      /\ at[2] # 1 => at[2] <= sizes[at[1]]
  BY AtRange DEF SendFileChunk, Base, Ties
<1>2. /\ NextChunk.kind = "file" /\ NextChunk.name = name /\ NextChunk.data = data
  BY ChunkKind DEF NextChunk
<1>3. at[1] \in 1 .. Len(sizes) /\ at \in Chunks
  BY <1>1 DEF Chunks
<1>4. Spot(NextChunk) = at
  <2>1. CASE at[2] = 1
    BY <1>1, <1>2, <2>1 DEF Spot, NoName
  <2>2. CASE at[2] # 1
    <3>1. sizes[at[1]] # 0
      BY <1>1, <1>3, <2>2
    <3> QED
      BY <1>2, <2>2, <3>1 DEF Spot, NoName
  <2> QED
    BY <2>1, <2>2
<1>5. ChunkGood(NextChunk)
  BY <1>1, <1>2, <1>3, <1>4 DEF ChunkGood
<1> QED
  BY <1>2, <1>3, <1>4, <1>5

LEMMA SentSound ==
  ASSUME Base, Outgoing, NEW m \in Messages, Sends(m)
  PROVE  Sound(m)'
<1>1. CASE SendStarted /\ m = Started
  BY <1>1 DEF Sound, Started
<1>2. CASE SendOutput /\ m = outgoing
  BY <1>2 DEF SendOutput, Outgoing, Sound
<1>3. CASE SendCompleted /\ m = outgoing
  BY <1>3 DEF SendCompleted, Outgoing, Judging, Sound, Reached, True, process
<1>4. CASE SendFileChunk /\ m = NextChunk
  <2>1. m.kind = "file" /\ ChunkGood(m) /\ run' = run /\ run = "files" /\ sizes' = sizes
    BY <1>4, NextSpot DEF SendFileChunk
  <2> QED
    BY <2>1 DEF Sound, ChunkGood, Spot, Forwarding
<1> QED
  BY <1>1, <1>2, <1>3, <1>4 DEF Sends

LEMMA ReaderStays ==
  ASSUME Base, Next, client' = "reading"
  PROVE  client = "reading" /\ ~Leave /\ ~Return
BY DEF Next, Process, Write, ClosePipe, Exit, DeadlinePasses, caller, Executor,
     SpawnFails, Spawn, Read, ReadEof, SendOutput, Terminate, Reap, GraceDies, GraceKills,
     DetectFails, Detect, SendCompleted, RunTask, SendStarted, Receive, Forward, EventsClosed,
     SendFileChunk, FileFails, Finish, Client, Take, Return, Leave, Over, vars, Verdict

(* For a client that reads, a step leaves the queue as it is, appends a    *)
(* message to it, or takes the first one from it.                          *)
LEMMA StepMoves ==
  ASSUME Base, Next, client' = "reading"
  PROVE  /\ client = "reading"
         /\ \/ Stays
            \/ \E m \in Messages : Sends(m) /\ Queue' = Append(Queue, m) /\ result' = result
            \/ Take
<1>1. client = "reading" /\ ~Leave /\ ~Return
  BY ReaderStays
<1>2. CASE Process \/ DeadlinePasses
  BY <1>1, <1>2, ProcessStays
<1>3. CASE Executor
  BY <1>1, <1>3, ExecutorMoves
<1>4. CASE RunTask
  BY <1>1, <1>4, TaskMoves
<1>5. CASE Client
  BY <1>1, <1>5 DEF Client
<1>6. CASE Over
  BY <1>1, <1>6 DEF Over, vars, Stays, Queue, Pending, Sent, executor, task, caller
<1> QED
  BY <1>2, <1>3, <1>4, <1>5, <1>6 DEF Next

LEMMA MessagesKept ==
  ASSUME Base, Outgoing, MessagesSound, Next
  PROVE  MessagesSound'
<1> SUFFICES ASSUME client' = "reading", NEW m \in InQueue'
             PROVE  Sound(m)'
  BY DEF MessagesSound
<1>1. client = "reading" /\ (m \in InQueue => Sound(m)')
  BY StepMoves, SoundStays DEF MessagesSound
<1>2. Queue \in Seq(Messages)
  BY QueueTyped
<1>3. CASE Queue' = Queue
  BY <1>1, <1>3 DEF InQueue
<1>4. ASSUME NEW n \in Messages, Sends(n), Queue' = Append(Queue, n)
      PROVE  Sound(m)'
  <2>1. m \in InQueue \/ m = n
    BY <1>2, <1>4, AppendAt DEF InQueue
  <2> QED
    BY <1>1, <1>4, <2>1, SentSound
<1>5. CASE Take
  <2>1. Queue # <<>> /\ Queue' = Tail(Queue)
    BY <1>5, TakeRemoves
  <2>2. \A i \in 1 .. Len(Tail(Queue)) : Tail(Queue)[i] = Queue[i + 1] /\ i + 1 \in 1 .. Len(Queue)
    BY <1>2, <2>1, TailAt
  <2>3. m \in InQueue
    BY <2>1, <2>2 DEF InQueue
  <2> QED
    BY <1>1, <2>3
<1> QED
  BY <1>3, <1>4, <1>5, StepMoves DEF Stays

-----------------------------------------------------------------------------
(* Output *)

LEMMA EventParts ==
  ASSUME NEW e \in Events
  PROVE  /\ e.kind = "output" => e.stream \in Streams /\ e.chunk \in 1 .. MaxWrites
         /\ e.kind = "completed" => e.status \in Statuses
<1>1. ASSUME NEW s \in Streams, NEW n \in 1 .. MaxWrites, e = Output(s, n)
      PROVE  e.kind = "output" /\ e.stream \in Streams /\ e.chunk \in 1 .. MaxWrites
  BY <1>1, OutputKind
<1>2. ASSUME NEW v \in Statuses, e = Completed(v) PROVE e.kind = "completed" /\ e.status \in Statuses
  BY <1>2, CompletedKind
<1>3. Nothing.kind = "nothing"
  BY DEF Nothing
<1> QED
  BY <1>1, <1>2, <1>3 DEF Events

LEMMA OutgoingKept ==
  ASSUME Base, Outgoing, Next
  PROVE  Outgoing'
<1>1. ASSUME NEW s \in Streams, Read(s) PROVE Outgoing'
  <2>1. /\ exec' = "sending" /\ outgoing'.kind = "output" /\ outgoing'.stream = s
        /\ outgoing'.chunk = taken[s] + 1 /\ taken'[s] = taken[s] + 1
    BY <1>1, OutputKind DEF Read, Base, Typed
  <2> QED
    BY <2>1 DEF Outgoing, Judging
<1>2. ASSUME NEW v, Verdict(v), True(v)' PROVE Outgoing'
  <2>1. exec' = "detecting" /\ outgoing'.kind = "completed" /\ outgoing'.status = v
    BY <1>2, CompletedKind DEF Verdict
  <2> QED
    BY <1>2, <2>1 DEF Outgoing, Judging
<1>3. CASE Reap
  <2> PICK v : v = IF proc = "exited" THEN "completed" ELSE "signaled"
    OBVIOUS
  <2>1. /\ Verdict(v) /\ UNCHANGED <<process, eof>> /\ proc \in Ended
        /\ exec = "reaping" /\ eof = Streams /\ ~termed
    BY <1>3 DEF Reap, Verdict, Base, Ties, Judging
  <2>2. True(v)'
    BY <2>1 DEF True, process, Ended
  <2> QED
    BY <1>2, <2>1, <2>2
<1>4. CASE GraceDies \/ GraceKills
  <2>1. Verdict("timed_out") /\ proc' \in Ended /\ expired'
    BY <1>4 DEF GraceDies, GraceKills, Verdict, Base, Ties, Ended, process
  <2> QED
    BY <1>2, <2>1 DEF True
<1>5. ASSUME UNCHANGED <<taken, outgoing>>, exec' = "sending" => exec = "sending",
             exec' \in Judging => exec \in Judging
      PROVE  Outgoing'
  <2>1. exec' = "sending" => exec = "sending"
    BY <1>5
  <2>2. exec' \in Judging => exec \in Judging
    BY <1>5
  <2>3. ASSUME exec' \in Judging PROVE outgoing'.kind = "completed" /\ True(outgoing.status)'
    <3>1. outgoing.kind = "completed" /\ True(outgoing.status) /\ outgoing' = outgoing
      BY <1>5, <2>2, <2>3 DEF Outgoing
    <3>2. ASSUME NEW v, v = outgoing.status PROVE True(v)'
      BY <2>2, <2>3, <3>1, <3>2, TrueStays
    <3>3. True(outgoing.status)'
      BY <3>1, <3>2 DEF True
    <3> QED
      BY <3>1, <3>3
  <2> QED
    BY <1>5, <2>1, <2>3 DEF Outgoing, True
<1>6. ASSUME exec' \notin {"sending"} \cup Judging PROVE Outgoing'
  BY <1>6 DEF Outgoing
<1>7. CASE Process \/ DeadlinePasses \/ Client \/ Over
  BY <1>5, <1>7 DEF Process, Write, ClosePipe, Exit, DeadlinePasses, Client, Take, Return, Leave,
     Over, vars, executor
<1>8. CASE RunTask
  BY <1>5, <1>6, <1>8 DEF RunTask, SendStarted, Receive, Forward, EventsClosed, SendFileChunk,
     FileFails, Finish, executor, Judging
<1>9. CASE SpawnFails \/ Spawn \/ Terminate \/ (\E s \in Streams : ReadEof(s)) \/ SendOutput
           \/ SendCompleted \/ DetectFails
  BY <1>6, <1>9 DEF SpawnFails, Spawn, Terminate, ReadEof, SendOutput, SendCompleted,
     DetectFails, Judging
<1>10. CASE Detect
    BY <1>5, <1>10 DEF Detect, Judging
<1> QED
  BY <1>1, <1>3, <1>4, <1>7, <1>8, <1>9, <1>10 DEF Next, Executor

LEMMA CountsTyped ==
  ASSUME Base, Outgoing
  PROVE  Have \in Counts /\ Sent \in Counts
<1>1. \A s \in Streams : Len(result.parts[s]) \in Nat
  BY LenProperties DEF Base, Typed, Results
<1>2. ASSUME NEW s \in Streams, exec = "sending", outgoing.stream = s
      PROVE  taken[s] - 1 \in Nat
  <2>1. taken[s] \in 1 .. MaxWrites
    BY <1>2, EventParts DEF Base, TypeOK, Outgoing
  <2> QED
    BY <2>1, Bounds
<1>3. \A s \in Streams : taken[s] \in Nat
  BY DEF Base, Typed
<1> QED
  BY <1>1, <1>2, <1>3 DEF Have, Sent, Counts

LEMMA AssembledOther ==
  ASSUME NEW r \in Results, NEW m \in Messages, m.kind # "output"
  PROVE  /\ Assembled(r, m).parts = r.parts
         /\ Assembled(r, m).status = IF m.kind = "completed" THEN m.status ELSE r.status
<1>1. CASE m.kind = "started"
  BY <1>1, AssembledStarted
<1>2. CASE m.kind = "completed"
  BY <1>2, AssembledCompleted
<1>3. CASE m.kind = "file" /\ m.name # NoName
  BY <1>3, AssembledNamed
<1>4. CASE m.kind = "file" /\ m.name = NoName
  BY <1>4, AssembledUnnamed
<1> QED
  BY <1>1, <1>2, <1>3, <1>4, MessageKinds

LEMMA TakeParts ==
  ASSUME Base, Take
  PROVE  LET m == Head(out)
         IN  /\ m.kind = "output" =>
                  result'.parts = [result.parts EXCEPT ![m.stream] = Append(@, m.chunk)]
             /\ m.kind # "output" => result'.parts = result.parts
             /\ m.kind # "completed" => result'.status = result.status
             /\ m.kind = "completed" => result'.status = m.status
             /\ Have' = IF m.kind = "output" THEN [Have EXCEPT ![m.stream] = @ + 1] ELSE Have
<1> DEFINE m == Head(out)
<1>1. m \in Messages /\ result \in Results /\ result' = Assembled(result, m)
  BY TakeFacts
<1> HIDE DEF m
<1>2. CASE m.kind = "output"
  <2>1. /\ result'.parts = [result.parts EXCEPT ![m.stream] = Append(@, m.chunk)]
        /\ result'.status = result.status /\ m.stream \in Streams
    BY <1>1, <1>2, AssembledOutput, MessageKinds
  <2>2. \A s \in Streams : result.parts[s] \in Seq(Nat) /\ m.chunk \in Nat
    BY <1>1, <1>2, MessageKinds DEF Results
  <2>3. /\ DOMAIN result.parts = Streams
        /\ \A s \in Streams : result'.parts[s] =
              IF s = m.stream THEN Append(result.parts[s], m.chunk) ELSE result.parts[s]
    BY <1>1, <2>1 DEF Results
  <2>4. ASSUME NEW s \in Streams
        PROVE  Len(result'.parts[s]) =
                  IF s = m.stream THEN Len(result.parts[s]) + 1 ELSE Len(result.parts[s])
    <3>1. Len(Append(result.parts[s], m.chunk)) = Len(result.parts[s]) + 1
      BY <2>2, AppendProperties
    <3> QED
      BY <2>3, <3>1
  <2>5. Have' = [Have EXCEPT ![m.stream] = @ + 1]
    BY <2>1, <2>4 DEF Have
  <2> QED
    BY <1>2, <2>1, <2>5 DEF m
<1>3. CASE m.kind # "output"
  <2>1. result'.parts = result.parts
    BY <1>1, <1>3, AssembledOther
  <2>2. result'.status = IF m.kind = "completed" THEN m.status ELSE result.status
    BY <1>1, <1>3, AssembledOther
  <2>3. Have' = Have
    BY <2>1 DEF Have
  <2> QED
    BY <1>3, <2>1, <2>2, <2>3 DEF m
<1> QED
  BY <1>2, <1>3

LEMMA TakeCounts ==
  ASSUME Base, Take
  PROVE  Have' \in Counts
<1>1. result' \in Results
  BY TakeFacts
<1>2. \A s \in Streams : Len(result'.parts[s]) \in Nat
  BY <1>1, LenProperties DEF Results
<1> QED
  BY <1>2 DEF Have, Counts

LEMMA OutputsKept ==
  ASSUME Base, Outgoing, MessagesSound, OutputsQueued, Next
  PROVE  OutputsQueued'
<1> SUFFICES ASSUME client' = "reading"
             PROVE  Numbered(Queue', Have', Sent') /\ \A s \in Streams : Have'[s] <= Sent'[s]
  BY DEF OutputsQueued
<1>1. /\ client = "reading" /\ Numbered(Queue, Have, Sent)
      /\ \A s \in Streams : Have[s] <= Sent[s]
  BY StepMoves DEF OutputsQueued
<1>2. Queue \in Seq(Messages) /\ Have \in Counts /\ Sent \in Counts
  BY QueueTyped, CountsTyped
<1>3. CASE Stays
  <2>1. Have' = Have
    BY <1>3 DEF Stays, Have
  <2> QED
    BY <1>1, <1>3, <2>1 DEF Stays
<1>4. ASSUME NEW m \in Messages, Sends(m), Queue' = Append(Queue, m), result' = result
      PROVE  Numbered(Queue', Have', Sent') /\ \A s \in Streams : Have'[s] <= Sent'[s]
  <2>1. Have' = Have
    BY <1>4 DEF Have
  <2>2. CASE ~SendOutput
    <3>1. m.kind # "output" /\ exec # "sending" /\ exec' # "sending" /\ taken' = taken
      BY <1>4, <2>2, NextSpot DEF Sends, SendStarted, Started, SendCompleted, SendFileChunk,
         Outgoing, Judging, Base, Ties, Forwarding, executor
    <3>2. Sent' = Sent
      BY <3>1 DEF Sent
    <3> QED
      BY <1>1, <1>2, <1>4, <2>1, <3>1, <3>2, NumberedOther
  <2>3. CASE SendOutput
    <3>1. /\ m = outgoing /\ m.kind = "output" /\ m.chunk = taken[m.stream]
          /\ exec = "sending" /\ exec' # "sending" /\ taken' = taken
      BY <1>4, <2>3 DEF Sends, SendStarted, SendCompleted, SendFileChunk, SendOutput, Outgoing,
         Base, Ties, Forwarding
    <3>2. /\ m.stream \in Streams /\ taken[m.stream] \in Nat
      BY <3>1, MessageKinds DEF Base, Typed
    <3>3. /\ m.chunk = Sent[m.stream] + 1
          /\ \A s \in Streams : s # m.stream => Sent[s] = taken[s]
      BY <3>1, <3>2 DEF Sent
    <3>4. Sent' = taken /\ taken \in Counts
      BY <3>1 DEF Sent, Base, Typed, Counts
    <3>5. Sent' = [Sent EXCEPT ![m.stream] = m.chunk]
      BY <1>2, <3>1, <3>3, <3>4 DEF Counts
    <3>6. \A i \in 1 .. Len(Queue) : Queue[i].kind \in {"started", "output"}
      <4>1. ASSUME NEW i \in 1 .. Len(Queue)
            PROVE  Queue[i].kind \in {"started", "output"}
        <5>1. Sound(Queue[i])
          BY <1>1 DEF MessagesSound, InQueue
        <5>2. Queue[i].kind \in {"started", "output", "completed", "file"}
          BY <1>2, MessageAt, MessageKinds
        <5> QED
          BY <3>1, <5>1, <5>2 DEF Sound, Reached, Base, Ties
      <4> QED
        BY <4>1
    <3>7. ASSUME NEW s \in Streams PROVE Have[s] <= Sent'[s]
      <4>1. Have[s] <= Sent[s] /\ Have[s] \in Nat /\ Sent[s] \in Nat
        BY <1>1, <1>2 DEF Counts
      <4>2. Sent'[s] = Sent[s] \/ Sent'[s] = Sent[s] + 1
        BY <1>2, <3>3, <3>5 DEF Counts
      <4> QED
        BY <4>1, <4>2
    <3>8. Numbered(Append(Queue, m), Have, Sent')
      BY <1>1, <1>2, <3>1, <3>2, <3>3, <3>4, <3>5, <3>6, NumberedOutput
    <3> QED
      BY <1>4, <2>1, <3>7, <3>8
  <2> QED
    BY <2>2, <2>3
<1>5. CASE Take
  <2>1. Queue # <<>> /\ Queue[1] = Head(out) /\ Queue' = Tail(Queue) /\ Sent' = Sent
    BY <1>5, TakeRemoves DEF Take, Sent, executor
  <2>2. Have' = IF Queue[1].kind = "output" THEN [Have EXCEPT ![Queue[1].stream] = @ + 1] ELSE Have
    BY <1>5, <2>1, TakeParts
  <2>3. Have' \in Counts
    BY <1>5, TakeCounts
  <2> QED
    BY <1>1, <1>2, <2>1, <2>2, <2>3, NumberedTail
<1> QED
  BY <1>3, <1>4, <1>5, StepMoves

LEMMA ResultStays ==
  ASSUME Base, Next, ~Take
  PROVE  /\ result'.parts = result.parts /\ result'.status = result.status
         /\ result'.current = result.current /\ result'.data = result.data
         /\ result'.phase = result.phase
<1>1. CASE Return
  BY <1>1, ReturnFacts
<1>2. CASE ~Return
  <2>1. result' = result
    BY <1>2 DEF Next, Process, Write, ClosePipe, Exit, DeadlinePasses, caller, Executor,
     SpawnFails, Spawn, Read, ReadEof, SendOutput, Terminate, Reap, GraceDies, GraceKills,
     DetectFails, Detect, SendCompleted, RunTask, SendStarted, Receive, Forward, EventsClosed,
     SendFileChunk, FileFails, Finish, Client, Leave, Over, vars, Verdict
  <2> QED
    BY <2>1
<1> QED
  BY <1>1, <1>2

(* What the client takes from the queue. *)
LEMMA FirstTaken ==
  ASSUME Base, Outgoing, MessagesSound, OutputsQueued, Take
  PROVE  LET m == Head(out)
         IN  /\ m \in Messages /\ m \in InQueue /\ Sound(m)
             /\ m.kind = "output" => m.stream \in Streams /\ m.chunk = Have[m.stream] + 1
             /\ m.kind = "completed" => Have = taken
             /\ \A s \in Streams : Have'[s] <= taken[s]
<1> DEFINE m == Head(out)
<1>1. client = "reading" /\ Queue # <<>> /\ Queue[1] = m /\ m \in Messages
  BY TakeRemoves, TakeFacts DEF Take
<1>2. Queue \in Seq(Messages) /\ Have \in Counts /\ Sent \in Counts /\ taken \in Counts
  BY QueueTyped, CountsTyped DEF Base, Typed, Counts
<1>3. Have' = IF m.kind = "output" THEN [Have EXCEPT ![m.stream] = @ + 1] ELSE Have
  BY TakeParts
<1> HIDE DEF m
<1>4. 1 \in 1 .. Len(Queue)
  BY <1>1, <1>2, TailAt
<1>5. m \in InQueue /\ Sound(m)
  BY <1>1, <1>4 DEF InQueue, MessagesSound
<1>6. Numbered(Queue, Have, Sent) /\ \A s \in Streams : Have[s] <= Sent[s]
  BY <1>1 DEF OutputsQueued
<1>7. Have' \in Counts
  BY TakeCounts
<1>8. /\ m.kind = "output" => m.chunk = Have[m.stream] + 1
      /\ m.kind = "completed" => Have = Sent
      /\ \A s \in Streams : Have'[s] <= Sent[s]
  BY <1>1, <1>2, <1>3, <1>6, <1>7, NumberedTail
<1>9. \A s \in Streams : Sent[s] <= taken[s]
  BY <1>2 DEF Sent, Counts
<1>10. m.kind = "completed" => Sent = taken
  BY <1>2, <1>5 DEF Sound, Reached, Sent, Counts
<1>11. \A s \in Streams : Have'[s] <= taken[s]
  BY <1>2, <1>7, <1>8, <1>9 DEF Counts
<1> QED
  BY <1>1, <1>5, <1>8, <1>10, <1>11, MessageKinds DEF m

LEMMA VerdictKept ==
  ASSUME Base, Outgoing, MessagesSound, OutputsQueued, VerdictTrue, Next
  PROVE  VerdictTrue'
<1>1. ASSUME NEW v, Reached(v), result'.status = v PROVE VerdictTrue'
  BY <1>1, ReachedStays DEF VerdictTrue, Reached, True
<1>2. CASE Take /\ Head(out).kind = "completed"
  <2> PICK v : v = Head(out).status
    OBVIOUS
  <2>1. Reached(v) /\ result'.status = v
    BY <1>2, FirstTaken, TakeParts DEF Sound, Reached, True
  <2> QED
    BY <1>1, <2>1
<1>3. CASE ~(Take /\ Head(out).kind = "completed")
  <2>1. result'.status = result.status
    BY <1>3, ResultStays, TakeParts
  <2> PICK v : v = result.status
    OBVIOUS
  <2>2. CASE v = "unspecified"
    BY <2>1, <2>2 DEF VerdictTrue
  <2>3. CASE v # "unspecified"
    <3>1. Reached(v)
      BY <2>3 DEF VerdictTrue
    <3> QED
      BY <1>1, <2>1, <3>1
  <2> QED
    BY <2>2, <2>3
<1> QED
  BY <1>2, <1>3

LEMMA PartsKept ==
  ASSUME Base, Outgoing, MessagesSound, OutputsQueued, VerdictTrue, PartsInOrder, Next
  PROVE  PartsInOrder'
<1>1. /\ \A s \in Streams : result.parts[s] \in Seq(Nat) /\ Have[s] = Len(result.parts[s])
      /\ \A s \in Streams : taken[s] \in Nat /\ Have[s] \in Nat
  BY CountsTyped DEF Base, Typed, Results, Have, Counts
<1>2. CASE Take
  <2> DEFINE m == Head(out)
  <2>1. /\ m.kind = "output" => m.stream \in Streams /\ m.chunk = Have[m.stream] + 1
        /\ m.kind = "completed" => Have = taken
        /\ \A s \in Streams : Have'[s] <= taken[s]
    BY <1>2, FirstTaken
  <2>2. /\ m.kind = "output" =>
                  result'.parts = [result.parts EXCEPT ![m.stream] = Append(@, m.chunk)]
        /\ m.kind # "output" => result'.parts = result.parts
        /\ m.kind # "completed" => result'.status = result.status
        /\ Have' = IF m.kind = "output" THEN [Have EXCEPT ![m.stream] = @ + 1] ELSE Have
    BY <1>2, TakeParts
  <2>3. taken' = taken /\ Have' = [s \in Streams |-> Len(result'.parts[s])]
    BY <1>2 DEF Take, executor, Have
  <2> HIDE DEF m
  <2>4. ASSUME NEW s \in Streams, m.kind = "output", m.stream = s
        PROVE  /\ \A i \in DOMAIN result'.parts[s] : result'.parts[s][i] = i
               /\ result'.status \notin {"completed", "signaled"}
    <3>1. result'.parts[s] = Append(result.parts[s], Len(result.parts[s]) + 1)
      <4>1. result.parts \in [Streams -> Seq(Nat)]
        BY DEF Base, Typed, Results
      <4>2. result'.parts = [result.parts EXCEPT ![s] = Append(result.parts[s], Have[s] + 1)]
        BY <2>1, <2>2, <2>4
      <4> QED
        BY <1>1, <4>1, <4>2
    <3>2. \A i \in 1 .. Len(result.parts[s]) : result.parts[s][i] = i
      BY <1>1, LenProperties DEF PartsInOrder
    <3>3. \A i \in DOMAIN result'.parts[s] : result'.parts[s][i] = i
      BY <1>1, <3>1, <3>2, AppendProperties, LenProperties
    <3>4. Have'[s] = Have[s] + 1
      BY <2>2, <2>4 DEF Have
    <3>5. Have[s] # taken[s]
      BY <1>1, <2>1, <3>4
    <3>6. result.status \notin {"completed", "signaled"}
      BY <1>1, <3>5 DEF PartsInOrder
    <3> QED
      BY <2>2, <2>4, <3>3, <3>6
  <2>5. ASSUME NEW s \in Streams, ~(m.kind = "output" /\ m.stream = s)
        PROVE  result'.parts[s] = result.parts[s]
    BY <2>2, <2>5 DEF Base, Typed, Results
  <2>6. ASSUME NEW s \in Streams
        PROVE  /\ \A i \in DOMAIN result'.parts[s] : result'.parts[s][i] = i
               /\ Len(result'.parts[s]) <= taken'[s]
               /\ result'.status \in {"completed", "signaled"} => Len(result'.parts[s]) = taken'[s]
    <3>1. Len(result'.parts[s]) <= taken'[s]
      BY <2>1, <2>3
    <3>2. CASE m.kind = "output" /\ m.stream = s
      BY <2>4, <3>1, <3>2
    <3>3. CASE ~(m.kind = "output" /\ m.stream = s)
      BY <1>1, <2>1, <2>2, <2>3, <2>5, <3>1, <3>3 DEF PartsInOrder
    <3> QED
      BY <3>2, <3>3
  <2> QED
    BY <2>6 DEF PartsInOrder
<1>3. CASE ~Take
  <2>1. result'.parts = result.parts /\ result'.status = result.status
    BY <1>3, ResultStays
  <2>2. ASSUME NEW s \in Streams
        PROVE  taken'[s] \in Nat /\ taken[s] <= taken'[s] /\ (exec = "returned" => taken'[s] = taken[s])
    <3>1. ASSUME NEW t \in Streams, Read(t) PROVE taken'[s] \in Nat /\ taken[s] <= taken'[s] /\ exec # "returned"
      BY <1>1, <3>1 DEF Read, Base, Typed
    <3>2. CASE taken' = taken
      BY <1>1, <3>2
    <3> QED
      BY <3>1, <3>2 DEF Next, Process, Write, ClosePipe, Exit, DeadlinePasses, executor, Executor,
     SpawnFails, Spawn, ReadEof, SendOutput, Terminate, Reap, GraceDies, GraceKills,
     DetectFails, Detect, SendCompleted, RunTask, SendStarted, Receive, Forward, EventsClosed,
     SendFileChunk, FileFails, Finish, Client, Take, Return, Leave, Over, vars, Verdict
  <2>3. result.status \in {"completed", "signaled"} => exec = "returned"
    BY DEF VerdictTrue, Reached
  <2> QED
    BY <1>1, <2>1, <2>2, <2>3 DEF PartsInOrder, Have
<1> QED
  BY <1>2, <1>3

-----------------------------------------------------------------------------
(* Files *)

LEMMA SpotTyped ==
  ASSUME Base
  PROVE  /\ result.current \in Nat /\ result.data \in Seq(Chunks) /\ Len(result.data) \in Nat
         /\ result.current = NoName => ClientSpot[1] = 0 /\ ClientSpot[2] = 0
         /\ result.current # NoName =>
               /\ ClientSpot[1] = result.current
               /\ ClientSpot[2] = (IF result.data = <<>> THEN 1 ELSE Len(result.data))
               /\ ClientSpot[2] \in Nat \ {0}
<1>1. result.current \in Nat /\ result.data \in Seq(Chunks) /\ Len(result.data) \in Nat
  BY LenProperties DEF Base, Typed, Results
<1>2. result.data # <<>> => Len(result.data) # 0
  BY <1>1, EmptySeq
<1> QED
  BY <1>1, <1>2 DEF ClientSpot

(* The file the client is at is whole when its last chunk has come. *)
LEMMA CurrentWhole ==
  ASSUME Base, FilesKept, result.current # NoName, ClientSpot[2] >= sizes[result.current]
  PROVE  result.data = Whole(result.current)
<1>1. /\ Len(result.data) \in Nat /\ result.current \in 1 .. Len(sizes)
      /\ ClientSpot[2] = (IF result.data = <<>> THEN 1 ELSE Len(result.data))
  BY SpotTyped, KeptDomain DEF FilesKept
<1>2. sizes[result.current] \in Nat
  BY <1>1, AtRange
<1>3. Len(result.data) = sizes[result.current]
  <2>1. CASE result.data = <<>>
    BY <2>1 DEF FilesKept
  <2>2. CASE result.data # <<>>
    BY <1>1, <1>2, <2>2 DEF FilesKept
  <2> QED
    BY <2>1, <2>2
<1> QED
  BY <1>3 DEF FilesKept, Prefix, Whole

(* When the next chunk is the first one of file n, those before it that    *)
(* are not lost are complete.                                              *)
LEMMA BeforeWhole ==
  ASSUME Base, FilesKept, NEW n \in Nat, n > ClientSpot[1],
         ClientSpot[1] = 0 \/ ClientSpot[1] \in broken \/ ClientSpot[2] >= sizes[ClientSpot[1]],
         \A f \in ClientSpot[1] + 1 .. n - 1 : f \in broken,
         NEW f \in 1 .. Len(sizes), f < n, f \notin broken
  PROVE  f \in DOMAIN KeepFile(result) /\ KeepFile(result)[f] = Whole(f)
<1>1. ClientSpot[1] = result.current /\ result.current \in Nat /\ f \in Nat /\ result \in Results
  <2>1. result \in Results
    BY DEF Base, Typed
  <2>2. ClientSpot[1] = result.current /\ result.current \in Nat
    BY SpotTyped DEF NoName
  <2> QED
    BY <2>1, <2>2
<1>2. f <= result.current
  <2>1. CASE f > result.current
    <3>1. f \in ClientSpot[1] + 1 .. n - 1
      BY <1>1, <2>1
    <3> QED
      BY <3>1
  <2> QED
    BY <1>1, <2>1
<1>3. result.current # NoName
  BY <1>1, <1>2 DEF NoName
<1>4. CASE f < result.current
  <2>1. Kept(f) /\ f # result.current
    BY <1>1, <1>4 DEF FilesKept
  <2> QED
    BY <1>1, <1>3, <2>1, KeptFiles DEF Kept
<1>5. CASE f = result.current
  <2>1. result.data = Whole(f)
    BY <1>1, <1>3, <1>5, CurrentWhole DEF NoName
  <2> QED
    BY <1>1, <1>3, <1>5, <2>1, KeptFiles
<1> QED
  BY <1>1, <1>2, <1>4, <1>5

LEMMA ChunkParts ==
  ASSUME Base, NEW m \in Messages, m.kind = "file", ChunkGood(m)
  PROVE  /\ Spot(m) = <<Spot(m)[1], Spot(m)[2]>>
         /\ Spot(m)[1] \in 1 .. Len(sizes) /\ Spot(m)[2] \in Nat \ {0}
         /\ sizes[Spot(m)[1]] \in Nat
         /\ m.name # NoName =>
               /\ Spot(m)[1] = m.name /\ Spot(m)[2] = 1
               /\ m.data = (IF sizes[m.name] = 0 THEN <<>> ELSE <<Spot(m)>>)
         /\ m.name = NoName =>
               /\ Spot(m)[2] # 1 /\ Spot(m)[2] <= sizes[Spot(m)[1]]
               /\ m.data = <<Spot(m)>>
<1> DEFINE w == Spot(m)
<1>1. /\ w \in Chunks /\ w[1] \in 1 .. Len(sizes) /\ w[2] # 0
      /\ w[2] = 1 \/ w[2] <= sizes[w[1]]
      /\ m.name = (IF w[2] = 1 THEN w[1] ELSE NoName)
      /\ m.data = (IF sizes[w[1]] = 0 THEN <<>> ELSE <<w>>)
  BY DEF ChunkGood
<1>2. m.name # NoName => w = <<m.name, 1>>
  BY DEF Spot
<1> HIDE DEF w
<1>3. w = <<w[1], w[2]>> /\ w[2] \in Nat \ {0} /\ w[1] # 0 /\ sizes[w[1]] \in Nat
  BY <1>1, AtRange DEF Chunks
<1>4. m.name = NoName => w[2] # 1 /\ sizes[w[1]] # 0
  BY <1>1, <1>3 DEF NoName
<1> QED
  BY <1>1, <1>2, <1>3, <1>4 DEF w

(* What a first or a later chunk of a file makes of the client's files. *)
LEMMA NamedTaken ==
  ASSUME Base, FilesKept, Take, NEW m \in Messages, m = Head(out), m.kind = "file",
         m.name # NoName, run \notin Forwarding, ChunkGood(m),
         Leads(ClientSpot, Spot(m), broken, sizes)
  PROVE  FilesKept' /\ ClientSpot' = Spot(m)
<1> DEFINE n == m.name
<1>1. /\ Spot(m) = <<Spot(m)[1], Spot(m)[2]>> /\ Spot(m)[1] = n /\ Spot(m)[2] = 1
      /\ n \in 1 .. Len(sizes) /\ sizes[n] \in Nat
      /\ m.data = (IF sizes[n] = 0 THEN <<>> ELSE <<Spot(m)>>)
  BY ChunkParts
<1>2. /\ Spot(m) = <<n, 1>> /\ n \in 1 .. Len(sizes) /\ n \in Nat \ {0} /\ sizes[n] \in Nat
      /\ Len(sizes) \in Nat
      /\ m.data = (IF sizes[n] = 0 THEN <<>> ELSE <<Spot(m)>>)
  BY <1>1, AtRange
<1>3. /\ result'.phase = "file" /\ result'.files = KeepFile(result)
      /\ result'.current = n /\ result'.data = m.data /\ result' \in Results
  BY TakeFacts, AssembledNamed
<1>4. UNCHANGED <<sizes, broken, run>>
  BY DEF Take, task
<1> HIDE DEF n
<1>5. /\ n > ClientSpot[1]
      /\ ClientSpot[1] = 0 \/ ClientSpot[1] \in broken \/ ClientSpot[2] >= sizes[ClientSpot[1]]
      /\ \A f \in ClientSpot[1] + 1 .. n - 1 : f \in broken
  <2>1. ~(n = ClientSpot[1] /\ 1 = ClientSpot[2] + 1)
    BY <1>2, SpotTyped
  <2> QED
    BY <1>2, <2>1 DEF Leads
<1>6. \A f \in 1 .. Len(sizes) : f < n /\ f \notin broken => Kept(f)'
  BY <1>2, <1>3, <1>4, <1>5, BeforeWhole DEF Kept, Whole
<1>7. /\ Len(m.data) = (IF sizes[n] = 0 THEN 0 ELSE 1)
      /\ m.data = Prefix(n, Len(m.data))
      /\ Len(m.data) <= sizes[n]
      /\ m.data = <<>> => sizes[n] = 0
  <2>1. CASE sizes[n] = 0
    BY <1>2, <2>1 DEF Prefix
  <2>2. CASE sizes[n] # 0
    <3>1. m.data = <<Spot(m)>> /\ Len(m.data) = 1 /\ m.data # <<>>
      <4>1. \A x : Len(<<x>>) = 1 /\ <<x>> # <<>>
        OBVIOUS
      <4>2. m.data = <<Spot(m)>>
        BY <1>2, <2>2
      <4> QED
        BY <4>1, <4>2
    <3>2. Prefix(n, 1) = <<<<n, 1>>>>
      BY DEF Prefix
    <3>3. m.data = Prefix(n, Len(m.data))
      BY <1>2, <3>1, <3>2
    <3>4. 1 <= sizes[n]
      BY <1>2, <2>2
    <3> QED
      BY <2>2, <3>1, <3>3, <3>4
  <2> QED
    BY <2>1, <2>2
<1>8. FilesKept'
  BY <1>2, <1>3, <1>4, <1>6, <1>7 DEF FilesKept, NoName
<1>9. ClientSpot' = <<n, 1>>
  BY <1>2, <1>3, <1>7 DEF ClientSpot, NoName
<1> QED
  BY <1>2, <1>8, <1>9

LEMMA UnnamedTaken ==
  ASSUME Base, FilesKept, Take, NEW m \in Messages, m = Head(out), m.kind = "file",
         m.name = NoName, run \notin Forwarding, ChunkGood(m),
         Leads(ClientSpot, Spot(m), broken, sizes)
  PROVE  FilesKept' /\ ClientSpot' = Spot(m)
<1> DEFINE w == Spot(m)
           c == result.current
           d == result.data
<1>1. /\ w = <<w[1], w[2]>> /\ w[1] \in 1 .. Len(sizes) /\ w[2] \in Nat \ {0}
      /\ w[2] # 1 /\ w[2] <= sizes[w[1]] /\ m.data = <<w>> /\ Len(sizes) \in Nat
      /\ sizes[w[1]] \in Nat
  BY ChunkParts, AtRange
<1>2. /\ result'.phase = "file" /\ result'.files = result.files
      /\ result'.current = c /\ result'.data = d \o m.data
  <2>1. result \in Results /\ result' = Assembled(result, m)
    BY TakeFacts
  <2> QED
    BY <2>1, AssembledUnnamed
<1>3. UNCHANGED <<sizes, broken, run>>
  BY DEF Take, task
<1>4. w \in Chunks /\ d \in Seq(Chunks) /\ Len(d) \in Nat
  BY SpotTyped DEF ChunkGood
<1>5. w[1] = ClientSpot[1] /\ w[2] = ClientSpot[2] + 1
  BY <1>1 DEF Leads
<1> HIDE DEF w
<1>6. c # NoName /\ w[1] = c
  BY <1>1, <1>5, SpotTyped
<1>7. d # <<>> /\ w = <<c, Len(d) + 1>>
  <2>1. d = <<>> => sizes[c] = 0
    BY <1>6 DEF FilesKept
  <2>2. ClientSpot[2] = (IF d = <<>> THEN 1 ELSE Len(d))
    BY <1>6, SpotTyped
  <2>3. d # <<>>
    BY <1>1, <1>5, <1>6, <2>1, <2>2
  <2> QED
    BY <1>1, <1>5, <1>6, <2>2, <2>3
<1>8. /\ result'.data = Append(d, w) /\ Len(result'.data) = Len(d) + 1
      /\ result'.data \in Seq(Chunks)
      /\ \A k \in 1 .. Len(d) : result'.data[k] = d[k]
      /\ result'.data[Len(d) + 1] = w
  BY <1>1, <1>2, <1>4, AppendIsConcat, AppendProperties
<1>9. d = Prefix(c, Len(d)) /\ Len(d) <= sizes[c]
  BY <1>6 DEF FilesKept
<1> HIDE DEF d, c
<1>10. result'.data = Prefix(c, Len(d) + 1)
  <2>1. ASSUME NEW k \in 1 .. Len(d) + 1 PROVE result'.data[k] = <<c, k>>
    <3>1. CASE k \in 1 .. Len(d)
      BY <1>8, <1>9, <3>1 DEF Prefix
    <3>2. CASE k = Len(d) + 1
      BY <1>7, <1>8, <3>2
    <3> QED
      BY <1>4, <3>1, <3>2
  <2>2. result'.data = [k \in 1 .. Len(d) + 1 |-> result'.data[k]]
    BY <1>8, LenProperties
  <2> QED
    BY <2>1, <2>2 DEF Prefix
<1>11. Len(d) + 1 <= sizes[c]
  BY <1>1, <1>6, <1>7
<1>12. result'.data # <<>>
  BY <1>4, <1>8
<1>13. FilesKept'
  <2>1. \A f \in 1 .. Len(sizes) : f < c /\ f \notin broken => Kept(f)'
    BY <1>2, <1>3 DEF FilesKept, Kept, Whole, c
  <2> QED
    BY <1>2, <1>3, <1>6, <1>8, <1>10, <1>11, <1>12, <2>1 DEF FilesKept, c
<1>14. ClientSpot' = <<c, Len(d) + 1>>
  BY <1>2, <1>6, <1>8, <1>12 DEF ClientSpot
<1> QED
  BY <1>7, <1>13, <1>14 DEF w

LEMMA OtherTaken ==
  ASSUME Base, FilesKept, Take, NEW m \in Messages, m = Head(out), m.kind # "file",
         Goes(result.phase, m.kind)
  PROVE  FilesKept' /\ ClientSpot' = Spot(m)
<1>1. /\ result'.phase # "file" /\ result'.files = result.files
      /\ result'.current = result.current /\ result'.data = result.data
  <2>1. m.kind \in {"started", "output", "completed"}
    BY MessageKinds
  <2>2. result \in Results /\ result' = Assembled(result, m)
    BY TakeFacts
  <2>3. CASE m.kind = "started"
    BY <2>2, <2>3, AssembledStarted
  <2>4. CASE m.kind = "output"
    BY <2>2, <2>4, AssembledOutput
  <2>5. CASE m.kind = "completed"
    BY <2>2, <2>5, AssembledCompleted
  <2> QED
    BY <2>1, <2>3, <2>4, <2>5
<1>2. UNCHANGED <<sizes, broken, run>>
  BY DEF Take, task
<1>3. result.current = NoName
  <2>1. m.kind \in {"started", "output", "completed"}
    BY MessageKinds
  <2> QED
    BY <2>1 DEF Goes, FilesKept
<1>4. FilesKept'
  BY <1>1, <1>2, <1>3 DEF FilesKept, Kept, Whole
<1>5. ClientSpot' = <<0, 0>> /\ Spot(m) = <<0, 0>>
  BY <1>1, <1>3 DEF ClientSpot, Spot
<1> QED
  BY <1>4, <1>5

LEMMA TakePhase ==
  ASSUME Base, Take
  PROVE  result'.phase = Head(out).kind
<1> PICK m : m = Head(out)
  OBVIOUS
<1>1. m \in Messages /\ result \in Results /\ result' = Assembled(result, m)
  BY TakeFacts
<1>2. CASE m.kind = "started"
  BY <1>1, <1>2, AssembledStarted
<1>3. CASE m.kind = "output"
  BY <1>1, <1>3, AssembledOutput
<1>4. CASE m.kind = "completed"
  BY <1>1, <1>4, AssembledCompleted
<1>5. CASE m.kind = "file" /\ m.name # NoName
  BY <1>1, <1>5, AssembledNamed
<1>6. CASE m.kind = "file" /\ m.name = NoName
  BY <1>1, <1>6, AssembledUnnamed
<1> QED
  BY <1>1, <1>2, <1>3, <1>4, <1>5, <1>6, MessageKinds

(* The first message of the queue may follow what the client has, and      *)
(* leaves it where the message is.                                         *)
LEMMA TakeFollows ==
  ASSUME Base, MessagesSound, Trail, FilesKept, Take
  PROVE  LET m == Head(out)
         IN  /\ Goes(result.phase, m.kind) /\ result'.phase = m.kind
             /\ FilesKept' /\ ClientSpot' = Spot(m)
             /\ Chained(Queue', m.kind, Spot(m), broken, sizes)
             /\ PhaseAt(Queue', m.kind, Len(Queue')) = PhaseAt(Queue, result.phase, Len(Queue))
             /\ SpotAt(Queue', Spot(m), Len(Queue')) = SpotAt(Queue, ClientSpot, Len(Queue))
<1> PICK m : m = Head(out)
  OBVIOUS
<1>1. /\ client = "reading" /\ m \in Messages /\ Queue # <<>> /\ Queue[1] = m
      /\ Queue' = Tail(Queue) /\ Queue \in Seq(Messages) /\ result'.phase = m.kind
  BY TakeRemoves, TakeFacts, TakePhase, QueueTyped DEF Take
<1>2. Sound(m)
  BY <1>1, TailAt DEF MessagesSound, InQueue
<1>3. Chained(Queue, result.phase, ClientSpot, broken, sizes)
  BY <1>1 DEF Trail
<1>4. /\ Goes(result.phase, m.kind)
      /\ m.kind = "file" => Leads(ClientSpot, Spot(m), broken, sizes)
      /\ Chained(Queue', m.kind, Spot(m), broken, sizes)
      /\ PhaseAt(Queue', m.kind, Len(Queue')) = PhaseAt(Queue, result.phase, Len(Queue))
      /\ SpotAt(Queue', Spot(m), Len(Queue')) = SpotAt(Queue, ClientSpot, Len(Queue))
  BY <1>1, <1>3, ChainedTail
<1>5. FilesKept' /\ ClientSpot' = Spot(m)
  <2>1. CASE m.kind = "file" /\ m.name # NoName
    BY <1>1, <1>2, <1>4, <2>1, NamedTaken DEF Sound
  <2>2. CASE m.kind = "file" /\ m.name = NoName
    BY <1>1, <1>2, <1>4, <2>2, UnnamedTaken DEF Sound
  <2>3. CASE m.kind # "file"
    BY <1>1, <1>4, <2>3, OtherTaken
  <2> QED
    BY <2>1, <2>2, <2>3
<1> QED
  BY <1>1, <1>4, <1>5

LEMMA LastPhaseStays ==
  ASSUME Base, Next, ~SendStarted, ~SendCompleted, NEW p, LastPhase(p)
  PROVE  LastPhase(p)'
<1>1. run' = "starting" => run = "starting"
  BY DEF Next, Process, Write, ClosePipe, Exit, DeadlinePasses, task, Executor,
     SpawnFails, Spawn, Read, ReadEof, SendOutput, Terminate, Reap, GraceDies, GraceKills,
     DetectFails, Detect, SendCompleted, RunTask, Receive, Forward, EventsClosed,
     SendFileChunk, FileFails, Finish, Client, Take, Return, Leave, Over, vars, Verdict
<1>2. exec' \notin {"unborn", "returned"} => exec \notin {"unborn", "returned"}
  BY DEF Next, Process, Write, ClosePipe, Exit, DeadlinePasses, executor, Executor,
     SpawnFails, Spawn, Read, ReadEof, SendOutput, Terminate, Reap, GraceDies, GraceKills,
     DetectFails, Detect, SendCompleted, RunTask, Receive, Forward, EventsClosed,
     SendFileChunk, FileFails, Finish, Client, Take, Return, Leave, Over, vars, Verdict
<1>3. exec' = "returned" /\ sizes' # <<>> => exec = "returned" /\ sizes # <<>>
  BY DEF Next, Process, Write, ClosePipe, Exit, DeadlinePasses, executor, Executor,
     SpawnFails, Spawn, Read, ReadEof, SendOutput, Terminate, Reap, GraceDies, GraceKills,
     DetectFails, Detect, SendCompleted, RunTask, Receive, Forward, EventsClosed,
     SendFileChunk, FileFails, Finish, Client, Take, Return, Leave, Over, vars, Verdict,
     Base, Ties
<1> QED
  BY <1>1, <1>2, <1>3 DEF LastPhase

LEMMA SentGoes ==
  ASSUME Base, Outgoing, NEW m \in Messages, Sends(m), NEW p, LastPhase(p)
  PROVE  Goes(p, m.kind) /\ LastPhase(m.kind)'
<1>1. CASE SendStarted /\ m = Started
  BY <1>1 DEF SendStarted, Started, LastPhase, Goes
<1>2. CASE SendOutput /\ m = outgoing
  BY <1>2 DEF SendOutput, Outgoing, LastPhase, Goes, task, Base, Ties
<1>3. CASE SendCompleted /\ m = outgoing
  BY <1>3 DEF SendCompleted, Outgoing, Judging, LastPhase, Goes, task, Base, Ties
<1>4. CASE SendFileChunk /\ m = NextChunk
  <2>1. m.kind = "file" /\ at[1] \in 1 .. Len(sizes) /\ run = "files" /\ UNCHANGED <<run, exec, sizes>>
    BY <1>4, NextSpot DEF SendFileChunk, executor
  <2>2. sizes # <<>> /\ exec = "returned"
    BY <2>1 DEF Base, Ties, Forwarding
  <2> QED
    BY <2>1, <2>2 DEF LastPhase, Goes
<1> QED
  BY <1>1, <1>2, <1>3, <1>4 DEF Sends

(* From nowhere the first chunk is next; and one chunk after the other.    *)
LEMMA SentLeads ==
  ASSUME Base, Outgoing, NEW m \in Messages, Sends(m), NEW v, Leads(v, at, broken, sizes)
  PROVE  /\ m.kind = "file" => Leads(v, Spot(m), broken, sizes)
         /\ Leads(Spot(m), at', broken', sizes')
         /\ broken' = broken /\ sizes' = sizes
<1>1. CASE m.kind # "file"
  <2>1. UNCHANGED <<at, broken, sizes>> /\ run \in Forwarding
    BY <1>1, NextSpot DEF Sends, SendStarted, SendOutput, SendCompleted, SendFileChunk, task,
       Base, Ties, Forwarding
  <2>2. at = <<1, 1>>
    BY <2>1 DEF Base, Ties
  <2> QED
    BY <1>1, <2>1, <2>2 DEF Spot, Leads
<1>2. CASE m.kind = "file"
  <2>1. SendFileChunk /\ m = NextChunk
    BY <1>2 DEF Sends, Outgoing, Judging, SendStarted, Started, SendOutput, SendCompleted
  <2>2. Spot(m) = at /\ at[1] \in 1 .. Len(sizes) /\ UNCHANGED <<broken, sizes>>
    BY <2>1, NextSpot DEF SendFileChunk
  <2>3. at[1] \in Nat /\ at[2] \in Nat /\ sizes[at[1]] \in Nat
    BY <2>2, AtRange
  <2>4. at' = IF at[2] < sizes[at[1]] THEN <<at[1], at[2] + 1>> ELSE <<at[1] + 1, 1>>
    BY <2>1 DEF SendFileChunk, NextFile
  <2>5. Leads(at, at', broken, sizes)
    BY <2>3, <2>4 DEF Leads
  <2> QED
    BY <2>2, <2>5
<1> QED
  BY <1>1, <1>2

LEMMA FailureLeads ==
  ASSUME Base, FileFails, NEW v \in Chunks, Leads(v, at, broken, sizes)
  PROVE  Leads(v, at', broken', sizes')
<1>1. /\ at[1] \in Nat /\ v[1] \in Nat /\ at' = <<at[1] + 1, 1>>
      /\ broken' = broken \cup {at[1]} /\ sizes' = sizes
  BY AtRange, AtMoves DEF FileFails, Chunks
<1>2. v[1] <= at[1] /\ at'[1] = at[1] + 1 /\ at'[2] = 1
  BY <1>1 DEF Leads
<1>3. v[1] = 0 \/ v[1] \in broken' \/ v[2] >= sizes[v[1]]
  BY <1>1 DEF Leads
<1>4. ASSUME NEW f \in v[1] + 1 .. at'[1] - 1 PROVE f \in broken'
  <2>1. CASE f = at[1]
    BY <1>1, <2>1
  <2>2. CASE f # at[1]
    <3>1. f \in v[1] + 1 .. at[1] - 1 /\ at[1] # v[1]
      BY <1>1, <1>2, <2>2
    <3> QED
      BY <1>1, <3>1 DEF Leads
  <2> QED
    BY <2>1, <2>2
<1> QED
  BY <1>1, <1>2, <1>3, <1>4 DEF Leads

LEMMA LastSpotTyped ==
  ASSUME Base, MessagesSound, client = "reading"
  PROVE  /\ SpotAt(Queue, ClientSpot, Len(Queue)) \in Chunks
         /\ run \in Forwarding => \A i \in 1 .. Len(Queue) : Queue[i].kind # "file"
<1>1. Queue \in Seq(Messages) /\ Len(Queue) \in Nat /\ \A i \in 1 .. Len(Queue) : Sound(Queue[i])
  BY QueueTyped DEF MessagesSound, InQueue
<1>2. ClientSpot \in Chunks
  BY SpotTyped DEF ClientSpot, Chunks
<1>3. ASSUME NEW i \in 1 .. Len(Queue) PROVE Spot(Queue[i]) \in Chunks
  <2>1. CASE Queue[i].kind = "file"
    BY <1>1, <2>1 DEF Sound, ChunkGood
  <2>2. CASE Queue[i].kind # "file"
    BY <2>2 DEF Spot, Chunks
  <2> QED
    BY <2>1, <2>2
<1> QED
  BY <1>1, <1>2, <1>3 DEF SpotAt, Sound

(* Any other step of which a reading client takes no message. *)
LEMMA QuietMoves ==
  ASSUME Base, Next, ~Sending, ~Take, client' = "reading"
  PROVE  client = "reading" /\ Stays
BY StepMoves DEF Sends, Sending

LEMMA TrailKept ==
  ASSUME Base, Outgoing, MessagesSound, FilesKept, Trail, Next
  PROVE  Trail'
<1> SUFFICES ASSUME client' = "reading"
             PROVE  /\ Chained(Queue', result'.phase, ClientSpot', broken', sizes')
                    /\ LastPhase(PhaseAt(Queue, result.phase, Len(Queue)))'
                    /\ Leads(SpotAt(Queue', ClientSpot', Len(Queue')), at', broken', sizes')
  BY DEF Trail
<1>1. client = "reading"
  BY StepMoves
<1> PICK p : p = PhaseAt(Queue, result.phase, Len(Queue))
  OBVIOUS
<1> PICK v : v = SpotAt(Queue, ClientSpot, Len(Queue))
  OBVIOUS
<1>2. /\ Chained(Queue, result.phase, ClientSpot, broken, sizes)
      /\ LastPhase(p) /\ Leads(v, at, broken, sizes)
  BY <1>1 DEF Trail
<1>3. ASSUME NEW q, LastPhase(q)', PhaseAt(Queue', result'.phase, Len(Queue')) = q
      PROVE  LastPhase(PhaseAt(Queue, result.phase, Len(Queue)))'
  BY <1>3 DEF LastPhase
<1>4. CASE Sending
  <2>1. PICK m \in Messages : Sends(m) /\ Queue' = Append(Queue, m) /\ result' = result
    BY <1>1, <1>4, SendingMoves
  <2>2. ClientSpot' = ClientSpot
    BY <2>1 DEF ClientSpot
  <2>3. Goes(p, m.kind) /\ LastPhase(m.kind)'
    BY <1>2, <2>1, SentGoes
  <2>4. /\ m.kind = "file" => Leads(v, Spot(m), broken, sizes)
        /\ Leads(Spot(m), at', broken', sizes')
        /\ broken' = broken /\ sizes' = sizes
    BY <1>2, <2>1, SentLeads
  <2>5. Queue \in Seq(Messages)
    BY QueueTyped
  <2>6. /\ Chained(Queue', result'.phase, ClientSpot', broken', sizes')
        /\ PhaseAt(Queue', result'.phase, Len(Queue')) = m.kind
        /\ SpotAt(Queue', ClientSpot', Len(Queue')) = Spot(m)
    BY <1>2, <2>1, <2>2, <2>3, <2>4, <2>5, ChainedAppend
  <2> PICK k : k = m.kind
    OBVIOUS
  <2>7. LastPhase(PhaseAt(Queue, result.phase, Len(Queue)))'
    BY <1>3, <2>3, <2>6
  <2> QED
    BY <2>4, <2>6, <2>7
<1>5. CASE ~Sending
  <2>1. LastPhase(p)'
    BY <1>2, <1>5, LastPhaseStays DEF Sending
  <2>2. CASE Take
    <3>1. UNCHANGED <<at, broken, sizes>>
      BY <2>2 DEF Take, task
    <3>2. /\ result'.phase = Head(out).kind /\ ClientSpot' = Spot(Head(out))
          /\ Chained(Queue', result'.phase, ClientSpot', broken', sizes')
          /\ PhaseAt(Queue', result'.phase, Len(Queue')) = p
          /\ SpotAt(Queue', ClientSpot', Len(Queue')) = v
      BY <2>2, <3>1, TakeFollows
    <3> QED
      BY <1>2, <1>3, <2>1, <3>1, <3>2
  <2>3. CASE ~Take
    <3>1. Queue' = Queue /\ result' = result /\ ClientSpot' = ClientSpot
      BY <1>5, <2>3, QuietMoves DEF Stays, ClientSpot
    <3>2. /\ PhaseAt(Queue', result'.phase, Len(Queue')) = p
          /\ SpotAt(Queue', ClientSpot', Len(Queue')) = v
      BY <3>1
    <3>3. LastPhase(PhaseAt(Queue, result.phase, Len(Queue)))'
      BY <1>3, <2>1, <3>2
    <3>4. CASE UNCHANGED <<at, broken, sizes>>
      BY <1>2, <3>1, <3>2, <3>3, <3>4
    <3>5. CASE FileFails
      <4>1. v \in Chunks
        BY <1>1, LastSpotTyped
      <4>2. Leads(v, at', broken', sizes')
        BY <1>2, <3>5, <4>1, FailureLeads
      <4>3. sizes' = sizes /\ broken \subseteq broken'
        BY <3>5 DEF FileFails
      <4>4. Chained(Queue, result.phase, ClientSpot, broken', sizes)
        BY <1>2, <4>3, ChainedMoreLost
      <4> QED
        BY <3>1, <3>2, <3>3, <4>2, <4>3, <4>4
    <3>6. CASE Detect
      <4>1. /\ run \in Forwarding /\ UNCHANGED <<at, broken>> /\ at = <<1, 1>>
        BY <3>6 DEF Detect, task, Base, Ties
      <4>2. result.current = NoName /\ \A i \in 1 .. Len(Queue) : Queue[i].kind # "file"
        BY <1>1, <4>1, LastSpotTyped DEF FilesKept
      <4>3. v = <<0, 0>>
        <5>1. ClientSpot = <<0, 0>>
          BY <4>2 DEF ClientSpot
        <5>2. Len(Queue) # 0 => Len(Queue) \in 1 .. Len(Queue)
          BY QueueTyped
        <5> QED
          BY <4>2, <5>1, <5>2 DEF SpotAt, Spot
      <4>4. Leads(v, at', broken', sizes')
        BY <4>1, <4>3 DEF Leads
      <4>5. Chained(Queue, result.phase, ClientSpot, broken', sizes')
        BY <1>2, <4>2, ChainedNoFiles
      <4> QED
        BY <3>1, <3>2, <3>3, <4>4, <4>5
    <3> QED
      BY <1>5, <2>3, <3>4, <3>5, <3>6, ReaderStays DEF Sending, Next, Process, Write, ClosePipe,
         Exit, DeadlinePasses, task, Executor, SpawnFails, Spawn, Read, ReadEof, Terminate, Reap,
         GraceDies, GraceKills, DetectFails, RunTask, Receive, Forward, EventsClosed, Finish,
         Client, Over, vars, Verdict
  <2> QED
    BY <2>2, <2>3
<1> QED
  BY <1>4, <1>5

LEMMA FilesStay ==
  ASSUME Base, MessagesSound, Trail, FilesKept, Next
  PROVE  FilesKept'
<1>1. CASE Take
  BY <1>1, TakeFollows
<1>2. CASE Return
  <2>1. /\ result'.files = KeepFile(result) /\ result'.current = result.current
        /\ result'.data = result.data /\ result'.phase = result.phase
        /\ UNCHANGED <<run, sizes, broken>> /\ result \in Results
    BY <1>2, ReturnFacts DEF Return, task, Base, Typed
  <2>2. result.current = NoName => KeepFile(result) = result.files
    BY <2>1, KeptFiles
  <2>3. ASSUME NEW f \in 1 .. Len(sizes), f < result.current, f \notin broken
        PROVE  Kept(f)'
    <3>1. Kept(f) /\ f # result.current /\ result.current # NoName
      BY <2>3, SpotTyped, AtRange DEF FilesKept, NoName
    <3>2. f \in DOMAIN KeepFile(result) /\ KeepFile(result)[f] = Whole(f)
      BY <2>1, <3>1, KeptFiles DEF Kept
    <3> QED
      BY <2>1, <3>2 DEF Kept, Whole
  <2> QED
    BY <2>1, <2>2, <2>3 DEF FilesKept
<1>3. CASE ~Take /\ ~Return
  <2>1. result' = result /\ broken \subseteq broken'
    BY <1>3 DEF Next, Process, Write, ClosePipe, Exit, DeadlinePasses, caller, task, Executor,
     SpawnFails, Spawn, Read, ReadEof, SendOutput, Terminate, Reap, GraceDies, GraceKills,
     DetectFails, Detect, SendCompleted, RunTask, SendStarted, Receive, Forward, EventsClosed,
     SendFileChunk, FileFails, Finish, Client, Leave, Over, vars, Verdict
  <2>2. CASE run \notin Forwarding
    <3>1. run' \notin Forwarding /\ sizes' = sizes
      BY <2>2, FilesFixed
    <3> QED
      BY <2>1, <2>2, <3>1 DEF FilesKept, Kept, Whole
  <2>3. CASE run \in Forwarding
    <3>1. result.current = NoName /\ NoName = 0
      BY <2>3 DEF FilesKept, NoName
    <3>2. Len(sizes') \in Nat
      <4>1. sizes' \in Seq(Nat)
        <5>1. CASE Detect
          BY <5>1, Bounds DEF Detect
        <5>2. CASE ~Detect
          BY <1>3, <5>2 DEF Next, Process, Write, ClosePipe, Exit, DeadlinePasses, Executor,
             SpawnFails, Spawn, Read, ReadEof, SendOutput, Terminate, Reap, GraceDies,
             GraceKills, DetectFails, SendCompleted, RunTask, SendStarted, Receive, Forward,
             EventsClosed, SendFileChunk, FileFails, Finish, Client, Leave, Over, vars,
             Verdict, Base, Typed
        <5> QED
          BY <5>1, <5>2
      <4> QED
        BY <4>1, LenProperties
    <3>3. \A f \in 1 .. Len(sizes') : ~(f < 0)
      BY <3>2
    <3> QED
      BY <2>1, <3>1, <3>2, <3>3 DEF FilesKept
  <2> QED
    BY <2>2, <2>3
<1> QED
  BY <1>1, <1>2, <1>3

LEMMA ArrivedKept ==
  ASSUME Base, Trail, FilesKept, Arrived, Next
  PROVE  Arrived'
<1> SUFFICES ASSUME client' = "done"
             PROVE  run' = "over" /\ \A f \in 1 .. Len(sizes') \ broken' : Kept(f)'
  BY DEF Arrived
<1>1. CASE Return
  <2>1. /\ client = "reading" /\ out = <<>> /\ run = "over" /\ events = <<>>
        /\ at[1] > Len(sizes) /\ UNCHANGED <<run, sizes, broken>>
    BY <1>1 DEF Return, task, Base, Ties, Forwarding
  <2>2. Queue = <<>> /\ Len(Queue) = 0
    BY <2>1, ConcatEmptySeq DEF Queue, Pending, Base, Typed
  <2>3. Leads(ClientSpot, at, broken, sizes)
    BY <2>1, <2>2 DEF Trail, SpotAt
  <2>4. /\ at[1] \in Nat /\ Len(sizes) \in Nat /\ result.current \in Nat
        /\ ClientSpot[1] = result.current
    BY AtRange, SpotTyped DEF NoName
  <2>5. at[1] # ClientSpot[1]
    BY <2>1, <2>4 DEF FilesKept
  <2>6. ASSUME NEW f \in 1 .. Len(sizes), f \notin broken
        PROVE  Kept(f)'
    <3>1. f \in DOMAIN KeepFile(result) /\ KeepFile(result)[f] = Whole(f)
      BY <2>1, <2>3, <2>4, <2>5, <2>6, BeforeWhole DEF Leads
    <3> QED
      BY <1>1, <2>1, <3>1, ReturnFacts DEF Kept, Whole
  <2> QED
    BY <2>1, <2>6
<1>2. CASE ~Return
  <2>1. client = "done"
    BY <1>2 DEF Next, Process, Write, ClosePipe, Exit, DeadlinePasses, caller, Executor,
     SpawnFails, Spawn, Read, ReadEof, SendOutput, Terminate, Reap, GraceDies, GraceKills,
     DetectFails, Detect, SendCompleted, RunTask, SendStarted, Receive, Forward, EventsClosed,
     SendFileChunk, FileFails, Finish, Client, Take, Leave, Over, vars, Verdict
  <2>2. run = "over" /\ \A f \in 1 .. Len(sizes) \ broken : Kept(f)
    BY <2>1 DEF Arrived
  <2>3. UNCHANGED <<run, broken, result>>
    BY <1>2, <2>1, <2>2 DEF Next, Process, Write, ClosePipe, Exit, DeadlinePasses, caller, task,
     Executor, SpawnFails, Spawn, Read, ReadEof, SendOutput, Terminate, Reap, GraceDies,
     GraceKills, DetectFails, Detect, SendCompleted, RunTask, SendStarted, Receive, Forward,
     EventsClosed, SendFileChunk, FileFails, Finish, Client, Take, Leave, Over, vars, Verdict
  <2>4. sizes' = sizes
    BY <2>2, FilesFixed DEF Forwarding
  <2> QED
    BY <2>2, <2>3, <2>4 DEF Kept, Whole
<1> QED
  BY <1>1, <1>2

-----------------------------------------------------------------------------
(* The whole specification *)

LEMMA StreamInit == Init => StreamInv
<1> SUFFICES ASSUME Init PROVE StreamInv
  OBVIOUS
<1>1. /\ result.parts = [s \in Streams |-> <<>>] /\ result.status = "unspecified"
      /\ result.files = [f \in {} |-> <<>>] /\ result.current = 0 /\ result.data = <<>>
      /\ result.phase = "none"
  BY DEF Init, NoName
<1>2. DOMAIN result.files = {} /\ \A s \in Streams : result.parts[s] = <<>>
  BY <1>1
<1>3. Pending = <<>> /\ Queue = <<>>
  BY ConcatEmptySeq DEF Init, Pending, Queue
<1>4. Typed
  <2>1. result \in Results
    <3>1. [f \in {} |-> <<>>] \in UNION {[S -> Seq(Chunks)] : S \in SUBSET Nat}
      <4>1. [f \in {} |-> <<>>] \in [{} -> Seq(Chunks)]
        OBVIOUS
      <4> QED
        BY <4>1
    <3>2. [s \in Streams |-> <<>>] \in [Streams -> Seq(Nat)]
      OBVIOUS
    <3> QED
      BY <3>1, <3>2 DEF Init, Results, NoName
  <2>2. written \in [Streams -> Nat] /\ taken \in [Streams -> Nat]
    BY DEF Init
  <2>3. /\ out \in Seq(Messages) /\ events \in Seq(Messages) /\ sizes \in Seq(Nat)
    BY EmptySeq DEF Init
  <2>4. at \in (Nat \ {0}) \X (Nat \ {0}) /\ broken \subseteq Nat
    BY DEF Init
  <2>5. termed \in BOOLEAN /\ expired \in BOOLEAN
    BY DEF Init
  <2> QED
    BY <2>1, <2>2, <2>3, <2>4, <2>5 DEF Typed
<1>5. TypeOK
  BY <1>2, Capacities, Bounds DEF Init, TypeOK, Nothing, Events
<1>6. Ties
  BY DEF Init, Ties, AtWork, Judging, Forwarding, Nothing
<1>7. Outgoing /\ MessagesSound
  BY <1>3 DEF Init, Outgoing, Judging, MessagesSound, InQueue
<1>8. OutputsQueued
  <2>1. \A s \in Streams : Have[s] = 0 /\ Sent[s] = 0
    BY <1>2 DEF Init, Have, Sent
  <2> QED
    BY <1>3, <2>1 DEF OutputsQueued, Numbered
<1>9. Trail
  <2>1. ClientSpot = <<0, 0>>
    BY <1>1 DEF ClientSpot, NoName
  <2>2. Len(Queue) = 0
    BY <1>3
  <2>3. Chained(Queue, result.phase, ClientSpot, broken, sizes)
    BY <2>2 DEF Chained
  <2>4. LastPhase(PhaseAt(Queue, result.phase, Len(Queue)))
    BY <1>1, <2>2 DEF Init, LastPhase, PhaseAt
  <2>5. Leads(<<0, 0>>, at, broken, sizes)
    BY DEF Init, Leads
  <2> QED
    BY <2>1, <2>2, <2>3, <2>4, <2>5 DEF Trail, SpotAt
<1>10. VerdictTrue /\ PartsInOrder
  BY <1>1, <1>2 DEF Init, VerdictTrue, PartsInOrder
<1>11. FilesKept /\ Arrived
  BY <1>1, <1>2 DEF Init, FilesKept, NoName, Arrived
<1> QED
  BY <1>4, <1>5, <1>6, <1>7, <1>8, <1>9, <1>10, <1>11 DEF StreamInv

LEMMA BaseKept ==
  ASSUME Base, FilesKept, Next
  PROVE  Base'
<1>1. CASE Over
  BY <1>1 DEF Over, vars, Base, TypeOK, Typed, Ties, process, executor, task, caller
<1> QED
  BY <1>1, BaseProcess, BaseExecutor, BaseTask, BaseClient DEF Next

(* The inductive invariant of a Run: how its process, run_streaming and    *)
(* its task go together, and that what is on its way to the client         *)
(* continues what the client has.                                          *)
THEOREM StreamInvariant == Spec => []StreamInv
<1>1. StreamInv /\ [Next]_vars => StreamInv'
  <2> SUFFICES ASSUME StreamInv, [Next]_vars PROVE StreamInv'
    OBVIOUS
  <2>1. CASE Next
    <3>1. /\ Base /\ Outgoing /\ MessagesSound /\ OutputsQueued /\ Trail /\ VerdictTrue
          /\ PartsInOrder /\ FilesKept /\ Arrived
      BY DEF StreamInv, Base
    <3>2. Base'
      BY <2>1, <3>1, BaseKept
    <3>3. Outgoing' /\ MessagesSound' /\ OutputsQueued'
      BY <2>1, <3>1, OutgoingKept, MessagesKept, OutputsKept
    <3>4. VerdictTrue' /\ PartsInOrder'
      BY <2>1, <3>1, VerdictKept, PartsKept
    <3>5. Trail' /\ FilesKept' /\ Arrived'
      BY <2>1, <3>1, TrailKept, FilesStay, ArrivedKept
    <3> QED
      BY <3>2, <3>3, <3>4, <3>5 DEF StreamInv, Base
  <2>2. CASE UNCHANGED vars
    <3>1. UNCHANGED <<Queue, InQueue, Have, Sent, ClientSpot>>
      BY <2>2 DEF vars, executor, task, caller, Queue, Pending, InQueue, Have, Sent, ClientSpot
    <3>2. (TypeOK /\ Typed /\ Ties /\ Outgoing /\ VerdictTrue /\ PartsInOrder)'
      BY <2>2 DEF StreamInv, vars, process, executor, task, caller, TypeOK, Typed, Ties,
         Outgoing, True, VerdictTrue, Reached, PartsInOrder
    <3>3. (MessagesSound /\ OutputsQueued)'
      BY <2>2, <3>1 DEF StreamInv, vars, process, executor, task, caller, MessagesSound, Sound,
         Reached, True, ChunkGood, OutputsQueued
    <3>4. (Trail /\ FilesKept /\ Arrived)'
      BY <2>2, <3>1 DEF StreamInv, vars, executor, task, caller, Trail, LastPhase, FilesKept,
         Arrived, Kept, Whole
    <3> QED
      BY <3>2, <3>3, <3>4 DEF StreamInv
  <2> QED
    BY <2>1, <2>2
<1> QED
  BY StreamInit, <1>1, PTL DEF Spec

(* A Run's state is well typed for channels of any capacity, and no        *)
(* channel is over it.                                                     *)
THEOREM StreamTypes == Spec => []TypeOK
<1>1. StreamInv => TypeOK
  BY DEF StreamInv
<1> QED
  BY StreamInvariant, <1>1, PTL

(* The client gets what the process wrote to each of its pipes, in order,  *)
(* and all of it when the process is said to have ended by itself.         *)
THEOREM OutputsAreFaithful == Spec => []OutputFaithful
<1>1. StreamInv => OutputFaithful
  <2> SUFFICES ASSUME StreamInv, NEW s \in Streams
               PROVE  /\ \A i \in DOMAIN result.parts[s] : result.parts[s][i] = i
                      /\ Len(result.parts[s]) <= written[s]
                      /\ result.status \in {"completed", "signaled"} =>
                             Len(result.parts[s]) = written[s]
    BY DEF OutputFaithful
  <2>1. /\ taken[s] \in Nat /\ written[s] \in Nat /\ taken[s] <= written[s]
        /\ Len(result.parts[s]) \in Nat
    BY LenProperties DEF StreamInv, Typed, TypeOK, Results
  <2>2. result.status \in {"completed", "signaled"} => taken[s] = written[s]
    BY DEF StreamInv, VerdictTrue, Reached, True, Ties
  <2> QED
    BY <2>1, <2>2 DEF StreamInv, PartsInOrder
<1> QED
  BY StreamInvariant, <1>1, PTL

(* The status the client sees is how the process ended.                    *)
THEOREM StatusesAreTruthful == Spec => []StatusTruthful
<1>1. StreamInv => StatusTruthful
  BY DEF StreamInv, VerdictTrue, Reached, True, StatusTruthful
<1> QED
  BY StreamInvariant, <1>1, PTL

(* The exec_lock is held until the process is gone.                        *)
THEOREM LockIsHeld == Spec => []LockOutlivesProcess
<1>1. StreamInv => LockOutlivesProcess
  BY DEF StreamInv, Ties, Forwarding, LockOutlivesProcess
<1> QED
  BY StreamInvariant, <1>1, PTL

(* A client that reads to the end has every output file that was streamed, *)
(* complete.                                                               *)
THEOREM FilesAreWhole == Spec => []FilesWhole
<1>1. StreamInv => FilesWhole
  BY DEF StreamInv, Arrived, Kept, FilesWhole
<1> QED
  BY StreamInvariant, <1>1, PTL

(* What the client sees of a Run is what the protocol promises.            *)
THEOREM ImplementsRunContract == Spec => KeepsRunContract
<1>1. Init => Contract!Init
  BY DEF Init, Contract!Init
<1>2. StreamInv /\ [Next]_vars => [Contract!Next]_<<result.phase, result.status>>
  <2> SUFFICES ASSUME StreamInv, [Next]_vars
               PROVE  [Contract!Next]_<<result.phase, result.status>>
    OBVIOUS
  <2>1. Base /\ Outgoing /\ MessagesSound /\ OutputsQueued /\ Trail /\ FilesKept
    BY DEF StreamInv, Base
  <2>2. CASE Take
    <3> PICK m : m = Head(out)
      OBVIOUS
    <3>1. m \in Messages /\ Goes(result.phase, m.kind) /\ result'.phase = m.kind
      BY <2>1, <2>2, TakeFollows, TakeFacts
    <3>2. result'.status = IF m.kind = "completed" THEN m.status ELSE result.status
      BY <2>1, <2>2, TakeParts
    <3>3. /\ m.kind \in {"started", "output", "completed", "file"}
          /\ m.kind = "completed" => m.status \in Statuses
      BY <3>1, MessageKinds
    <3> QED
      BY <3>1, <3>2, <3>3 DEF Goes, Statuses, Contract!Next, Contract!Started, Contract!Output,
         Contract!Completed, Contract!File, Contract!Verdicts
  <2>3. CASE Next /\ ~Take
    BY <2>1, <2>3, ResultStays
  <2>4. CASE UNCHANGED vars
    BY <2>4 DEF vars, caller
  <2> QED
    BY <2>2, <2>3, <2>4
<1> QED
  BY <1>1, <1>2, StreamInvariant, PTL DEF Spec, KeepsRunContract, Contract!Spec
==============================================================================
