----------------------------- MODULE StepDirectory -----------------------------
(***************************************************************************)
(* The directories of a pipeline's steps: launch_step fills one of them    *)
(* (executor::populate_run_dir and materialize_dependency_outputs of       *)
(* service/src/pipeline.rs), one file at a time, while the executables of  *)
(* other steps are at work in theirs; run_streaming takes a snapshot of it *)
(* before the executable and compares after it (snapshot_dir,              *)
(* detect_outputs).  RunSync does the same with a step that depends on     *)
(* nothing.                                                                *)
(*                                                                         *)
(* A directory maps names to files, so that a copy can be told from a      *)
(* link.  Of a file's content only its origin is kept, with the time of    *)
(* its last change in ticks of the file system's clock.                    *)
(***************************************************************************)
EXTENDS DependencyGraph

CONSTANTS
    Steps,       \* the step ids of the pipeline
    Names,       \* file names
    DepLists,    \* the `depends_on` lists a step may carry
    InputLists,  \* the lists of names its inline `inputs` may have
    Workspace,   \* the workspace's directory
    Absent,      \* no file
    Idle,        \* no step is being launched
    MaxTick      \* bound: ticks of the clock

ASSUME DirectoriesDiffer == Workspace \notin Steps /\ Idle \notin Steps
ASSUME FilesDiffer == Absent \notin (Steps \cup {Workspace}) \X Names /\ Absent \notin Nat
ASSUME ListsAssumption == DepLists \subseteq Seq(Steps) /\ InputLists \subseteq Seq(Names)

VARIABLES
    dep_map,     \* the request's dependencies
    inputs,      \* step -> the names of its inline inputs, in order
    file,        \* the files: origin and time of the last change
    dir,         \* directory -> name -> file
    launching,   \* the step launch_step is working on
    at,          \* the round of the loop it is in
    todo,        \* output files of that round's dependency still to copy
    stage,       \* where every step is
    before,      \* snapshot_dir: step -> name -> time
    outputs,     \* output_files, later in step_outputs: step -> names
    wrote,       \* history: step -> names its executable wrote
    lost,        \* history: <<step, name>> whose last copy failed
    now          \* the file system's clock

request  == <<dep_map, inputs>>
launcher == <<launching, at, todo>>
vars == <<request, file, dir, launcher, stage, before, outputs, wrote, lost, now>>

Files == (Steps \cup {Workspace}) \X Names

FromWorkspace == [from |-> "workspace"]
FromInput(i)  == [from |-> "input", at |-> i]
FromStep(s)   == [from |-> "step", step |-> s]
InPart        == [from |-> "nowhere"]

Init ==
    /\ dep_map \in {g \in [Steps -> DepLists] : Acyclic(g)}
    /\ inputs \in [Steps -> InputLists]
    /\ file = [x \in Files |-> [by |-> FromWorkspace, time |-> 0]]
    /\ \E uploaded \in SUBSET Names :
          dir = [d \in Steps \cup {Workspace} |-> [f \in Names |->
                    IF d = Workspace /\ f \in uploaded THEN <<d, f>> ELSE Absent]]
    /\ launching = Idle /\ at = 1 /\ todo = {}
    /\ stage = [s \in Steps |-> "waiting"]
    /\ before = [s \in Steps |-> [f \in Names |-> Absent]]
    /\ outputs = [s \in Steps |-> {}]
    /\ wrote = [s \in Steps |-> {}]
    /\ lost = {}
    /\ now = 0

Goto(s, next) == stage' = [stage EXCEPT ![s] = next]

(* Name f of directory s becomes a file of its own. *)
Create(s, f, origin) ==
    /\ file' = [file EXCEPT ![<<s, f>>] = [by |-> origin, time |-> now]]
    /\ dir' = [dir EXCEPT ![s][f] = <<s, f>>]

(* What is written to a name goes to the file the name refers to. *)
WriteTo(s, f, origin) ==
    IF dir[s][f] = Absent THEN Create(s, f, origin)
    ELSE /\ file' = [file EXCEPT ![dir[s][f]] = [by |-> origin, time |-> now]]
         /\ UNCHANGED dir

(* Slip: a symlink, as ARCHITECTURE.md has it, where the code copies. *)
CopyAsLink(s, f, source) ==
    dir' = [dir EXCEPT ![s][f] = dir[source][f]] /\ UNCHANGED file

Copy(s, f, source) == Create(s, f, file[dir[source][f]].by)

-----------------------------------------------------------------------------
(* launch_step, one step at a time *)

(* Slip: a step is launched while another one is. *)
Alongside(s) == stage[s] = "waiting" /\ \A d \in DepsOf(dep_map, s) : stage[d] = "succeeded"
MayLaunch(s) == launching = Idle /\ Alongside(s)

StartLaunch(s) ==
    /\ MayLaunch(s)
    /\ launching' = s
    /\ Goto(s, "copying")
    /\ UNCHANGED <<request, file, dir, at, todo, before, outputs, wrote, lost, now>>

Uncopied(s) == {f \in Names : dir[Workspace][f] # Absent /\ dir[s][f] = Absent}

CopyEntry(s) ==
    /\ stage[s] = "copying"
    /\ \E f \in Uncopied(s) : Copy(s, f, Workspace)
    /\ UNCHANGED <<request, launcher, stage, before, outputs, wrote, lost, now>>

EntriesCopied(s) ==
    /\ stage[s] = "copying" /\ Uncopied(s) = {}
    /\ Goto(s, "writing") /\ at' = 1
    /\ UNCHANGED <<request, file, dir, launching, todo, before, outputs, wrote, lost, now>>

WriteInput(s) ==
    /\ stage[s] = "writing" /\ at <= Len(inputs[s])
    /\ WriteTo(s, inputs[s][at], FromInput(at))
    /\ at' = at + 1
    /\ UNCHANGED <<request, launching, todo, stage, before, outputs, wrote, lost, now>>

(* The loop over deps; a dependency's outputs are copied one by one. *)
Dependency(s, i) == dep_map[s][i]

(* Slip: the first dependency's file is kept. *)
EnterRoundKeeping(s, i) ==
    /\ at' = i
    /\ todo' = IF i <= Len(dep_map[s])
               THEN {f \in outputs[Dependency(s, i)] : dir[s][f] = Absent} ELSE {}

EnterRound(s, i) ==
    /\ at' = i
    /\ todo' = IF i <= Len(dep_map[s]) THEN outputs[Dependency(s, i)] ELSE {}

InputsWritten(s) ==
    /\ stage[s] = "writing" /\ at > Len(inputs[s])
    /\ Goto(s, "materializing")
    /\ EnterRound(s, 1)
    /\ UNCHANGED <<request, file, dir, launching, before, outputs, wrote, lost, now>>

Materializing(s, f) ==
    /\ stage[s] = "materializing" /\ f \in todo
    /\ todo' = todo \ {f}
    /\ UNCHANGED <<request, launching, at, stage, before, outputs, wrote, now>>

CopyOutput(s, f) ==
    /\ Materializing(s, f)
    /\ Copy(s, f, Dependency(s, at))
    /\ lost' = lost \ {<<s, f>>}

(* The name was removed first, and the error is only logged. *)
CopyOutputFails(s, f) ==
    /\ Materializing(s, f)
    /\ \/ Create(s, f, InPart)
       \/ dir' = [dir EXCEPT ![s][f] = Absent] /\ UNCHANGED file
    /\ lost' = lost \cup {<<s, f>>}

NextDependency(s) ==
    /\ stage[s] = "materializing" /\ at <= Len(dep_map[s]) /\ todo = {}
    /\ EnterRound(s, at + 1)
    /\ UNCHANGED <<request, file, dir, launching, stage, before, outputs, wrote, lost, now>>

Launched(s) ==
    /\ stage[s] = "materializing" /\ at > Len(dep_map[s])
    /\ Goto(s, "launched")
    /\ launching' = Idle
    /\ UNCHANGED <<request, file, dir, at, todo, before, outputs, wrote, lost, now>>

-----------------------------------------------------------------------------
(* run_streaming and the executable of step s *)

TimeOf(s, f) == IF dir[s][f] = Absent THEN Absent ELSE file[dir[s][f]].time

Snapshot(s) ==
    /\ stage[s] = "launched"
    /\ before' = [before EXCEPT ![s] = [f \in Names |-> TimeOf(s, f)]]
    /\ Goto(s, "running")
    /\ UNCHANGED <<request, file, dir, launcher, outputs, wrote, lost, now>>

ExecutableWrites(s, f) ==
    /\ stage[s] = "running"
    /\ WriteTo(s, f, FromStep(s))
    /\ wrote' = [wrote EXCEPT ![s] = wrote[s] \cup {f}]
    /\ UNCHANGED <<request, launcher, stage, before, outputs, lost, now>>

(* Slips: only new files count, or an unchanged time does. *)
IsOutputIfNew(s, f) == dir[s][f] # Absent /\ before[s][f] = Absent
IsOutputUnlessOlder(s, f) ==
    dir[s][f] # Absent /\ (before[s][f] = Absent \/ TimeOf(s, f) >= before[s][f])

IsOutput(s, f) ==
    dir[s][f] # Absent /\ (before[s][f] = Absent \/ TimeOf(s, f) > before[s][f])

Detect(s) ==
    /\ stage[s] = "running"
    /\ outputs' = [outputs EXCEPT ![s] = {f \in Names : IsOutput(s, f)}]
    /\ Goto(s, "detected")
    /\ UNCHANGED <<request, file, dir, launcher, before, wrote, lost, now>>

(* The files go to the client, then the StepDone to the scheduler. *)
Record(s) ==
    /\ stage[s] = "detected"
    /\ Goto(s, "succeeded") \/ Goto(s, "failed")
    /\ UNCHANGED <<request, file, dir, launcher, before, outputs, wrote, lost, now>>

Tick ==
    /\ now < MaxTick
    /\ now' = now + 1
    /\ UNCHANGED <<request, file, dir, launcher, stage, before, outputs, wrote, lost>>

-----------------------------------------------------------------------------
Launch(s) ==
    \/ StartLaunch(s) \/ CopyEntry(s) \/ EntriesCopied(s) \/ WriteInput(s)
    \/ InputsWritten(s) \/ NextDependency(s) \/ Launched(s)
    \/ \E f \in Names : CopyOutput(s, f) \/ CopyOutputFails(s, f)

Execute(s) ==
    \/ Snapshot(s) \/ Detect(s) \/ Record(s)
    \/ \E f \in Names : ExecutableWrites(s, f)

(* Every step has ended or has a dependency that did not succeed. *)
Over ==
    /\ \A s \in Steps :
          \/ stage[s] \in {"succeeded", "failed"}
          \/ /\ stage[s] = "waiting"
             /\ \E d \in DepsOf(dep_map, s) : stage[d] \in {"failed", "waiting"}
    /\ UNCHANGED vars

Next == (\E s \in Steps : Launch(s) \/ Execute(s)) \/ Tick \/ Over

Spec == Init /\ [][Next]_vars

-----------------------------------------------------------------------------
(* Properties *)

Origins ==
    [from : {"workspace", "nowhere"}] \cup [from : {"input"}, at : Nat]
    \cup [from : {"step"}, step : Steps]
Ended   == {"detected", "succeeded", "failed"}
Stages  == {"waiting", "copying", "writing", "materializing", "launched", "running"} \cup Ended

TypeOK ==
    /\ dep_map \in [Steps -> DepLists] /\ inputs \in [Steps -> InputLists]
    /\ file \in [Files -> [by : Origins, time : 0 .. now]]
    /\ dir \in [Steps \cup {Workspace} -> [Names -> Files \cup {Absent}]]
    /\ launching \in Steps \cup {Idle} /\ at \in Nat \ {0} /\ todo \subseteq Names
    /\ stage \in [Steps -> Stages]
    /\ \A s \in Steps : stage[s] \in {"copying", "writing", "materializing"} <=> launching = s
    /\ before \in [Steps -> [Names -> Nat \cup {Absent}]]
    /\ outputs \in [Steps -> SUBSET Names] /\ wrote \in [Steps -> SUBSET Names]
    /\ lost \subseteq Steps \X Names
    /\ now \in Nat

(* The places of a list of step s that supply name f, and the last one. *)
Supplying(s, f) == {i \in DOMAIN dep_map[s] : f \in outputs[dep_map[s][i]]}
Inlining(s, f)  == {i \in DOMAIN inputs[s] : inputs[s][i] = f}
LastOf(S, i)    == i \in S /\ \A j \in S : j <= i

(* What name f of step s is meant to be when its executable starts: the    *)
(* output of the last dependency that has one of that name, else the last  *)
(* inline input, else the workspace's file.                                *)
Meant(s, f, origin) ==
    \/ \E i \in Supplying(s, f) :
          LastOf(Supplying(s, f), i) /\ origin = FromStep(dep_map[s][i])
    \/ /\ Supplying(s, f) = {}
       /\ \E i \in Inlining(s, f) : LastOf(Inlining(s, f), i) /\ origin = FromInput(i)
    \/ Supplying(s, f) \cup Inlining(s, f) = {} /\ origin = FromWorkspace

(* A step runs on the files its request determines, unless a copy failed:  *)
(* whatever the other steps do meanwhile, and in whatever order its        *)
(* dependencies ended.                                                     *)
RunsOnMeantFiles ==
    \A s \in Steps, f \in Names : stage[s] = "launched" /\ <<s, f>> \notin lost =>
        IF dir[s][f] # Absent THEN Meant(s, f, file[dir[s][f]].by)
        ELSE Supplying(s, f) \cup Inlining(s, f) = {} /\ dir[Workspace][f] = Absent

(* The output files of a step are what its own executable wrote, from      *)
(* their detection on, while they are streamed and others run on copies.   *)
OutputsOwn ==
    \A s \in Steps : \A f \in outputs[s] :
        dir[s][f] # Absent /\ file[dir[s][f]].by = FromStep(s)

(* A file that an executable wrote is missing from its outputs only if it  *)
(* rewrote one that was put there within the same tick of the clock.       *)
MissedOnlyWithinTick ==
    \A s \in Steps : stage[s] \in Ended => \A f \in wrote[s] \ outputs[s] :
        before[s][f] # Absent /\ TimeOf(s, f) = before[s][f]

(* No step's executable changes the workspace. *)
WorkspaceUntouched ==
    \A f \in Names : dir[Workspace][f] # Absent =>
        file[dir[Workspace][f]] = [by |-> FromWorkspace, time |-> 0]

(* ARCHITECTURE.md says of a step's directory: "the step's inline input    *)
(* files (override symlinks if same name)", those of dependencies' outputs *)
(* included.                                                               *)
InlineInputsOverride ==
    \A s \in Steps, f \in Names :
        stage[s] = "launched" /\ Inlining(s, f) # {} /\ dir[s][f] # Absent =>
            file[dir[s][f]].by.from = "input"
==============================================================================
