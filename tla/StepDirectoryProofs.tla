-------------------------- MODULE StepDirectoryProofs --------------------------
(***************************************************************************)
(* For any steps, names, dependency and input lists: every step runs on    *)
(* the files its request determines, its outputs are its own, and the      *)
(* workspace is untouched.  The invariant follows the loops that fill a    *)
(* directory: after every round a name holds what the rounds so far        *)
(* determine.                                                              *)
(***************************************************************************)
EXTENDS StepDirectory, TLAPS

-----------------------------------------------------------------------------
(* The inductive invariant *)

(* Every name of a directory refers to a file of that directory only, and  *)
(* those of the workspace are as they were.                                *)
OwnFiles ==
    /\ \A d \in Steps \cup {Workspace}, f \in Names : dir[d][f] \in {Absent, <<d, f>>}
    /\ \A f \in Names : file[<<Workspace, f>>] = [by |-> FromWorkspace, time |-> 0]

By(s, f) == file[<<s, f>>].by

(* Name f of step s holds what the suppliers S and the inline inputs I,    *)
(* both places in their lists, make of it.                                 *)
Holds(s, f, S, I) ==
    /\ S # {} => /\ dir[s][f] # Absent
                 /\ \E i \in S : LastOf(S, i) /\ By(s, f) = FromStep(dep_map[s][i])
    /\ S = {} /\ I # {} => /\ dir[s][f] # Absent
                           /\ \E i \in I : LastOf(I, i) /\ By(s, f) = FromInput(i)
    /\ S = {} /\ I = {} => /\ dir[s][f] = Absent <=> dir[Workspace][f] = Absent
                           /\ dir[s][f] # Absent => By(s, f) = FromWorkspace

InlinedSoFar(s, f)  == {i \in Inlining(s, f) : i < at}
SuppliedSoFar(s, f) == {i \in Supplying(s, f) : i < at \/ (i = at /\ f \notin todo)}

(* What the loops of launch_step have made of name f of step s. *)
Filled(s, f) ==
    /\ stage[s] = "waiting" => dir[s][f] = Absent
    /\ stage[s] = "copying" /\ dir[s][f] # Absent =>
           dir[Workspace][f] # Absent /\ By(s, f) = FromWorkspace
    /\ stage[s] = "writing" => Holds(s, f, {}, InlinedSoFar(s, f))
    /\ stage[s] = "materializing" /\ <<s, f>> \notin lost =>
           Holds(s, f, SuppliedSoFar(s, f), Inlining(s, f))
    /\ stage[s] = "launched" /\ <<s, f>> \notin lost =>
           Holds(s, f, Supplying(s, f), Inlining(s, f))

(* What the executable of step s has made of name f. *)
Executed(s, f) ==
    IF stage[s] \notin {"running"} \cup Ended THEN f \notin wrote[s]
    ELSE
        /\ f \in wrote[s] => dir[s][f] # Absent
        /\ dir[s][f] # Absent /\ By(s, f) # FromStep(s) => before[s][f] = file[<<s, f>>].time
        /\ before[s][f] # Absent => dir[s][f] # Absent /\ before[s][f] <= file[<<s, f>>].time

(* Outputs appear when they are detected, and stay. *)
OutputsMatch ==
    \A s \in Steps :
        outputs[s] = IF stage[s] \in Ended THEN {f \in Names : IsOutput(s, f)} ELSE {}

(* Who is launched has dependencies that are over. *)
DependenciesOver ==
    \A s \in Steps : stage[s] # "waiting" =>
        \A i \in DOMAIN dep_map[s] : stage[dep_map[s][i]] = "succeeded"

(* What is still to copy is among the outputs of the round's dependency. *)
RoundMatches ==
    \A s \in Steps : stage[s] = "materializing" =>
        IF at <= Len(dep_map[s]) THEN todo \subseteq outputs[dep_map[s][at]] ELSE todo = {}

DInv ==
    /\ TypeOK
    /\ OwnFiles
    /\ \A s \in Steps, f \in Names : Filled(s, f) /\ Executed(s, f)
    /\ OutputsMatch
    /\ DependenciesOver
    /\ RoundMatches

-----------------------------------------------------------------------------
(* Facts about the request and the files *)

LEMMA Basics ==
  ASSUME TypeOK
  PROVE  /\ \A s \in Steps : dep_map[s] \in Seq(Steps) /\ inputs[s] \in Seq(Names)
         /\ \A d \in Steps \cup {Workspace}, f \in Names : <<d, f>> \in Files /\ <<d, f>> # Absent
         /\ \A x \in Files : file[x] \in [by : Origins, time : 0 .. now]
         /\ now \in Nat /\ at \in Nat \ {0}
         /\ FromWorkspace \in Origins /\ InPart \in Origins
         /\ \A s \in Steps : FromStep(s) \in Origins
         /\ \A i \in Nat : FromInput(i) \in Origins
  BY ListsAssumption, FilesDiffer
  DEF TypeOK, Files, Origins, FromWorkspace, InPart, FromStep, FromInput

(* Origins of different kinds differ, and an origin tells which of them. *)
LEMMA OriginsDiffer ==
  /\ FromWorkspace # InPart
  /\ \A i : FromInput(i) # FromWorkspace /\ FromInput(i) # InPart
  /\ \A s : FromStep(s) # FromWorkspace /\ FromStep(s) # InPart
  /\ \A i, s : FromInput(i) # FromStep(s)
  /\ \A s, t : FromStep(s) = FromStep(t) => s = t
  BY DEF FromWorkspace, InPart, FromInput, FromStep

(* Creating a name changes this name and its file, and nothing else. *)
LEMMA CreateFrame ==
  ASSUME TypeOK, OwnFiles, NEW s \in Steps, NEW f \in Names, NEW origin \in Origins,
         Create(s, f, origin)
  PROVE  /\ dir'[s][f] = <<s, f>>
         /\ file'[<<s, f>>] = [by |-> origin, time |-> now]
         /\ \A d \in Steps \cup {Workspace}, g \in Names : <<d, g>> # <<s, f>> =>
               dir'[d][g] = dir[d][g] /\ file'[<<d, g>>] = file[<<d, g>>]
         /\ dir' \in [Steps \cup {Workspace} -> [Names -> Files \cup {Absent}]]
         /\ file' \in [Files -> [by : Origins, time : 0 .. now]]
         /\ OwnFiles'
<1>1. /\ \A d \in Steps \cup {Workspace}, g \in Names : <<d, g>> \in Files
      /\ now \in Nat
      /\ Workspace \notin Steps
  BY Basics, DirectoriesDiffer
<1>2. /\ dir'[s][f] = <<s, f>>
      /\ file'[<<s, f>>] = [by |-> origin, time |-> now]
      /\ \A d \in Steps \cup {Workspace}, g \in Names : <<d, g>> # <<s, f>> =>
            dir'[d][g] = dir[d][g] /\ file'[<<d, g>>] = file[<<d, g>>]
  BY <1>1 DEF Create, TypeOK
<1>3. /\ dir' \in [Steps \cup {Workspace} -> [Names -> Files \cup {Absent}]]
      /\ file' \in [Files -> [by : Origins, time : 0 .. now]]
  BY <1>1 DEF Create, TypeOK
<1> QED
  BY <1>1, <1>2, <1>3 DEF OwnFiles

(* So does writing to a name, as it refers to no file of another directory. *)
LEMMA WriteIsCreate ==
  ASSUME TypeOK, OwnFiles, NEW s \in Steps, NEW f \in Names, NEW origin,
         WriteTo(s, f, origin)
  PROVE  Create(s, f, origin)
<1>1. CASE dir[s][f] = Absent
  BY <1>1 DEF WriteTo
<1>2. CASE dir[s][f] # Absent
  <2>1. dir[s][f] = <<s, f>>
    BY <1>2 DEF OwnFiles
  <2>2. dir = [dir EXCEPT ![s][f] = <<s, f>>]
    BY <2>1 DEF TypeOK
  <2> QED
    BY <1>2, <2>1, <2>2 DEF WriteTo, Create
<1> QED
  BY <1>1, <1>2

-----------------------------------------------------------------------------
LEMMA DInit == Init => DInv
<1> SUFFICES ASSUME Init PROVE DInv
  OBVIOUS
<1>1. TypeOK
  BY DirectoriesDiffer, FilesDiffer
  DEF Init, TypeOK, Files, Origins, FromWorkspace, Stages
<1>2. OwnFiles
  BY DirectoriesDiffer DEF Init, OwnFiles, Files
<1>3. \A s \in Steps, f \in Names : Filled(s, f) /\ Executed(s, f)
  BY DirectoriesDiffer DEF Init, Filled, Executed, Ended
<1>4. OutputsMatch /\ DependenciesOver /\ RoundMatches
  BY DEF Init, OutputsMatch, DependenciesOver, RoundMatches, Ended
<1> QED
  BY <1>1, <1>2, <1>3, <1>4 DEF DInv

(* The steps other than s are in none of the loops while s is launched. *)
LEMMA OthersElsewhere ==
  ASSUME TypeOK, NEW s \in Steps, stage[s] \in {"copying", "writing", "materializing"},
         NEW t \in Steps, t # s
  PROVE  stage[t] \notin {"copying", "writing", "materializing"}
  BY DEF TypeOK

(* What an action keeps of name f of step t. *)
Untouched(t, f) ==
    /\ UNCHANGED request
    /\ stage'[t] = stage[t] /\ before'[t][f] = before[t][f]
    /\ dir'[t][f] = dir[t][f] /\ file'[<<t, f>>] = file[<<t, f>>]
    /\ dir'[Workspace][f] = dir[Workspace][f]
    /\ <<t, f>> \in lost' <=> <<t, f>> \in lost
    /\ f \in wrote'[t] <=> f \in wrote[t]

LEMMA UntouchedKeeps ==
  ASSUME NEW t \in Steps, NEW f \in Names, Filled(t, f), Executed(t, f), Untouched(t, f),
         stage[t] \in {"writing", "materializing"} => UNCHANGED <<at, todo>>,
         stage[t] \in {"materializing", "launched"} => Supplying(t, f)' = Supplying(t, f)
  PROVE  Filled(t, f)' /\ Executed(t, f)'
<1>1. Inlining(t, f)' = Inlining(t, f)
  BY DEF Inlining, Untouched, request
<1>2. By(t, f)' = By(t, f) /\ UNCHANGED <<dep_map, dir[t][f], dir[Workspace][f]>>
  BY DEF By, Untouched, request
<1>3. \A S, I : Holds(t, f, S, I)' = Holds(t, f, S, I)
  BY <1>2 DEF Holds, LastOf
<1>4. stage[t] = "writing" => InlinedSoFar(t, f)' = InlinedSoFar(t, f)
  BY <1>1 DEF InlinedSoFar
<1>5. stage[t] = "materializing" => SuppliedSoFar(t, f)' = SuppliedSoFar(t, f)
  BY DEF SuppliedSoFar
<1>6. Filled(t, f)'
  BY <1>1, <1>2, <1>3, <1>4, <1>5 DEF Filled, Untouched
<1>7. Executed(t, f)'
  BY <1>2 DEF Executed, Untouched
<1> QED
  BY <1>6, <1>7

(* Supplying reads the outputs only. *)
LEMMA SuppliersKept ==
  ASSUME UNCHANGED <<request, outputs>>
  PROVE  \A t \in Steps, f \in Names : Supplying(t, f)' = Supplying(t, f)
  BY DEF Supplying, request

(* For a file of its own, what detect_outputs looks at. *)
LEMMA OutputTest ==
  ASSUME OwnFiles, NEW s \in Steps, NEW f \in Names
  PROVE  IsOutput(s, f) <=>
            /\ dir[s][f] # Absent
            /\ before[s][f] = Absent \/ file[<<s, f>>].time > before[s][f]
<1>1. dir[s][f] # Absent => dir[s][f] = <<s, f>>
  BY DEF OwnFiles
<1> QED
  BY <1>1 DEF IsOutput, TimeOf

-----------------------------------------------------------------------------
(* launch_step: the rounds that touch no file *)

LEMMA StartLaunchKeeps ==
  ASSUME DInv, NEW s \in Steps, StartLaunch(s)
  PROVE  DInv'
<1> USE DEF StartLaunch, MayLaunch, Alongside, Goto, request
<1>1. TypeOK'
  BY DirectoriesDiffer DEF DInv, TypeOK, Stages, Files
<1>2. OwnFiles'
  BY DEF DInv, OwnFiles
<1>3. ASSUME NEW t \in Steps, NEW f \in Names
      PROVE  Filled(t, f)' /\ Executed(t, f)'
  <2>1. Filled(t, f) /\ Executed(t, f)
    BY DEF DInv
  <2>2. CASE t = s
    BY <2>1, <2>2 DEF Filled, Executed, Ended, DInv, TypeOK
  <2>3. CASE t # s
    BY <2>1, <2>3, UntouchedKeeps, SuppliersKept DEF Untouched, DInv, TypeOK
  <2> QED
    BY <2>2, <2>3
<1>4. OutputsMatch'
  BY DEF DInv, OutputsMatch, IsOutput, TimeOf, Ended, TypeOK
<1>5. DependenciesOver'
  BY DEF DInv, DependenciesOver, DepsOf, TypeOK
<1>6. RoundMatches'
  BY DEF DInv, RoundMatches, TypeOK
<1> QED
  BY <1>1, <1>2, <1>3, <1>4, <1>5, <1>6 DEF DInv

(* A round that changes neither a directory nor a file nor who is launched *)
(* but for the stage of s, within launch_step.                             *)
LEMMA RoundKeeps ==
  ASSUME DInv, NEW s \in Steps, UNCHANGED <<request, file, dir, before, outputs, wrote, lost, now>>,
         stage[s] \in {"copying", "writing", "materializing"},
         NEW next \in {"writing", "materializing", "launched"},
         stage' = [stage EXCEPT ![s] = next],
         launching' = IF next = "launched" THEN Idle ELSE launching,
         at' \in Nat \ {0}, todo' \subseteq Names,
         \A f \in Names : Filled(s, f)',
         next = "materializing" =>
            IF at' <= Len(dep_map[s]) THEN todo' \subseteq outputs[dep_map[s][at']] ELSE todo' = {}
  PROVE  DInv'
<1> USE DEF request
<1>0. launching = s /\ stage \in [Steps -> Stages]
  BY DEF DInv, TypeOK
<1>1. TypeOK'
  BY <1>0, DirectoriesDiffer DEF DInv, TypeOK, Stages, Files
<1>2. OwnFiles'
  BY DEF DInv, OwnFiles
<1>3. ASSUME NEW t \in Steps, NEW f \in Names
      PROVE  Filled(t, f)' /\ Executed(t, f)'
  <2>1. Filled(t, f) /\ Executed(t, f)
    BY DEF DInv
  <2>2. CASE t = s
    BY <1>0, <2>1, <2>2 DEF Executed, Ended
  <2>3. CASE t # s
    <3>1. stage[t] \notin {"writing", "materializing"}
      BY <2>3, OthersElsewhere DEF DInv
    <3> QED
      BY <1>0, <2>1, <2>3, <3>1, UntouchedKeeps, SuppliersKept DEF Untouched
  <2> QED
    BY <2>2, <2>3
<1>4. OutputsMatch'
  BY <1>0 DEF DInv, OutputsMatch, IsOutput, TimeOf, Ended
<1>5. DependenciesOver'
  BY <1>0 DEF DInv, DependenciesOver
<1>6. RoundMatches'
  <2>1. \A t \in Steps : t # s => stage'[t] # "materializing"
    BY <1>0, OthersElsewhere DEF DInv
  <2> QED
    BY <1>0, <2>1 DEF RoundMatches
<1> QED
  BY <1>1, <1>2, <1>3, <1>4, <1>5, <1>6 DEF DInv

LEMMA EntriesCopiedKeeps ==
  ASSUME DInv, NEW s \in Steps, EntriesCopied(s)
  PROVE  DInv'
<1> USE DEF EntriesCopied, Goto, request
<1>1. \A f \in Names : Filled(s, f)'
  <2> SUFFICES ASSUME NEW f \in Names PROVE Filled(s, f)'
    OBVIOUS
  <2>1. stage'[s] = "writing"
    BY DEF DInv, TypeOK
  <2>2. InlinedSoFar(s, f)' = {}
    BY Basics DEF InlinedSoFar, Inlining, DInv
  <2>3. dir[s][f] = Absent <=> dir[Workspace][f] = Absent
    BY DEF DInv, Filled, Uncopied
  <2>4. dir[s][f] # Absent => By(s, f) = FromWorkspace
    BY DEF DInv, Filled
  <2> QED
    BY <2>1, <2>2, <2>3, <2>4 DEF Filled, Holds, By
<1>2. todo \subseteq Names
  BY DEF DInv, TypeOK
<1>3. /\ stage[s] \in {"copying", "writing", "materializing"}
      /\ UNCHANGED <<request, file, dir, before, outputs, wrote, lost, now>>
      /\ stage' = [stage EXCEPT ![s] = "writing"] /\ launching' = launching
      /\ at' \in Nat \ {0} /\ todo' \subseteq Names
  BY <1>2
<1> QED
  BY ONLY <1>1, <1>3, DInv, s \in Steps, RoundKeeps

(* Entering a round of the loop over deps, nothing of it is copied yet. *)
LEMMA RoundEntered ==
  ASSUME DInv, NEW s \in Steps, NEW i \in Nat \ {0}, EnterRound(s, i),
         UNCHANGED <<request, outputs>>
  PROVE  /\ at' = i /\ todo' \subseteq Names
         /\ IF i <= Len(dep_map[s]) THEN todo' \subseteq outputs[dep_map[s][i]] ELSE todo' = {}
         /\ \A f \in Names : SuppliedSoFar(s, f)' = {j \in Supplying(s, f) : j < i}
<1>1. dep_map[s] \in Seq(Steps)
  BY Basics DEF DInv
<1>2. \A j \in DOMAIN dep_map[s] : outputs[dep_map[s][j]] \subseteq Names
  BY <1>1 DEF DInv, TypeOK
<1>3. at' = i /\ todo' = IF i <= Len(dep_map[s]) THEN outputs[dep_map[s][i]] ELSE {}
  BY DEF EnterRound, Dependency
<1>4. ASSUME NEW f \in Names
      PROVE  SuppliedSoFar(s, f)' = {j \in Supplying(s, f) : j < i}
  <2>1. Supplying(s, f)' = Supplying(s, f)
    BY SuppliersKept
  <2>2. \A j \in Supplying(s, f) : j = i => f \in todo'
    BY <1>1, <1>3 DEF Supplying
  <2> QED
    BY <1>3, <2>1, <2>2 DEF SuppliedSoFar
<1> QED
  BY <1>1, <1>2, <1>3, <1>4

LEMMA InputsWrittenKeeps ==
  ASSUME DInv, NEW s \in Steps, InputsWritten(s)
  PROVE  DInv'
<1> USE DEF InputsWritten, Goto, request
<1>0. stage'[s] = "materializing"
  BY DEF DInv, TypeOK
<1>1. /\ at' = 1 /\ todo' \subseteq Names
      /\ IF 1 <= Len(dep_map[s]) THEN todo' \subseteq outputs[dep_map[s][1]] ELSE todo' = {}
      /\ \A f \in Names : SuppliedSoFar(s, f)' = {j \in Supplying(s, f) : j < 1}
  BY RoundEntered
<1>2. \A f \in Names : Filled(s, f)'
  <2> SUFFICES ASSUME NEW f \in Names PROVE Filled(s, f)'
    OBVIOUS
  <2>1. SuppliedSoFar(s, f)' = {}
    BY <1>1, Basics DEF Supplying, DInv
  <2>2. Inlining(s, f)' = InlinedSoFar(s, f)
    BY Basics DEF Inlining, InlinedSoFar, DInv
  <2>3. Holds(s, f, {}, InlinedSoFar(s, f))
    BY DEF DInv, Filled
  <2>4. \A S, I : Holds(s, f, S, I)' = Holds(s, f, S, I)
    BY DEF Holds, LastOf, By
  <2> QED
    BY <1>0, <2>1, <2>2, <2>3, <2>4 DEF Filled
<1>3. /\ stage[s] \in {"copying", "writing", "materializing"}
      /\ UNCHANGED <<request, file, dir, before, outputs, wrote, lost, now>>
      /\ stage' = [stage EXCEPT ![s] = "materializing"] /\ launching' = launching
      /\ at' \in Nat \ {0} /\ todo' \subseteq Names
      /\ IF at' <= Len(dep_map[s]) THEN todo' \subseteq outputs[dep_map[s][at']] ELSE todo' = {}
  BY <1>1
<1> QED
  BY ONLY <1>2, <1>3, DInv, s \in Steps, RoundKeeps

LEMMA NextDependencyKeeps ==
  ASSUME DInv, NEW s \in Steps, NextDependency(s)
  PROVE  DInv'
<1> USE DEF NextDependency, request
<1>0. stage' = [stage EXCEPT ![s] = "materializing"] /\ at \in Nat \ {0}
  BY DEF DInv, TypeOK
<1>1. /\ at' = at + 1 /\ todo' \subseteq Names
      /\ IF at + 1 <= Len(dep_map[s]) THEN todo' \subseteq outputs[dep_map[s][at + 1]]
         ELSE todo' = {}
      /\ \A f \in Names : SuppliedSoFar(s, f)' = {j \in Supplying(s, f) : j < at + 1}
  BY <1>0, RoundEntered
<1>2. \A f \in Names : Filled(s, f)'
  <2> SUFFICES ASSUME NEW f \in Names PROVE Filled(s, f)'
    OBVIOUS
  <2>1. SuppliedSoFar(s, f)' = SuppliedSoFar(s, f)
    BY <1>0, <1>1, Basics DEF SuppliedSoFar, Supplying, DInv
  <2>2. Inlining(s, f)' = Inlining(s, f)
    BY DEF Inlining
  <2>3. \A S, I : Holds(s, f, S, I)' = Holds(s, f, S, I)
    BY DEF Holds, LastOf, By
  <2> QED
    BY <1>0, <2>1, <2>2, <2>3 DEF Filled, DInv
<1>3. /\ stage[s] \in {"copying", "writing", "materializing"}
      /\ UNCHANGED <<request, file, dir, before, outputs, wrote, lost, now, launching>>
  OBVIOUS
<1>4. /\ at' \in Nat \ {0} /\ todo' \subseteq Names
      /\ IF at' <= Len(dep_map[s]) THEN todo' \subseteq outputs[dep_map[s][at']] ELSE todo' = {}
  BY ONLY <1>0, <1>1
<1> QED
  BY ONLY <1>0, <1>2, <1>3, <1>4, DInv, s \in Steps, RoundKeeps

LEMMA LaunchedKeeps ==
  ASSUME DInv, NEW s \in Steps, Launched(s)
  PROVE  DInv'
<1> USE DEF Launched, Goto, request
<1>1. \A f \in Names : Filled(s, f)'
  <2> SUFFICES ASSUME NEW f \in Names PROVE Filled(s, f)'
    OBVIOUS
  <2>1. Supplying(s, f)' = SuppliedSoFar(s, f)
    BY Basics DEF SuppliedSoFar, Supplying, DInv
  <2>2. Inlining(s, f)' = Inlining(s, f)
    BY DEF Inlining
  <2>3. \A S, I : Holds(s, f, S, I)' = Holds(s, f, S, I)
    BY DEF Holds, LastOf, By
  <2>4. stage'[s] = "launched"
    BY DEF DInv, TypeOK
  <2> QED
    BY <2>1, <2>2, <2>3, <2>4 DEF Filled, DInv
<1>2. at \in Nat \ {0} /\ todo \subseteq Names
  BY DEF DInv, TypeOK
<1> QED
  BY <1>1, <1>2, RoundKeeps

-----------------------------------------------------------------------------
(* launch_step: the rounds that create a file *)

(* In a loop, name f of step s is made anew, and every name is as the      *)
(* rounds so far, this one included, have it.                              *)
LEMMA CreateKeeps ==
  ASSUME DInv, NEW s \in Steps, NEW f \in Names, NEW origin \in Origins,
         Create(s, f, origin),
         UNCHANGED <<request, launching, stage, before, outputs, wrote, now>>,
         stage[s] \in {"copying", "writing", "materializing"},
         at' \in Nat \ {0}, todo' \subseteq todo, stage[s] = "materializing" => at' = at,
         lost' \subseteq Steps \X Names,
         \A t \in Steps, g \in Names : t # s => (<<t, g>> \in lost' <=> <<t, g>> \in lost),
         \A g \in Names : Filled(s, g)'
  PROVE  DInv'
<1> USE DEF request
<1>0. /\ stage \in [Steps -> Stages] /\ todo \subseteq Names /\ Workspace \notin Steps
      /\ TypeOK /\ OwnFiles
  BY DirectoriesDiffer DEF DInv, TypeOK
<1>1. /\ \A d \in Steps \cup {Workspace}, g \in Names : <<d, g>> # <<s, f>> =>
            dir'[d][g] = dir[d][g] /\ file'[<<d, g>>] = file[<<d, g>>]
      /\ dir' \in [Steps \cup {Workspace} -> [Names -> Files \cup {Absent}]]
      /\ file' \in [Files -> [by : Origins, time : 0 .. now]]
      /\ OwnFiles'
  BY <1>0, CreateFrame
<1>2. TypeOK'
  BY <1>0, <1>1 DEF TypeOK
<1>3. ASSUME NEW t \in Steps, NEW g \in Names
      PROVE  Filled(t, g)' /\ Executed(t, g)'
  <2>1. Filled(t, g) /\ Executed(t, g)
    BY DEF DInv
  <2>2. CASE t = s
    BY <2>1, <2>2 DEF Executed, Ended
  <2>3. CASE t # s
    <3>1. stage[t] \notin {"writing", "materializing"}
      BY <1>0, <2>3, OthersElsewhere
    <3>2. Untouched(t, g)
      BY <1>0, <1>1, <2>3 DEF Untouched
    <3> QED
      BY <2>1, <3>1, <3>2, UntouchedKeeps, SuppliersKept
  <2> QED
    BY <2>2, <2>3
<1>4. OutputsMatch'
  <2>1. ASSUME NEW t \in Steps, stage[t] \in Ended, NEW g \in Names
        PROVE  IsOutput(t, g)' <=> IsOutput(t, g)
    <3>1. t # s
      BY <2>1 DEF Ended
    <3>2. dir'[t][g] = dir[t][g] /\ file'[<<t, g>>] = file[<<t, g>>]
      BY <1>0, <1>1, <3>1
    <3>3. dir[t][g] \in {Absent, <<t, g>>}
      BY <1>0 DEF OwnFiles
    <3> QED
      BY <3>2, <3>3 DEF IsOutput, TimeOf
  <2> QED
    BY <2>1 DEF DInv, OutputsMatch
<1>5. DependenciesOver'
  BY DEF DInv, DependenciesOver
<1>6. RoundMatches'
  <2>1. \A t \in Steps : t # s => stage[t] # "materializing"
    BY <1>0, OthersElsewhere
  <2>2. stage[s] = "materializing" =>
          IF at <= Len(dep_map[s]) THEN todo \subseteq outputs[dep_map[s][at]] ELSE todo = {}
    BY DEF DInv, RoundMatches
  <2> QED
    BY <2>1, <2>2 DEF RoundMatches
<1> QED
  BY <1>1, <1>2, <1>3, <1>4, <1>5, <1>6 DEF DInv

(* After a creation the name holds its origin, and others what they held.  *)
LEMMA Created ==
  ASSUME TypeOK, OwnFiles, UNCHANGED request,
         NEW s \in Steps, NEW f \in Names, NEW origin \in Origins, Create(s, f, origin)
  PROVE  /\ dir'[s][f] # Absent /\ By(s, f)' = origin
         /\ \A g \in Names : dir'[Workspace][g] = dir[Workspace][g]
         /\ \A g \in Names : g # f => dir'[s][g] = dir[s][g] /\ By(s, g)' = By(s, g)
         /\ \A g \in Names : g # f =>
               \A S, I : Holds(s, g, S, I)' = Holds(s, g, S, I)
         /\ \A g \in Names : Inlining(s, g)' = Inlining(s, g)
<1>0. Workspace \notin Steps /\ <<s, f>> # Absent
  BY DirectoriesDiffer, Basics
<1>1. /\ dir'[s][f] = <<s, f>>
      /\ file'[<<s, f>>] = [by |-> origin, time |-> now]
      /\ \A d \in Steps \cup {Workspace}, g \in Names : <<d, g>> # <<s, f>> =>
            dir'[d][g] = dir[d][g] /\ file'[<<d, g>>] = file[<<d, g>>]
  BY CreateFrame
<1>2. dir'[s][f] # Absent /\ By(s, f)' = origin
  BY <1>0, <1>1 DEF By
<1>3. \A g \in Names : dir'[Workspace][g] = dir[Workspace][g]
  BY <1>0, <1>1
<1>4. \A g \in Names : g # f => dir'[s][g] = dir[s][g] /\ By(s, g)' = By(s, g)
  BY <1>0, <1>1 DEF By
<1>5. \A g \in Names : g # f => \A S, I : Holds(s, g, S, I)' = Holds(s, g, S, I)
  BY <1>3, <1>4 DEF Holds, LastOf, request
<1>6. \A g \in Names : Inlining(s, g)' = Inlining(s, g)
  BY DEF Inlining, request
<1> QED
  BY <1>2, <1>3, <1>4, <1>5, <1>6

LEMMA CopyEntryKeeps ==
  ASSUME DInv, NEW s \in Steps, CopyEntry(s)
  PROVE  DInv'
<1>1. PICK f \in Uncopied(s) : Copy(s, f, Workspace)
  BY DEF CopyEntry
<1>2. /\ f \in Names /\ dir[Workspace][f] # Absent /\ dir[s][f] = Absent
      /\ TypeOK /\ OwnFiles /\ at \in Nat \ {0} /\ lost \subseteq Steps \X Names
  BY DEF Uncopied, DInv, TypeOK
<1>3. Create(s, f, FromWorkspace)
  <2>1. file[dir[Workspace][f]].by = FromWorkspace
    BY <1>2 DEF OwnFiles
  <2> QED
    BY <1>1, <2>1 DEF Copy
<1>4. /\ stage[s] = "copying"
      /\ UNCHANGED <<request, launching, at, todo, stage, before, outputs, wrote, lost, now>>
  BY DEF CopyEntry, launcher
<1>5. ASSUME NEW g \in Names
      PROVE  Filled(s, g)'
  <2>1. CASE g = f
    BY <1>2, <1>3, <1>4, <2>1, Basics, Created DEF Filled
  <2>2. CASE g # f
    BY <1>2, <1>3, <1>4, <2>2, Basics, Created DEF Filled, DInv
  <2> QED
    BY <2>1, <2>2
<1> QED
  BY <1>2, <1>3, <1>4, <1>5, Basics, CreateKeeps

LEMMA WriteInputKeeps ==
  ASSUME DInv, NEW s \in Steps, WriteInput(s)
  PROVE  DInv'
<1> DEFINE f == inputs[s][at]
<1>1. /\ stage[s] = "writing" /\ at <= Len(inputs[s]) /\ at' = at + 1
      /\ WriteTo(s, f, FromInput(at))
      /\ UNCHANGED <<request, launching, todo, stage, before, outputs, wrote, lost, now>>
  BY DEF WriteInput
<1>2. /\ TypeOK /\ OwnFiles /\ at \in Nat \ {0} /\ lost \subseteq Steps \X Names
      /\ inputs[s] \in Seq(Names)
  BY Basics DEF DInv, TypeOK
<1>3. f \in Names
  BY <1>1, <1>2
<1>4. Create(s, f, FromInput(at)) /\ FromInput(at) \in Origins
  BY <1>1, <1>2, <1>3, WriteIsCreate, Basics
<1>5. ASSUME NEW g \in Names
      PROVE  Filled(s, g)'
  <2>1. InlinedSoFar(s, g)' = InlinedSoFar(s, g) \cup {i \in {at} : g = f}
    BY <1>1, <1>2, <1>3, <1>4, Created DEF InlinedSoFar, Inlining
  <2>2. CASE g = f
    <3>1. at \in InlinedSoFar(s, g)' /\ \A i \in InlinedSoFar(s, g)' : i <= at
      BY <1>2, <2>1, <2>2 DEF InlinedSoFar, Inlining
    <3>2. dir'[s][g] # Absent /\ By(s, g)' = FromInput(at)
      BY <1>1, <1>2, <1>3, <1>4, <2>2, Created
    <3>3. Holds(s, g, {}, InlinedSoFar(s, g))'
      BY <3>1, <3>2 DEF Holds, LastOf
    <3> QED
      BY <1>1, <3>3 DEF Filled
  <2>3. CASE g # f
    <3>1. InlinedSoFar(s, g)' = InlinedSoFar(s, g)
      BY <2>1, <2>3
    <3>2. \A S, I : Holds(s, g, S, I)' = Holds(s, g, S, I)
      BY <1>1, <1>2, <1>3, <1>4, <2>3, Created
    <3>3. Holds(s, g, {}, InlinedSoFar(s, g))
      BY <1>1 DEF DInv, Filled
    <3> QED
      BY <1>1, <3>1, <3>2, <3>3 DEF Filled
  <2> QED
    BY <2>2, <2>3
<1> QED
  BY <1>1, <1>2, <1>3, <1>4, <1>5, CreateKeeps

(* What is copied in a round is what the dependency's executable wrote. *)
LEMMA SourceIsOutput ==
  ASSUME DInv, NEW s \in Steps, stage[s] = "materializing", NEW f \in todo
  PROVE  /\ f \in Names /\ at <= Len(dep_map[s]) /\ at \in Supplying(s, f)
         /\ dep_map[s][at] \in Steps
         /\ dir[dep_map[s][at]][f] = <<dep_map[s][at], f>>
         /\ By(dep_map[s][at], f) = FromStep(dep_map[s][at])
<1>1. /\ TypeOK /\ OwnFiles /\ f \in Names /\ at \in Nat \ {0} /\ dep_map[s] \in Seq(Steps)
  BY Basics DEF DInv, TypeOK
<1>2. at <= Len(dep_map[s]) /\ f \in outputs[dep_map[s][at]]
  BY DEF DInv, RoundMatches
<1> DEFINE d == dep_map[s][at]
<1>3. d \in Steps /\ at \in DOMAIN dep_map[s]
  BY <1>1, <1>2
<1>4. stage[d] = "succeeded"
  BY <1>3 DEF DInv, DependenciesOver
<1>5. IsOutput(d, f)
  BY <1>2, <1>3, <1>4 DEF DInv, OutputsMatch, Ended
<1>6. /\ dir[d][f] # Absent
      /\ before[d][f] = Absent \/ file[<<d, f>>].time > before[d][f]
  BY <1>1, <1>3, <1>5, OutputTest
<1>7. Executed(d, f) /\ stage[d] \in Ended
  BY <1>1, <1>3, <1>4 DEF DInv, Ended
<1>8. file[<<d, f>>].time \in Nat /\ Absent \notin Nat
  BY <1>1, <1>3, Basics, FilesDiffer DEF Files
<1>9. By(d, f) = FromStep(d)
  BY <1>6, <1>7, <1>8 DEF Executed
<1> QED
  BY <1>1, <1>2, <1>3, <1>6, <1>9 DEF OwnFiles, Supplying

LEMMA CopyOutputKeeps ==
  ASSUME DInv, NEW s \in Steps, NEW f \in Names, CopyOutput(s, f)
  PROVE  DInv'
<1> DEFINE d == dep_map[s][at]
<1>1. /\ stage[s] = "materializing" /\ f \in todo /\ todo' = todo \ {f}
      /\ lost' = lost \ {<<s, f>>}
      /\ UNCHANGED <<request, launching, at, stage, before, outputs, wrote, now>>
  BY DEF CopyOutput, Materializing
<1>2. /\ TypeOK /\ OwnFiles /\ at \in Nat \ {0} /\ lost \subseteq Steps \X Names
  BY DEF DInv, TypeOK
<1>3. /\ at \in Supplying(s, f) /\ d \in Steps
      /\ Create(s, f, FromStep(d)) /\ FromStep(d) \in Origins
  BY <1>1, <1>2, SourceIsOutput, Basics DEF CopyOutput, Copy, Dependency, By
<1>4. \A g \in Names : Supplying(s, g)' = Supplying(s, g)
  BY <1>1, SuppliersKept
<1>5. ASSUME NEW g \in Names
      PROVE  Filled(s, g)'
  <2>1. SuppliedSoFar(s, g)' = SuppliedSoFar(s, g) \cup {i \in {at} : g = f}
    BY <1>1, <1>2, <1>3, <1>4 DEF SuppliedSoFar
  <2>2. CASE g = f
    <3>1. at \in SuppliedSoFar(s, g)' /\ \A i \in SuppliedSoFar(s, g)' : i <= at
      BY <1>2, <2>1, <2>2, Basics DEF SuppliedSoFar, Supplying
    <3>2. dir'[s][g] # Absent /\ By(s, g)' = FromStep(d)
      BY <1>1, <1>2, <1>3, <2>2, Created
    <3>3. dep_map' = dep_map
      BY <1>1 DEF request
    <3>4. Holds(s, g, SuppliedSoFar(s, g), Inlining(s, g))'
      BY <1>1, <3>1, <3>2, <3>3 DEF Holds, LastOf
    <3> QED
      BY <1>1, <3>4 DEF Filled
  <2>3. CASE g # f
    <3>1. SuppliedSoFar(s, g)' = SuppliedSoFar(s, g)
      BY <2>1, <2>3
    <3>2. /\ \A S, I : Holds(s, g, S, I)' = Holds(s, g, S, I)
          /\ Inlining(s, g)' = Inlining(s, g)
      BY <1>1, <1>2, <1>3, <2>3, Created
    <3>3. <<s, g>> \notin lost' => Holds(s, g, SuppliedSoFar(s, g), Inlining(s, g))
      BY <1>1, <2>3 DEF DInv, Filled
    <3> QED
      BY <1>1, <3>1, <3>2, <3>3 DEF Filled
  <2> QED
    BY <2>2, <2>3
<1> QED
  BY <1>1, <1>2, <1>3, <1>5, CreateKeeps

LEMMA CopyOutputFailsKeeps ==
  ASSUME DInv, NEW s \in Steps, NEW f \in Names, CopyOutputFails(s, f)
  PROVE  DInv'
<1>1. /\ stage[s] = "materializing" /\ f \in todo /\ todo' = todo \ {f}
      /\ lost' = lost \cup {<<s, f>>}
      /\ UNCHANGED <<request, launching, at, stage, before, outputs, wrote, now>>
  BY DEF CopyOutputFails, Materializing
<1>2. /\ TypeOK /\ OwnFiles /\ at \in Nat \ {0} /\ lost \subseteq Steps \X Names
      /\ stage \in [Steps -> Stages]
  BY DEF DInv, TypeOK
<1>3. ASSUME NEW g \in Names, g # f
      PROVE  SuppliedSoFar(s, g)' = SuppliedSoFar(s, g)
  BY <1>1, <1>3, SuppliersKept DEF SuppliedSoFar
<1>4. CASE Create(s, f, InPart)
  <2>1. ASSUME NEW g \in Names
        PROVE  Filled(s, g)'
    <3>1. CASE g = f
      BY <1>1, <3>1 DEF Filled
    <3>2. CASE g # f
      <4>1. /\ \A S, I : Holds(s, g, S, I)' = Holds(s, g, S, I)
            /\ Inlining(s, g)' = Inlining(s, g)
        BY <1>1, <1>2, <1>4, <3>2, Basics, Created
      <4>2. <<s, g>> \notin lost' => Holds(s, g, SuppliedSoFar(s, g), Inlining(s, g))
        BY <1>1 DEF DInv, Filled
      <4> QED
        BY <1>1, <1>3, <3>2, <4>1, <4>2 DEF Filled
    <3> QED
      BY <3>1, <3>2
  <2> QED
    BY <1>1, <1>2, <1>4, <2>1, Basics, CreateKeeps
<1>5. CASE dir' = [dir EXCEPT ![s][f] = Absent] /\ UNCHANGED file
  <2>0. /\ Workspace \notin Steps
        /\ dir' \in [Steps \cup {Workspace} -> [Names -> Files \cup {Absent}]]
        /\ \A d \in Steps \cup {Workspace}, g \in Names :
              dir'[d][g] = dir[d][g] \/ dir'[d][g] = Absent
        /\ \A d \in Steps \cup {Workspace}, g \in Names :
              d # s \/ g # f => dir'[d][g] = dir[d][g]
    BY <1>2, <1>5, DirectoriesDiffer DEF TypeOK
  <2>1. TypeOK'
    BY <1>1, <1>2, <1>5, <2>0 DEF TypeOK, request
  <2>2. OwnFiles'
    BY <1>2, <1>5, <2>0 DEF OwnFiles
  <2>3. ASSUME NEW t \in Steps, NEW g \in Names
        PROVE  Filled(t, g)' /\ Executed(t, g)'
    <3>0. Filled(t, g) /\ Executed(t, g)
      BY DEF DInv
    <3>1. CASE t # s
      <4>1. stage[t] \notin {"writing", "materializing"}
        BY <1>1, <1>2, <3>1, OthersElsewhere
      <4>2. Untouched(t, g)
        BY <1>1, <1>5, <2>0, <3>1 DEF Untouched
      <4> QED
        BY <1>1, <3>0, <4>1, <4>2, UntouchedKeeps, SuppliersKept
    <3>2. CASE t = s /\ g = f
      BY <1>1, <3>0, <3>2 DEF Filled, Executed, Ended
    <3>3. CASE t = s /\ g # f
      <4>1. \A S, I : Holds(s, g, S, I)' = Holds(s, g, S, I)
        BY <1>1, <1>5, <2>0, <3>3 DEF Holds, LastOf, By, request
      <4>2. Inlining(s, g)' = Inlining(s, g)
        BY <1>1 DEF Inlining, request
      <4>3. <<s, g>> \notin lost' => Holds(s, g, SuppliedSoFar(s, g), Inlining(s, g))
        BY <1>1, <3>0, <3>3 DEF Filled
      <4> QED
        BY <1>1, <1>3, <3>0, <3>3, <4>1, <4>2, <4>3 DEF Filled, Executed, Ended
    <3> QED
      BY <3>1, <3>2, <3>3
  <2>4. OutputsMatch'
    <3>1. \A t \in Steps : stage[t] \in Ended => t # s
      BY <1>1 DEF Ended
    <3> QED
      BY <1>1, <1>5, <2>0, <3>1 DEF DInv, OutputsMatch, IsOutput, TimeOf
  <2>5. DependenciesOver'
    BY <1>1 DEF DInv, DependenciesOver, request
  <2>6. RoundMatches'
    <3>1. \A t \in Steps : t # s => stage[t] # "materializing"
      BY <1>1, <1>2, OthersElsewhere
    <3>2. IF at <= Len(dep_map[s]) THEN todo \subseteq outputs[dep_map[s][at]] ELSE todo = {}
      BY <1>1 DEF DInv, RoundMatches
    <3> QED
      BY <1>1, <3>1, <3>2 DEF RoundMatches, request
  <2> QED
    BY <2>1, <2>2, <2>3, <2>4, <2>5, <2>6 DEF DInv
<1> QED
  BY <1>4, <1>5 DEF CopyOutputFails

-----------------------------------------------------------------------------
(* run_streaming and the executables *)

(* A step whose executable is started, or over, moves on: no file changes. *)
LEMMA MoveOnKeeps ==
  ASSUME DInv, NEW s \in Steps, UNCHANGED <<request, file, dir, launcher, wrote, lost, now>>,
         stage[s] \in {"launched", "running", "detected"},
         NEW next \in {"running"} \cup Ended, Goto(s, next),
         before' \in [Steps -> [Names -> Nat \cup {Absent}]],
         outputs' \in [Steps -> SUBSET Names],
         \A t \in Steps : t # s => before'[t] = before[t] /\ outputs'[t] = outputs[t],
         outputs'[s] = IF next \in Ended THEN {f \in Names : IsOutput(s, f)'} ELSE {},
         \A f \in Names : Executed(s, f)'
  PROVE  DInv'
<1> USE DEF Goto, request, launcher
<1>0. /\ stage \in [Steps -> Stages] /\ TypeOK /\ OwnFiles
      /\ next \notin {"waiting", "copying", "writing", "materializing", "launched"}
      /\ \A t \in Steps : dep_map[t] \in Seq(Steps)
  BY Basics DEF DInv, TypeOK, Ended
<1>1. TypeOK'
  BY <1>0 DEF TypeOK, Stages
<1>2. OwnFiles'
  BY <1>0 DEF OwnFiles
<1>3. DependenciesOver'
  <2>1. \A t \in Steps : stage'[t] # "waiting" => stage[t] # "waiting"
    BY <1>0
  <2>2. \A t \in Steps : stage[t] # "waiting" =>
          \A i \in DOMAIN dep_map[t] : dep_map[t][i] \in Steps /\ dep_map[t][i] # s
    BY <1>0 DEF DInv, DependenciesOver
  <2> QED
    BY <1>0, <2>1, <2>2 DEF DInv, DependenciesOver
<1>4. ASSUME NEW t \in Steps, t # s, stage[t] # "waiting"
      PROVE  /\ \A i \in DOMAIN dep_map[t] : outputs'[dep_map[t][i]] = outputs[dep_map[t][i]]
             /\ \A f \in Names : Supplying(t, f)' = Supplying(t, f)
  <2>1. \A i \in DOMAIN dep_map[t] : dep_map[t][i] \in Steps /\ dep_map[t][i] # s
    BY <1>0, <1>4 DEF DInv, DependenciesOver
  <2> QED
    BY <2>1 DEF Supplying
<1>5. ASSUME NEW t \in Steps, NEW f \in Names
      PROVE  Filled(t, f)' /\ Executed(t, f)'
  <2>1. Filled(t, f) /\ Executed(t, f)
    BY DEF DInv
  <2>2. CASE t = s
    BY <1>0, <2>2 DEF Filled
  <2>3. CASE t # s
    <3>1. Untouched(t, f)
      BY <1>0, <2>3 DEF Untouched
    <3>2. stage[t] \in {"materializing", "launched"} => Supplying(t, f)' = Supplying(t, f)
      BY <1>4, <2>3
    <3> QED
      BY <2>1, <3>1, <3>2, UntouchedKeeps
  <2> QED
    BY <2>2, <2>3
<1>6. OutputsMatch'
  <2>1. ASSUME NEW t \in Steps, t # s
        PROVE  /\ outputs'[t] = outputs[t] /\ stage'[t] = stage[t]
               /\ outputs[t] = IF stage[t] \in Ended THEN {f \in Names : IsOutput(t, f)} ELSE {}
               /\ \A f \in Names : IsOutput(t, f)' = IsOutput(t, f)
    BY <1>0, <2>1 DEF DInv, OutputsMatch, IsOutput, TimeOf
  <2>2. stage'[s] = next
    BY <1>0
  <2>3. \A t \in Steps :
          outputs'[t] = IF stage'[t] \in Ended THEN {f \in Names : IsOutput(t, f)'} ELSE {}
    BY <2>1, <2>2
  <2> QED
    BY <2>3 DEF OutputsMatch
<1>7. RoundMatches'
  <2>1. \A t \in Steps : stage'[t] = "materializing" => t # s /\ stage[t] = "materializing"
    BY <1>0
  <2>2. \A t \in Steps : stage'[t] = "materializing" => at \in Nat \ {0}
    BY <1>0 DEF TypeOK
  <2>3. ASSUME NEW t \in Steps, stage[t] = "materializing"
        PROVE  IF at <= Len(dep_map[t]) THEN todo \subseteq outputs[dep_map[t][at]] ELSE todo = {}
    BY <2>3 DEF DInv, RoundMatches
  <2> QED
    BY <1>0, <1>4, <2>1, <2>2, <2>3 DEF RoundMatches
<1> QED
  BY <1>1, <1>2, <1>3, <1>5, <1>6, <1>7 DEF DInv

LEMMA SnapshotKeeps ==
  ASSUME DInv, NEW s \in Steps, Snapshot(s)
  PROVE  DInv'
<1>1. /\ TypeOK /\ OwnFiles /\ OutputsMatch
      /\ \A f \in Names : file[<<s, f>>].time \in Nat /\ Absent \notin Nat
  BY Basics, FilesDiffer DEF DInv, Files
<1>2. \A f \in Names : dir[s][f] = Absent \/ dir[s][f] = <<s, f>>
  BY <1>1 DEF OwnFiles
<1>3. \A f \in Names : TimeOf(s, f) = IF dir[s][f] = Absent THEN Absent ELSE file[<<s, f>>].time
  BY <1>2 DEF TimeOf
<1>4. before' \in [Steps -> [Names -> Nat \cup {Absent}]]
  BY <1>1, <1>3 DEF Snapshot, TypeOK
<1>5. \A f \in Names : before'[s][f] = TimeOf(s, f)
  BY <1>1 DEF Snapshot, TypeOK
<1>6. \A f \in Names : Executed(s, f)'
  <2>1. \A f \in Names : f \notin wrote[s]
    BY DEF DInv, Executed, Snapshot, Ended
  <2>2. stage'[s] = "running"
    BY <1>1 DEF Snapshot, Goto, TypeOK
  <2> QED
    BY <1>1, <1>3, <1>5, <2>1, <2>2 DEF Executed, Snapshot
<1>7. outputs'[s] = {} /\ outputs' \in [Steps -> SUBSET Names]
  BY <1>1 DEF OutputsMatch, Snapshot, TypeOK, Ended
<1> DEFINE next == "running"
<1>8. /\ UNCHANGED <<request, file, dir, launcher, wrote, lost, now>>
      /\ stage[s] \in {"launched", "running", "detected"}
      /\ next \in {"running"} \cup Ended /\ next \notin Ended /\ Goto(s, next)
      /\ \A t \in Steps : t # s => before'[t] = before[t] /\ outputs'[t] = outputs[t]
  BY <1>1 DEF Snapshot, TypeOK, Ended
<1> QED
  BY <1>4, <1>6, <1>7, <1>8, MoveOnKeeps

LEMMA DetectKeeps ==
  ASSUME DInv, NEW s \in Steps, Detect(s)
  PROVE  DInv'
<1>1. TypeOK /\ OwnFiles
  BY DEF DInv
<1>2. \A f \in Names : IsOutput(s, f)' = IsOutput(s, f)
  BY DEF Detect, IsOutput, TimeOf
<1>3. \A f \in Names : Executed(s, f)'
  <2>1. stage'[s] = "detected"
    BY <1>1 DEF Detect, Goto, TypeOK
  <2> QED
    BY <2>1 DEF DInv, Executed, By, Detect, Ended
<1>4. outputs'[s] = {f \in Names : IsOutput(s, f)'} /\ outputs' \in [Steps -> SUBSET Names]
  BY <1>1, <1>2 DEF Detect, TypeOK
<1> DEFINE next == "detected"
<1>5. /\ UNCHANGED <<request, file, dir, launcher, wrote, lost, now>>
      /\ stage[s] \in {"launched", "running", "detected"}
      /\ next \in {"running"} \cup Ended /\ next \in Ended /\ Goto(s, next)
      /\ before' \in [Steps -> [Names -> Nat \cup {Absent}]]
      /\ \A t \in Steps : t # s => before'[t] = before[t] /\ outputs'[t] = outputs[t]
  BY <1>1 DEF Detect, TypeOK, Ended
<1> QED
  BY <1>3, <1>4, <1>5, MoveOnKeeps

LEMMA RecordKeeps ==
  ASSUME DInv, NEW s \in Steps, Record(s)
  PROVE  DInv'
<1>1. TypeOK /\ OwnFiles /\ OutputsMatch
  BY DEF DInv
<1>2. PICK next \in {"succeeded", "failed"} : Goto(s, next)
  BY DEF Record
<1>3. stage'[s] = next /\ next \in Ended
  BY <1>1, <1>2 DEF Goto, TypeOK, Ended
<1>4. \A f \in Names : Executed(s, f)'
  BY <1>3 DEF DInv, Executed, By, Record, Ended
<1>5. \A f \in Names : IsOutput(s, f)' = IsOutput(s, f)
  BY DEF Record, IsOutput, TimeOf
<1>6. outputs'[s] = {f \in Names : IsOutput(s, f)'} /\ outputs' \in [Steps -> SUBSET Names]
  BY <1>1, <1>5 DEF Record, OutputsMatch, TypeOK, Ended
<1>7. /\ UNCHANGED <<request, file, dir, launcher, wrote, lost, now>>
      /\ stage[s] \in {"launched", "running", "detected"}
      /\ before' \in [Steps -> [Names -> Nat \cup {Absent}]]
      /\ \A t \in Steps : t # s => before'[t] = before[t] /\ outputs'[t] = outputs[t]
  BY <1>1 DEF Record, TypeOK
<1> QED
  BY <1>2, <1>3, <1>4, <1>6, <1>7, MoveOnKeeps

LEMMA ExecutableWritesKeeps ==
  ASSUME DInv, NEW s \in Steps, NEW f \in Names, ExecutableWrites(s, f)
  PROVE  DInv'
<1> USE DEF request, launcher
<1>1. /\ TypeOK /\ OwnFiles /\ stage[s] = "running" /\ FromStep(s) \in Origins
      /\ \A x \in Files : file[x].time \in 0 .. now
      /\ now \in Nat /\ Absent \notin Nat
      /\ Workspace \notin Steps
  BY Basics, FilesDiffer, DirectoriesDiffer DEF DInv, ExecutableWrites
<1>2. /\ Create(s, f, FromStep(s))
      /\ wrote' = [wrote EXCEPT ![s] = wrote[s] \cup {f}]
      /\ UNCHANGED <<request, launcher, stage, before, outputs, lost, now>>
  BY <1>1, WriteIsCreate DEF ExecutableWrites
<1>3. /\ dir'[s][f] = <<s, f>>
      /\ file'[<<s, f>>] = [by |-> FromStep(s), time |-> now]
      /\ \A d \in Steps \cup {Workspace}, g \in Names : <<d, g>> # <<s, f>> =>
            dir'[d][g] = dir[d][g] /\ file'[<<d, g>>] = file[<<d, g>>]
      /\ dir' \in [Steps \cup {Workspace} -> [Names -> Files \cup {Absent}]]
      /\ file' \in [Files -> [by : Origins, time : 0 .. now]]
      /\ OwnFiles'
  BY <1>1, <1>2, CreateFrame
<1>4. TypeOK'
  BY <1>1, <1>2, <1>3 DEF TypeOK
<1>5. ASSUME NEW t \in Steps, NEW g \in Names
      PROVE  Filled(t, g)' /\ Executed(t, g)'
  <2>0. Filled(t, g) /\ Executed(t, g)
    BY DEF DInv
  <2>1. CASE t = s /\ g = f
    <3>1. before[s][f] # Absent => before[s][f] \in Nat /\ before[s][f] <= now
      <4>1. before[s][f] \in Nat \cup {Absent} /\ file[<<s, f>>].time \in 0 .. now
        BY <1>1 DEF TypeOK, Files
      <4>2. before[s][f] # Absent => before[s][f] <= file[<<s, f>>].time
        BY <1>1, <2>0, <2>1 DEF Executed
      <4> QED
        BY <1>1, <4>1, <4>2
    <3>2. dir'[s][f] # Absent
      BY <1>1, <1>3, Basics
    <3> QED
      BY <1>1, <1>2, <1>3, <2>1, <3>1, <3>2 DEF Filled, Executed, By
  <2>2. CASE ~(t = s /\ g = f)
    <3>1. Untouched(t, g)
      BY <1>1, <1>2, <1>3, <2>2 DEF Untouched, TypeOK
    <3> QED
      BY <1>2, <2>0, <3>1, UntouchedKeeps, SuppliersKept
  <2> QED
    BY <2>1, <2>2
<1>6. OutputsMatch'
  <2>1. ASSUME NEW t \in Steps, stage[t] \in Ended, NEW g \in Names
        PROVE  IsOutput(t, g)' <=> IsOutput(t, g)
    <3>1. t # s
      BY <1>1, <2>1 DEF Ended
    <3>2. dir'[t][g] = dir[t][g] /\ file'[<<t, g>>] = file[<<t, g>>]
      BY <1>3, <3>1
    <3>3. dir[t][g] \in {Absent, <<t, g>>}
      BY <1>1 DEF OwnFiles
    <3> QED
      BY <1>2, <3>2, <3>3 DEF IsOutput, TimeOf
  <2> QED
    BY <1>2, <2>1 DEF DInv, OutputsMatch
<1>7. DependenciesOver' /\ RoundMatches'
  BY <1>2 DEF DInv, DependenciesOver, RoundMatches
<1> QED
  BY <1>3, <1>4, <1>5, <1>6, <1>7 DEF DInv

(* The clock moves on; no time of a file is in the future. *)
LEMMA TickKeeps == DInv /\ Tick => DInv'
<1> SUFFICES ASSUME DInv, Tick PROVE DInv'
  OBVIOUS
<1> USE DEF Tick, request, launcher
<1>1. TypeOK'
  <2>1. now \in Nat /\ 0 .. now \subseteq 0 .. now'
    BY DEF DInv, TypeOK
  <2>2. file \in [Files -> [by : Origins, time : 0 .. now']]
    BY <2>1 DEF DInv, TypeOK
  <2> QED
    BY <2>1, <2>2 DEF DInv, TypeOK
<1>2. OwnFiles'
  BY DEF DInv, OwnFiles
<1>3. ASSUME NEW t \in Steps, NEW f \in Names
      PROVE  Filled(t, f)' /\ Executed(t, f)'
  <2>1. Filled(t, f) /\ Executed(t, f) /\ Untouched(t, f)
    BY DEF DInv, Untouched
  <2> QED
    BY <2>1, UntouchedKeeps, SuppliersKept
<1>4. OutputsMatch'
  BY DEF DInv, OutputsMatch, IsOutput, TimeOf
<1>5. DependenciesOver' /\ RoundMatches'
  BY DEF DInv, DependenciesOver, RoundMatches
<1> QED
  BY <1>1, <1>2, <1>3, <1>4, <1>5 DEF DInv

LEMMA StutterKeeps == DInv /\ UNCHANGED vars => DInv'
<1> SUFFICES ASSUME DInv, UNCHANGED vars PROVE DInv'
  OBVIOUS
<1> USE DEF vars, request, launcher
<1>1. TypeOK' /\ OwnFiles'
  BY DEF DInv, TypeOK, OwnFiles
<1>2. ASSUME NEW t \in Steps, NEW f \in Names
      PROVE  Filled(t, f)' /\ Executed(t, f)'
  <2>1. Filled(t, f) /\ Executed(t, f) /\ Untouched(t, f)
    BY DEF DInv, Untouched
  <2> QED
    BY <2>1, UntouchedKeeps, SuppliersKept
<1>3. OutputsMatch' /\ DependenciesOver' /\ RoundMatches'
  BY DEF DInv, OutputsMatch, IsOutput, TimeOf, DependenciesOver, RoundMatches
<1> QED
  BY <1>1, <1>2, <1>3 DEF DInv

LEMMA DNext == DInv /\ [Next]_vars => DInv'
<1> SUFFICES ASSUME DInv, [Next]_vars PROVE DInv'
  OBVIOUS
<1>1. ASSUME NEW s \in Steps, Launch(s)
      PROVE  DInv'
  BY <1>1, StartLaunchKeeps, CopyEntryKeeps, EntriesCopiedKeeps, WriteInputKeeps,
     InputsWrittenKeeps, NextDependencyKeeps, LaunchedKeeps, CopyOutputKeeps,
     CopyOutputFailsKeeps DEF Launch
<1>2. ASSUME NEW s \in Steps, Execute(s)
      PROVE  DInv'
  BY <1>2, SnapshotKeeps, DetectKeeps, RecordKeeps, ExecutableWritesKeeps DEF Execute
<1>3. CASE Tick
  BY <1>3, TickKeeps
<1>4. CASE Over \/ UNCHANGED vars
  BY <1>4, StutterKeeps DEF Over
<1> QED
  BY <1>1, <1>2, <1>3, <1>4 DEF Next

(* The invariant holds of every behaviour of the directories. *)
THEOREM DirectoryInvariant == Spec => []DInv
<1>1. Init => DInv
  BY DInit
<1>2. DInv /\ [Next]_vars => DInv'
  BY DNext
<1> QED
  BY <1>1, <1>2, PTL DEF Spec

-----------------------------------------------------------------------------
(* What it implies *)

(* launch_step and run_streaming keep their variables well-formed, and one *)
(* step at most is in launch_step's loops.                                 *)
THEOREM DirectoryTypes == Spec => []TypeOK
<1>1. DInv => TypeOK
  BY DEF DInv
<1> QED
  BY <1>1, DirectoryInvariant, PTL

(* A step's executable starts on the files that populate_run_dir and       *)
(* materialize_dependency_outputs are meant to put there: the last         *)
(* dependency's, else the last inline input's, else the workspace's.       *)
THEOREM StepsRunOnMeantFiles == Spec => []RunsOnMeantFiles
<1>1. DInv => RunsOnMeantFiles
  <2> SUFFICES ASSUME DInv, NEW s \in Steps, NEW f \in Names,
                      stage[s] = "launched", <<s, f>> \notin lost
               PROVE  IF dir[s][f] # Absent THEN Meant(s, f, By(s, f))
                      ELSE /\ Supplying(s, f) \cup Inlining(s, f) = {}
                           /\ dir[Workspace][f] = Absent
    BY DEF DInv, OwnFiles, RunsOnMeantFiles, By
  <2>1. Holds(s, f, Supplying(s, f), Inlining(s, f))
    BY DEF DInv, Filled
  <2>2. CASE Supplying(s, f) # {}
    BY <2>1, <2>2 DEF Holds, Meant
  <2>3. CASE Supplying(s, f) = {}
    BY <2>1, <2>3 DEF Holds, Meant
  <2> QED
    BY <2>2, <2>3
<1> QED
  BY <1>1, DirectoryInvariant, PTL

(* The names detect_outputs returns are of files the step's own executable *)
(* wrote, whatever other steps do with copies of them.                     *)
THEOREM OutputsAreOwn == Spec => []OutputsOwn
<1>1. DInv => OutputsOwn
  <2> SUFFICES ASSUME DInv, NEW s \in Steps, NEW f \in outputs[s]
               PROVE  dir[s][f] # Absent /\ file[dir[s][f]].by = FromStep(s)
    BY DEF OutputsOwn
  <2>1. TypeOK /\ OwnFiles
    BY DEF DInv
  <2>2. stage[s] \in Ended /\ f \in Names /\ IsOutput(s, f)
    BY DEF DInv, OutputsMatch
  <2>3. /\ dir[s][f] # Absent
        /\ before[s][f] = Absent \/ file[<<s, f>>].time > before[s][f]
    BY <2>1, <2>2, OutputTest
  <2>4. file[<<s, f>>].time \in Nat /\ Absent \notin Nat
    BY <2>1, <2>2, Basics, FilesDiffer DEF Files
  <2>5. By(s, f) = FromStep(s)
    BY <2>2, <2>3, <2>4 DEF DInv, Executed
  <2> QED
    BY <2>1, <2>2, <2>3, <2>5 DEF OwnFiles, By
<1> QED
  BY <1>1, DirectoryInvariant, PTL

(* detect_outputs misses a file only when its time is what it was in the   *)
(* snapshot.                                                               *)
THEOREM MissedWithinTick == Spec => []MissedOnlyWithinTick
<1>1. DInv => MissedOnlyWithinTick
  <2> SUFFICES ASSUME DInv, NEW s \in Steps, stage[s] \in Ended,
                      NEW f \in wrote[s], f \notin outputs[s]
               PROVE  before[s][f] # Absent /\ TimeOf(s, f) = before[s][f]
    BY DEF MissedOnlyWithinTick
  <2>1. TypeOK /\ OwnFiles /\ f \in Names
    BY DEF DInv, TypeOK
  <2>2. Executed(s, f) /\ outputs[s] = {g \in Names : IsOutput(s, g)}
    BY <2>1 DEF DInv, OutputsMatch
  <2>3. dir[s][f] = <<s, f>> /\ dir[s][f] # Absent
    BY <2>1, <2>2 DEF Executed, OwnFiles
  <2>4. before[s][f] # Absent /\ ~(file[<<s, f>>].time > before[s][f])
    BY <2>1, <2>2, <2>3, OutputTest
  <2>5. before[s][f] <= file[<<s, f>>].time
    BY <2>2, <2>4 DEF Executed
  <2>6. before[s][f] \in Nat /\ file[<<s, f>>].time \in Nat
    BY <2>1, <2>4, Basics DEF TypeOK, Files
  <2> QED
    BY <2>3, <2>4, <2>5, <2>6 DEF TimeOf
<1> QED
  BY <1>1, DirectoryInvariant, PTL

(* Steps work on copies: no executable reaches a file of the workspace.    *)
THEOREM WorkspaceStaysUntouched == Spec => []WorkspaceUntouched
<1>1. DInv => WorkspaceUntouched
  BY DEF DInv, OwnFiles, WorkspaceUntouched
<1> QED
  BY <1>1, DirectoryInvariant, PTL
==============================================================================
