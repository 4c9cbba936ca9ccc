------------------------------ MODULE RunContract ------------------------------
(***************************************************************************)
(* What a client of Run is promised (proto/at/runner/v1/runner.proto,      *)
(* above RunOutput, and ARCHITECTURE.md:252-256): the stream has four      *)
(* phases in order, started, output, completed and file; it may break off  *)
(* after any of them, says at most once how the executable ended, and says *)
(* nothing more of that afterwards.                                        *)
(***************************************************************************)

VARIABLES phase,    \* the phase of the last message the client has had
          status    \* what it has been told of the executable's end

Verdicts == {"completed", "signaled", "timed_out"}

Init == phase = "none" /\ status = "unspecified"

Started ==
    /\ phase = "none"
    /\ phase' = "started"
    /\ UNCHANGED status

Output ==
    /\ phase \in {"started", "output"}
    /\ phase' = "output"
    /\ UNCHANGED status

Completed ==
    /\ phase \in {"started", "output"}
    /\ phase' = "completed"
    /\ status' \in Verdicts

File ==
    /\ phase \in {"completed", "file"}
    /\ phase' = "file"
    /\ UNCHANGED status

Next == Started \/ Output \/ Completed \/ File

Spec == Init /\ [][Next]_<<phase, status>>
==============================================================================
