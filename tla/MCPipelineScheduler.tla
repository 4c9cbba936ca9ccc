------------------------- MODULE MCPipelineScheduler -------------------------
(* A small instance of PipelineScheduler for TLC. *)
EXTENDS PipelineScheduler, TLC

CONSTANTS a, b, c, d   \* step ids

FourSteps == {a, b, c, d}

(* Every depends_on list of at most two entries, repeated entries included. *)
ListsUpTo2 == UNION {[1 .. k -> FourSteps] : k \in 0 .. 2}

StepSymmetry == Permutations(FourSteps)
==============================================================================
