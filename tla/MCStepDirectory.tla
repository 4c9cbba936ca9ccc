---------------------------- MODULE MCStepDirectory ----------------------------
(* A small instance of StepDirectory for TLC. *)
EXTENDS StepDirectory

CONSTANTS a, b, c, f

(* c may depend on both others, in either order, and b on a. *)
Lists == {<<>>, <<a>>, <<a, b>>, <<b, a>>}

Inputs == {<<>>, <<f, f>>}
==============================================================================
