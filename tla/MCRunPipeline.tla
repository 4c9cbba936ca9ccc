---------------------------- MODULE MCRunPipeline ----------------------------
(* A small instance of RunPipeline for TLC. *)
EXTENDS RunPipeline

CONSTANTS a, b   \* step ids

TwoSteps == {a, b}

(* Two independent steps, and a step that names its dependency twice. *)
Lists == {<<>>, <<a, a>>}

(* No file, one file of two chunks, two files. *)
Files == {<<>>, <<2>>, <<1, 1>>}
==============================================================================
