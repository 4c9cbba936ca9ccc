-------------------------- MODULE MCValidatePipeline --------------------------
(* Small instances of ValidatePipeline for TLC. *)
EXTENDS ValidatePipeline

CONSTANTS a, b, c, x   \* step ids; no step is called x

AllIds == {a, b, c, x}

SequencesUpTo(n, S) == UNION {[1..k -> S] : k \in 0..n}

(* Every request of at most two steps over two ids, where a step may be    *)
(* invalid, repeat the other's id, or depend on either id or on none.      *)
SmallRequests ==
    SequencesUpTo(2, [id : {a, b}, valid : BOOLEAN,
                      depends_on : SequencesUpTo(2, {a, b, x})])

(* Every graph over three steps with at most two dependencies per step,    *)
(* repeated and self dependencies included.                                *)
ThreeStepRequests ==
    {<<[id |-> a, valid |-> TRUE, depends_on |-> g[a]],
       [id |-> b, valid |-> TRUE, depends_on |-> g[b]],
       [id |-> c, valid |-> TRUE, depends_on |-> g[c]]>> :
     g \in [{a, b, c} -> SequencesUpTo(2, {a, b, c})]}

MCRequests == SmallRequests \cup ThreeStepRequests
==============================================================================
