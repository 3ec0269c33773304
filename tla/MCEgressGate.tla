---------------------------- MODULE MCEgressGate ----------------------------
(* One host, under a pattern of its own and under one that covers no other *)
(* host; each pattern may stand in the list plain, with ! and with a note. *)
EXTENDS EgressGate, TLC

CONSTANTS h1, p1, a1, a2

OneCovers == {<<p1, h1>>}

ThreeLines == {[pattern |-> p1, splice |-> FALSE, noted |-> FALSE],
               [pattern |-> p1, splice |-> TRUE, noted |-> FALSE],
               [pattern |-> p1, splice |-> FALSE, noted |-> TRUE]}

\* Lists without notes, for the run that is not about them.
PlainLines == {l \in ThreeLines : ~l.noted}

Symmetry == Permutations(Addresses)
=============================================================================
