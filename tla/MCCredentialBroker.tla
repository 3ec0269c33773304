------------------------- MODULE MCCredentialBroker -------------------------
(***************************************************************************)
(* CredentialBroker with one writer thread, two hosts that one pattern     *)
(* covers, and one handle.                                                 *)
(***************************************************************************)
EXTENDS CredentialBroker, TLC

CONSTANTS h1, h2, p1, n1, v1, v2

Only(v) == [x \in {n1} |-> v]

MCSubmitted == {Only(v1), Only(v2)}
MCMatching  == {<<h1, p1>>}
=============================================================================
