-------------------------- MODULE MCCredentialStore --------------------------
(***************************************************************************)
(* CredentialStore on two connection threads, one host whose record can    *)
(* hold two headers, and two handles.                                      *)
(***************************************************************************)
EXTENDS CredentialStore, TLC

CONSTANTS h1, n1, n2, v1

\* Two records that share no header, so that a mixture of them shows.
MCSubmitted == {[n \in {n1, n2} |-> IF n = n1 THEN v1 ELSE NoValue],
                [n \in {n1, n2} |-> IF n = n2 THEN v1 ELSE NoValue]}
=============================================================================
