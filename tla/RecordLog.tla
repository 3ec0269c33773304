------------------------------ MODULE RecordLog ------------------------------
(***************************************************************************)
(* What the gateway's two logs promise their reader: records are numbered  *)
(* as they come, come in at the end, keep their order, and one that is     *)
(* missed or gone stays so.  What goes at a time is a block of neighbours: *)
(* the files that are pruned, the half that is trimmed, or the last record *)
(* when the one behind it tears its line.                                  *)
(***************************************************************************)
EXTENDS Naturals

VARIABLES
    log,    \* the records that can be read
    before, \* their order: the pairs of which the first is read before the second
    next    \* the number of the next one

LogInit == log = {} /\ before = {} /\ next = 1

\* Does what stands between two of them go with them?
AreNeighbours(gone) ==
    \A a, c \in gone, b \in log : {<<a, b>>, <<b, c>>} \subseteq before => b \in gone

Keep(rest) == log' = rest /\ before' = before \cap (rest \X rest)

Record ==
    /\ log' = log \cup {next}
    /\ before' = before \cup (log \X {next})
    /\ next' = next + 1

Miss ==
    /\ \/ Keep(log)
       \/ \E last \in log : (\A a \in log \ {last} : <<a, last>> \in before) /\ Keep(log \ {last})
    /\ next' = next + 1

Lose ==
    /\ \E gone \in SUBSET log : AreNeighbours(gone) /\ Keep(log \ gone)
    /\ UNCHANGED next

LogSpec == LogInit /\ [][Record \/ Miss \/ Lose]_<<log, before, next>>
=============================================================================
