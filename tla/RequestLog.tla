----------------------------- MODULE RequestLog -----------------------------
(***************************************************************************)
(* broker_addon.py's request log: a line for every decision, trimmed to    *)
(* its recent half when every so many writes find it too long.  A line     *)
(* counts 1.  Trimming empties the file before it writes it again, and     *)
(* the gateway may be killed in between, or the disk be full.              *)
(***************************************************************************)
EXTENDS Naturals, Sequences, SequencesExt

CONSTANTS
    LogMax,       \* REQUEST_LOG_MAX, in lines
    TrimEvery,    \* writes between two looks at the size: 200
    MaxDecisions, \* bound on the decisions
    MaxSetbacks   \* bound on restarts and trims that fail

ASSUME RequestLogAssumption ==
    /\ LogMax \in Nat \ {0, 1}
    /\ TrimEvery \in Nat \ {0}
    /\ MaxDecisions \in Nat /\ MaxSetbacks \in Nat

VARIABLES
    lines,    \* the file: numbers of decisions, 0 where a line cannot be parsed
    ended,    \* does its last line end?
    stage,    \* "record", or where _trim is: "look", "rewrite"
    tail,     \* what _trim has read and is going to write
    writes,   \* of this process, modulo TrimEvery
    decided,  \* decisions so far
    setbacks  \* history: restarts, and trims that failed

requestLogVars == <<lines, ended, stage, tail, writes, decided, setbacks>>

RequestLogInit ==
    /\ lines = <<>> /\ ended = TRUE
    /\ stage = "record"
    /\ tail = <<>>
    /\ writes = 0
    /\ decided = 0
    /\ setbacks = 0

\* The line goes behind what a cut write has left there, or, when the file cannot
\* be opened, nowhere; only a "whole" one counts towards the next trim.
Decide(outcome) ==
    LET id    == IF outcome # "torn" /\ ended THEN decided' ELSE 0
        above == IF ended THEN lines ELSE Front(lines)
        due   == outcome = "whole" /\ writes + 1 = TrimEvery
    IN  /\ stage = "record"
        /\ decided < MaxDecisions
        /\ decided' = decided + 1
        /\ IF outcome = "lost" THEN UNCHANGED <<lines, ended>>
           ELSE lines' = Append(above, id) /\ ended' = (outcome = "whole")
        /\ writes' = IF due THEN 0 ELSE IF outcome = "whole" THEN writes + 1 ELSE writes
        /\ stage' = IF due THEN "look" ELSE "record"
        /\ UNCHANGED <<tail, setbacks>>

\* What follows the line that the seek has landed in.
RecentHalf == SubSeq(lines, Len(lines) - (LogMax + 1) \div 2 + 2, Len(lines))

\* A variant that opens the file for appending, for RequestLogIsALog.
TrimAppending ==
    /\ stage = "look"
    /\ stage' = "record"
    /\ lines' = IF Len(lines) <= LogMax THEN lines ELSE lines \o RecentHalf
    /\ UNCHANGED <<ended, tail, writes, decided, setbacks>>

\* A variant that looks for a file twice as long, for SizeBounded.
TrimLate ==
    /\ stage = "look"
    /\ IF Len(lines) <= 2 * LogMax
       THEN stage' = "record" /\ UNCHANGED <<lines, ended, tail>>
       ELSE /\ tail' = RecentHalf
            /\ lines' = <<>> /\ ended' = TRUE
            /\ stage' = "rewrite"
    /\ UNCHANGED <<writes, decided, setbacks>>

\* The recent half is read and the file is opened for writing, which empties it.
Trim ==
    /\ stage = "look"
    /\ IF Len(lines) <= LogMax
       THEN stage' = "record" /\ UNCHANGED <<lines, ended, tail>>
       ELSE /\ tail' = RecentHalf
            /\ lines' = <<>> /\ ended' = TRUE
            /\ stage' = "rewrite"
    /\ UNCHANGED <<writes, decided, setbacks>>

\* The size cannot be read, or the file not be opened for reading or for writing:
\* it stays as it is, and is not looked at before as many writes again.
TrimFails ==
    /\ stage = "look"
    /\ setbacks < MaxSetbacks
    /\ stage' = "record"
    /\ setbacks' = setbacks + 1
    /\ UNCHANGED <<lines, ended, tail, writes, decided>>

\* The tail is written, or its first k lines, "cut" at the end of the last one
\* or "torn" in the next.
Rewrite(k, outcome) ==
    /\ stage = "rewrite"
    /\ CASE outcome = "whole" -> k = Len(tail)
         [] outcome = "cut"   -> k > 0
         [] outcome = "torn"  -> k < Len(tail)
    /\ lines' = SubSeq(tail, 1, k) \o (IF outcome = "torn" THEN <<0>> ELSE <<>>)
    /\ ended' = (outcome = "whole")
    /\ tail' = <<>>
    /\ stage' = "record"
    /\ UNCHANGED <<writes, decided, setbacks>>

\* The gateway is killed and starts again: the counter too.
Restarted ==
    /\ setbacks < MaxSetbacks
    /\ setbacks' = setbacks + 1
    /\ stage' = "record"
    /\ tail' = <<>>
    /\ writes' = 0
    /\ UNCHANGED <<lines, ended, decided>>

RequestLogNext ==
    \/ \E outcome \in {"whole", "cut", "torn", "lost"} : Decide(outcome)
    \/ \E outcome \in {"whole", "cut", "torn"}, k \in 0 .. Len(tail) : Rewrite(k, outcome)
    \/ Trim \/ TrimFails
    \/ Restarted

RequestLogSpec == RequestLogInit /\ [][RequestLogNext]_requestLogVars

-----------------------------------------------------------------------------
(* Properties.                                                             *)

\* What is in the file, or about to be in it again, and can be read.
Text == IF stage = "rewrite" THEN tail ELSE lines

Legible == {i \in DOMAIN Text : Text[i] # 0}

Told == {Text[i] : i \in Legible}

Decisions == INSTANCE RecordLog WITH
    log    <- Told,
    before <- {p \in Told \X Told : \E i, j \in Legible : i < j /\ p = <<Text[i], Text[j]>>},
    next   <- decided + 1

\* Trimming, cut writes and restarts lose decisions in blocks; none is written
\* twice or out of order, and what is gone does not come back.
RequestLogIsALog == Decisions!LogSpec

\* What is left of docs/SANDBOX-PLAN.md's "Size-capped ring": between two looks at
\* its size the file grows by TrimEvery lines, and by as many again for each restart,
\* because the count of the writes starts over, and for each trim that fails.  There
\* is no cap that would hold through any number of these.
SizeBounded == Len(lines) <= LogMax + TrimEvery * (1 + setbacks)
=============================================================================
