--------------------------- MODULE FlywheelCapture ---------------------------
(***************************************************************************)
(* flywheel_addon.py: the calls to models that the gateway writes to its   *)
(* capture directory, one file a day, rotated by size and pruned by a      *)
(* total budget.                                                           *)
(*                                                                         *)
(* mitmproxy runs one hook at a time; the process may be killed between    *)
(* two system calls, and a write may be cut short by a crash or by a full  *)
(* disk.  A record counts 1 in a file's size, whatever became of its line. *)
(***************************************************************************)
EXTENDS Naturals, Sequences, FiniteSets, SequencesExt

CONSTANTS
    Calls,     \* what an HTTP exchange may be: a subset of Exchanges
    FileMax,   \* FILE_MAX, in records
    TotalMax,  \* TOTAL_MAX, in records
    DayLength, \* seconds in a day
    MaxTime,   \* bound on the clock, in seconds
    MaxRecords \* bound on the calls that are recorded

\* An "outsized" request is over BODY_MAX: it is cut, and what is left of JSON
\* does not parse.
Exchanges == [path : {"llm", "other"}, status : {"ok", "error"},
              request : {"object", "text", "outsized"}]

ASSUME CaptureAssumption ==
    /\ Calls \subseteq Exchanges
    /\ {FileMax, TotalMax, MaxRecords} \subseteq Nat
    /\ {DayLength, MaxTime} \subseteq Nat \ {0}

VARIABLES
    enabled,
    now,      \* time.time()
    files,    \* the capture directory: a function from names to files
    step,     \* what _append does next
    path,     \* the name it has computed
    calls,    \* history: the exchange behind each record
    rotated,  \* history: when a file was rotated last, 0 for never
    overlap,  \* history: two files were rotated in the same second
    unpruned  \* history: records written since a prune last ended well

captureVars == <<enabled, now, files, step, path, calls, rotated, overlap, unpruned>>

\* capture-<day>.jsonl, and capture-<day>.jsonl.<seconds> once it is rotated.
Name(day, stamp) == [day |-> day, stamp |-> stamp]
NoStamp  == 0
Names    == [day : 0 .. MaxTime, stamp : 0 .. MaxTime]
Ids      == 1 .. MaxRecords
Recorded == [path : {"llm"}, status : {"ok"}, request : {"object"}]

\* The numbers of the records that can be read; what became of the line that was
\* written last: "whole", "cut" of its end only, or "torn" before that; and the
\* time, as the number of the record that was written last.
File == [lines : Seq(Ids), last : {"whole", "cut", "torn"}, size : Nat, mtime : Ids]

CaptureTypeOK ==
    /\ enabled \in BOOLEAN
    /\ now \in 1 .. MaxTime
    /\ DOMAIN files \subseteq Names
    /\ \A n \in DOMAIN files :
          /\ files[n] \in File /\ Len(files[n].lines) <= files[n].size
          /\ files[n].last = "cut" => files[n].lines # <<>>
    /\ step \in {"idle", "rotate", "prune", "write"}
    /\ path \in Names /\ path.stamp = NoStamp
    /\ calls \in Seq(Recorded) /\ Len(calls) <= MaxRecords
    /\ rotated \in 0 .. now
    /\ overlap \in BOOLEAN
    /\ unpruned \in 0 .. MaxRecords

CaptureInit ==
    /\ enabled \in BOOLEAN
    /\ now = 1
    /\ files = <<>>
    /\ step = "idle"
    /\ path = Name(0, NoStamp)
    /\ calls = <<>>
    /\ rotated = 0 /\ overlap = FALSE
    /\ unpruned = 0

Without(dir, n) == [m \in DOMAIN dir \ {n} |-> dir[m]]
With(dir, n, file) == [m \in DOMAIN dir \cup {n} |-> IF m = n THEN file ELSE dir[m]]

\* The space that the files take, as places in them.
Space(dir) == UNION {{n} \X (1 .. dir[n].size) : n \in DOMAIN dir}

Total(dir) == Cardinality(Space(dir))

-----------------------------------------------------------------------------
(* response, and the writing of a record.                                  *)

\* A variant that records refusals too, for CaptureTypeOK.
LearnsAny(call) == call.path = "llm" /\ call.request = "object"

\* A call to a model that was answered, with a request that is JSON.
Learns(call) ==
    /\ call.path = "llm"
    /\ call.status = "ok"
    /\ call.request = "object"

Respond(call) ==
    /\ enabled /\ step = "idle"
    /\ Len(calls) < MaxRecords
    /\ Learns(call)
    /\ calls' = Append(calls, call)
    /\ path' = Name(now \div DayLength, NoStamp)
    /\ step' = "rotate"
    /\ UNCHANGED <<enabled, now, files, rotated, overlap, unpruned>>

\* A variant that copies the file, for FlywheelIsALog and ReadOnce.
RotateCopying ==
    LET full == path \in DOMAIN files /\ files[path].size > FileMax
        new  == Name(path.day, now)
    IN  /\ step = "rotate"
        /\ IF full
           THEN /\ files' = With(files, new, files[path])
                /\ rotated' = now /\ overlap' = (overlap \/ rotated = now)
                /\ step' = "prune"
           ELSE step' = "write" /\ UNCHANGED <<files, rotated, overlap>>
        /\ UNCHANGED <<enabled, now, path, calls, unpruned>>

\* A file that is over the limit gets a name with the time; a file that has
\* that name already is replaced.
Rotate ==
    LET full == path \in DOMAIN files /\ files[path].size > FileMax
        new  == Name(path.day, now)
    IN  /\ step = "rotate"
        /\ IF full
           THEN /\ files' = With(Without(files, path), new, files[path])
                /\ rotated' = now /\ overlap' = (overlap \/ rotated = now)
                /\ step' = "prune"
           ELSE step' = "write" /\ UNCHANGED <<files, rotated, overlap>>
        /\ UNCHANGED <<enabled, now, path, calls, unpruned>>

\* A variant that starts at the other end, for OldestGoFirst.
Newest == CHOOSE n \in DOMAIN files : \A m \in DOMAIN files : files[n].mtime >= files[m].mtime

Oldest == CHOOSE n \in DOMAIN files : \A m \in DOMAIN files : files[n].mtime <= files[m].mtime

\* A variant that counts rotated files only, for BudgetHolds.
PruneRotated ==
    /\ step = "prune"
    /\ IF Total([n \in {m \in DOMAIN files : m.stamp # NoStamp} |-> files[n]]) > TotalMax
       THEN files' = Without(files, Oldest) /\ UNCHANGED <<step, unpruned>>
       ELSE step' = "write" /\ unpruned' = 0 /\ UNCHANGED files
    /\ UNCHANGED <<enabled, now, path, calls, rotated, overlap>>

\* One file after the other, until the rest is within the budget.
Prune ==
    /\ step = "prune"
    /\ IF Total(files) > TotalMax
       THEN files' = Without(files, Oldest) /\ UNCHANGED <<step, unpruned>>
       ELSE step' = "write" /\ unpruned' = 0 /\ UNCHANGED files
    /\ UNCHANGED <<enabled, now, path, calls, rotated, overlap>>

\* A file that cannot be looked at or removed ends the pruning.
PruneFails ==
    /\ step = "prune"
    /\ step' = "write"
    /\ UNCHANGED <<enabled, now, files, path, calls, rotated, overlap, unpruned>>

\* The line goes to the end of the file.  Behind a line that lacks its end it
\* spoils that one and cannot be read itself.
Write(outcome) ==
    LET id  == Len(calls)
        old == IF path \in DOMAIN files THEN files[path]
               ELSE [lines |-> <<>>, last |-> "whole", size |-> 0, mtime |-> id]
    IN  /\ step = "write"
        /\ files' = With(files, path,
              [lines |-> CASE old.last = "whole" /\ outcome # "torn" -> Append(old.lines, id)
                           [] old.last = "cut" -> Front(old.lines)
                           [] OTHER -> old.lines,
               last  |-> IF outcome = "cut" /\ old.last # "whole" THEN "torn" ELSE outcome,
               size  |-> old.size + 1,
               mtime |-> id])
        /\ unpruned' = unpruned + 1
        /\ step' = "idle"
        /\ UNCHANGED <<enabled, now, path, calls, rotated, overlap>>

\* The rename or the open fails: the record is dropped with a warning.
AppendFails ==
    /\ step \in {"rotate", "write"}
    /\ step' = "idle"
    /\ UNCHANGED <<enabled, now, files, path, calls, rotated, overlap, unpruned>>

\* The gateway stops and starts; without a directory it captures nothing.
Restart(usable) ==
    /\ step' = "idle"
    /\ enabled' = usable
    /\ UNCHANGED <<now, files, path, calls, rotated, overlap, unpruned>>

Tick ==
    /\ now < MaxTime
    /\ now' = now + 1
    /\ UNCHANGED <<enabled, files, step, path, calls, rotated, overlap, unpruned>>

CaptureNext ==
    \/ \E call \in Calls : Respond(call)
    \/ Rotate \/ Prune \/ PruneFails \/ AppendFails
    \/ \E outcome \in {"whole", "cut", "torn"} : Write(outcome)
    \/ \E usable \in BOOLEAN : Restart(usable)
    \/ Tick

CaptureSpec == CaptureInit /\ [][CaptureNext]_captureVars

-----------------------------------------------------------------------------
(* Properties.                                                             *)

\* The records that can be read, and their order: that of the lines in a file,
\* and that of the files by the time they were written last.
Captured == UNION {Range(files[n].lines) : n \in DOMAIN files}

CapturedBefore ==
    {p \in Captured \X Captured :
        \E n, m \in DOMAIN files :
            \E i \in DOMAIN files[n].lines, j \in DOMAIN files[m].lines :
                /\ p = <<files[n].lines[i], files[m].lines[j]>>
                /\ IF n = m THEN i < j ELSE files[n].mtime <= files[m].mtime}

Flywheel == INSTANCE RecordLog WITH
    log    <- Captured,
    before <- CapturedBefore,
    next   <- IF step = "idle" THEN Len(calls) + 1 ELSE Len(calls)

\* Rotation, pruning, cut writes and restarts lose records in blocks; none is
\* written twice or out of order, and what is gone does not come back.
FlywheelIsALog == Flywheel!LogSpec

\* "oldest rotated file first": what a prune leaves is newer than what it takes.
OldestGoFirst ==
    [][step = "prune" => \A a \in Captured \ Captured', b \in Captured' : a < b]_captureVars

\* The directory is over its budget by what was written since the last prune at
\* most: a rotation that prunes brings it back, whatever has piled up.
BudgetHolds == Total(files) <= TotalMax + unpruned
=============================================================================
