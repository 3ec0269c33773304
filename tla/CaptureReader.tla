---------------------------- MODULE CaptureReader ----------------------------
(***************************************************************************)
(* broker/flywheel.py on the host: it lists the capture files and reads    *)
(* them one after the other while the gateway goes on writing.             *)
(***************************************************************************)
EXTENDS FlywheelCapture

VARIABLES
    todo, \* the files that load has listed and not read yet
    got,  \* the records it has yielded
    job   \* "reading", "done", "failed" by an exception, or "idle"

readerVars == <<todo, got, job>>

ReaderInit == todo = {} /\ got = <<>> /\ job = "idle"

\* The order of the names as strings: a day's current file comes first.
NameBefore(n, m) == n.day < m.day \/ (n.day = m.day /\ n.stamp <= m.stamp)

\* load lists the files; without any, the command ends.
List ==
    /\ job = "idle"
    /\ IF DOMAIN files = {} THEN job' = "failed" /\ UNCHANGED todo
       ELSE job' = "reading" /\ todo' = DOMAIN files
    /\ UNCHANGED <<captureVars, got>>

\* The next file in that order, or an exception if the gateway has renamed or
\* removed it.  Lines that cannot be parsed are passed over.
ReadFile ==
    /\ job = "reading"
    /\ \E file \in todo :
          /\ \A n \in todo : NameBefore(file, n)
          /\ IF file \notin DOMAIN files THEN job' = "failed" /\ todo' = {} /\ UNCHANGED got
             ELSE /\ got' = got \o files[file].lines
                  /\ todo' = todo \ {file}
                  /\ job' = IF todo' = {} THEN "done" ELSE "reading"
    /\ UNCHANGED captureVars

\* The command has ended and the next one is given.
Again ==
    /\ job \in {"done", "failed"}
    /\ job' = "idle" /\ got' = <<>> /\ todo' = {}
    /\ UNCHANGED captureVars

ReaderNext ==
    \/ CaptureNext /\ UNCHANGED readerVars
    \/ List \/ ReadFile \/ Again

ReaderSpec == CaptureInit /\ ReaderInit /\ [][ReaderNext]_<<captureVars, readerVars>>

-----------------------------------------------------------------------------
(* Properties.                                                             *)

\* No record is counted twice, although files are renamed while they are read,
\* unless a rotated file took the name of one that was listed.
ReadOnce == ~overlap => IsInjective(got)

\* "tail: the most recent calls", however many of them are asked for.
TailIsRecent ==
    job = "done" =>
        \A n \in DOMAIN got : \A p, q \in DOMAIN got :
            p <= Len(got) - n /\ q > Len(got) - n => got[p] < got[q]
=============================================================================
