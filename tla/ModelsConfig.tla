---------------------------- MODULE ModelsConfig ----------------------------
(***************************************************************************)
(* models_config.py: the provider block that a launch writes into a        *)
(* harness's model file, in a home that several sandboxes share.           *)
(*                                                                         *)
(* The files are the model file, its backup, the temporary file and the    *)
(* marker.  A launch is a process of its own; nothing locks the files, and *)
(* it may be interrupted between any two system calls.  The user edits the *)
(* model file and deletes the marker to take the file over.                *)
(***************************************************************************)
EXTENDS Naturals

CONSTANTS
    Launches,   \* runs of models_config.py on one file
    Names,      \* provider names
    Blocks,     \* what a provider block can say
    Texts,      \* what the user writes into the model file
    MaxCrashes, \* bound on interrupted launches
    MaxEdits,   \* bound on what the user does
    Absent      \* "no such file", "no such provider"

Providers == [Names -> Blocks \cup {Absent}]
Nothing   == [n \in Names |-> Absent]
Request   == [name : Names, block : Blocks]

\* "empty" has been opened for writing, "garbled" was written by two launches
\* and "broken" by a user who made a mistake.
Whole(data) == [state |-> "whole", data |-> data]
Empty       == [state |-> "empty", data |-> Nothing]
Garbled     == [state |-> "garbled", data |-> Nothing]
Broken      == [state |-> "broken", data |-> Nothing]
Written     == {Whole(data) : data \in Providers}
Contents    == Written \cup {Empty, Garbled, Broken}

ASSUME ConfigAssumption ==
    /\ MaxCrashes \in Nat
    /\ MaxEdits \in Nat
    /\ Absent \notin Blocks \cup Contents \cup Request
    /\ Texts \subseteq Written \cup {Broken}

VARIABLES
    format,   \* of the model file: "json", or "yaml" for omp
    live,     \* the model file
    backup,   \* <file>.pre-sandbox
    tmp,      \* <file>.tmp
    marker,   \* is there a <file>.sandbox-generated?
    pc,       \* the system call a launch makes next
    want,     \* the provider it was told to write
    config,   \* what it has in memory
    fd,       \* the name of the file it is writing
    crashes, edits,
    raced,    \* history: two launches were on the file at the same time
    quiet,    \* history: nobody else changed a file since the launch looked
    entrusted \* history: the user's file that a launch must not destroy

files      == <<format, live, backup, tmp, marker>>
bounds     == <<crashes, edits>>
configVars == <<files, pc, want, config, fd, bounds, raced, quiet, entrusted>>

Stages == {"idle", "look", "aside", "read", "open", "write", "replace", "mark"}

ConfigTypeOK ==
    /\ format \in {"json", "yaml"}
    /\ {live, backup, tmp} \subseteq Contents \cup {Absent}
    /\ marker \in BOOLEAN
    /\ pc \in [Launches -> Stages]
    /\ want \in [Launches -> Request \cup {Absent}]
    /\ \A l \in Launches : want[l] = Absent <=> pc[l] = "idle"
    /\ config \in [Launches -> Providers]
    /\ fd \in [Launches -> {"none", "tmp", "live", "backup", "gone"}]
    /\ \A l \in Launches : fd[l] # "none" => pc[l] = "write"
    /\ crashes \in 0 .. MaxCrashes
    /\ edits \in 0 .. MaxEdits
    /\ raced \in BOOLEAN
    /\ quiet \subseteq Launches
    /\ entrusted \in Contents \cup {Absent}

\* Before the first launch the user has a file of their own, or none.
ConfigInit ==
    /\ format \in {"json", "yaml"}
    /\ live \in {Absent} \cup Texts
    /\ backup = Absent /\ tmp = Absent /\ marker = FALSE
    /\ pc = [l \in Launches |-> "idle"]
    /\ want = [l \in Launches |-> Absent]
    /\ config = [l \in Launches |-> Nothing]
    /\ fd = [l \in Launches |-> "none"]
    /\ crashes = 0 /\ edits = 0
    /\ raced = FALSE
    /\ quiet = {}
    /\ entrusted = live

-----------------------------------------------------------------------------
(* A launch, one system call after the other.                              *)

Goto(l, stage) == pc' = [pc EXCEPT ![l] = stage]

\* A variant that forgets to say that it ended, for ConfigTypeOK.
EndsForgetting(l) ==
    /\ Goto(l, "idle")
    /\ config' = [config EXCEPT ![l] = Nothing]
    /\ UNCHANGED want

\* The launch ends, in success or by an exception.
Ends(l) ==
    /\ Goto(l, "idle")
    /\ want' = [want EXCEPT ![l] = Absent]
    /\ config' = [config EXCEPT ![l] = Nothing]

\* Who else is at work sees a file change under its feet.
Disturb(l) == quiet' = quiet \cap {l}

\* An open file keeps its identity when its name changes: renaming from onto to.
Moved(from, to) ==
    [l \in Launches |-> CASE fd[l] = to   -> "gone"
                          [] fd[l] = from -> to
                          [] OTHER        -> fd[l]]

Begin(l, request) ==
    /\ pc[l] = "idle"
    /\ Goto(l, "look")
    /\ want' = [want EXCEPT ![l] = request]
    /\ raced' = (raced \/ \E k \in Launches : pc[k] # "idle")
    /\ UNCHANGED <<files, config, fd, bounds, quiet, entrusted>>

\* A variant that backs a foreign file up every time, for UserFileKept.
LookAlways(l) ==
    /\ pc[l] = "look"
    /\ Goto(l, IF live # Absent /\ ~marker THEN "aside"
               ELSE IF live # Absent /\ format = "json" THEN "read"
               ELSE "open")
    /\ quiet' = quiet \cup {l}
    /\ UNCHANGED <<files, want, config, fd, bounds, raced, entrusted>>

\* A variant that does not look at the marker, for BackupIsTheUsers.
LookUnmarked(l) ==
    /\ pc[l] = "look"
    /\ Goto(l, IF live # Absent /\ backup = Absent THEN "aside"
               ELSE IF live # Absent /\ marker /\ format = "json" THEN "read"
               ELSE "open")
    /\ quiet' = quiet \cup {l}
    /\ UNCHANGED <<files, want, config, fd, bounds, raced, entrusted>>

\* load_existing up to what it does with the file: a foreign file is moved aside
\* once, and only JSON of our own is merged into.
Look(l) ==
    /\ pc[l] = "look"
    /\ Goto(l, IF live # Absent /\ ~marker /\ backup = Absent THEN "aside"
               ELSE IF live # Absent /\ marker /\ format = "json" THEN "read"
               ELSE "open")
    /\ quiet' = quiet \cup {l}
    /\ UNCHANGED <<files, want, config, fd, bounds, raced, entrusted>>

\* os.rename replaces a backup that has come since; a file that has gone raises.
Aside(l) ==
    /\ pc[l] = "aside"
    /\ IF live = Absent
       THEN Ends(l) /\ quiet' = quiet \ {l} /\ UNCHANGED <<live, backup, fd>>
       ELSE /\ backup' = live /\ live' = Absent
            /\ fd' = Moved("live", "backup")
            /\ Goto(l, "open") /\ Disturb(l)
            /\ UNCHANGED <<want, config>>
    /\ UNCHANGED <<format, tmp, marker, bounds, raced, entrusted>>

\* What cannot be opened or parsed counts as empty.
Read(l) ==
    /\ pc[l] = "read"
    /\ config' = [config EXCEPT ![l] =
                     IF live # Absent /\ live.state = "whole" THEN live.data ELSE Nothing]
    /\ Goto(l, "open")
    /\ UNCHANGED <<files, want, fd, bounds, raced, quiet, entrusted>>

\* A variant that does not merge, for LaunchMerges.
OpenTmpAlone(l) ==
    /\ pc[l] = "open"
    /\ config' = [config EXCEPT ![l] = [Nothing EXCEPT ![want[l].name] = want[l].block]]
    /\ tmp' = Empty /\ fd' = [fd EXCEPT ![l] = "tmp"]
    /\ Goto(l, "write") /\ Disturb(l)
    /\ UNCHANGED <<format, live, backup, marker, want, bounds, raced, entrusted>>

\* A variant that writes the model file in place, for LiveIsWhole.
OpenLive(l) ==
    /\ pc[l] = "open"
    /\ config' = [config EXCEPT ![l] = [@ EXCEPT ![want[l].name] = want[l].block]]
    /\ live' = Empty /\ fd' = [fd EXCEPT ![l] = "live"]
    /\ Goto(l, "write") /\ Disturb(l)
    /\ UNCHANGED <<format, tmp, backup, marker, want, bounds, raced, entrusted>>

\* The block goes into the configuration and the temporary file is truncated.
OpenTmp(l) ==
    /\ pc[l] = "open"
    /\ config' = [config EXCEPT ![l] = [@ EXCEPT ![want[l].name] = want[l].block]]
    /\ tmp' = Empty /\ fd' = [fd EXCEPT ![l] = "tmp"]
    /\ Goto(l, "write") /\ Disturb(l)
    /\ UNCHANGED <<format, live, backup, marker, want, bounds, raced, entrusted>>

\* The text goes to the file that was opened, whatever it is called by now; over
\* another launch's text it may leave the end of a longer one.
WriteTmp(l, overlaid) ==
    LET left == IF overlaid THEN Garbled ELSE Whole(config[l]) IN
    /\ pc[l] = "write"
    /\ overlaid => \/ fd[l] = "tmp" /\ tmp # Empty
                   \/ fd[l] = "live" /\ live # Empty
                   \/ fd[l] = "backup" /\ backup # Empty
    /\ tmp' = IF fd[l] = "tmp" THEN left ELSE tmp
    /\ live' = IF fd[l] = "live" THEN left ELSE live
    /\ backup' = IF fd[l] = "backup" THEN left ELSE backup
    /\ fd' = [fd EXCEPT ![l] = "none"]
    /\ Goto(l, "replace") /\ Disturb(l)
    /\ UNCHANGED <<format, marker, want, config, bounds, raced, entrusted>>

\* A variant that takes the model file away when it cannot be replaced, for
\* SettledHasText.
ReplaceUndone(l) ==
    /\ pc[l] = "replace"
    /\ IF tmp = Absent
       THEN Ends(l) /\ quiet' = quiet \ {l} /\ live' = Absent /\ UNCHANGED <<tmp, fd>>
       ELSE /\ live' = tmp /\ tmp' = Absent
            /\ fd' = Moved("tmp", "live")
            /\ Goto(l, "mark") /\ Disturb(l)
            /\ UNCHANGED <<want, config>>
    /\ UNCHANGED <<format, backup, marker, bounds, raced, entrusted>>

\* os.replace; another launch may have taken the temporary file away.
Replace(l) ==
    /\ pc[l] = "replace"
    /\ IF tmp = Absent
       THEN Ends(l) /\ quiet' = quiet \ {l} /\ UNCHANGED <<live, tmp, fd>>
       ELSE /\ live' = tmp /\ tmp' = Absent
            /\ fd' = Moved("tmp", "live")
            /\ Goto(l, "mark") /\ Disturb(l)
            /\ UNCHANGED <<want, config>>
    /\ UNCHANGED <<format, backup, marker, bounds, raced, entrusted>>

Mark(l) ==
    /\ pc[l] = "mark"
    /\ marker' = TRUE
    /\ Ends(l) /\ quiet' = {}
    /\ UNCHANGED <<format, live, backup, tmp, fd, bounds, raced, entrusted>>

\* The container stops, or the shell is interrupted; the text was not flushed.
Crash(l) ==
    /\ pc[l] # "idle"
    /\ crashes < MaxCrashes
    /\ crashes' = crashes + 1
    /\ Ends(l)
    /\ fd' = [fd EXCEPT ![l] = "none"]
    /\ quiet' = quiet \ {l}
    /\ UNCHANGED <<files, edits, raced, entrusted>>

Step(l) ==
    \/ Look(l) \/ Aside(l) \/ Read(l) \/ OpenTmp(l) \/ Replace(l) \/ Mark(l) \/ Crash(l)
    \/ \E overlaid \in BOOLEAN : WriteTmp(l, overlaid)
    \/ \E request \in Request : Begin(l, request)

-----------------------------------------------------------------------------
(* The user.  A file without a marker is the user's: while there is no     *)
(* backup yet, a launch has to keep it.                                    *)

Edit == edits < MaxEdits /\ edits' = edits + 1 /\ quiet' = {}

\* What the user writes after a launch has looked is not promised to stay.
Entrusts(owned, content) ==
    entrusted' = IF backup # Absent THEN entrusted
                 ELSE IF owned \/ \E l \in Launches : pc[l] \notin {"idle", "look", "aside"}
                 THEN Absent
                 ELSE content

UserWrites(content) ==
    /\ Edit
    /\ live' = content
    /\ Entrusts(marker, content)
    /\ UNCHANGED <<format, backup, tmp, marker, pc, want, config, fd, crashes, raced>>

\* "Delete this marker to take the file over yourself."
TakeOver ==
    /\ marker
    /\ Edit
    /\ marker' = FALSE
    /\ Entrusts(FALSE, live)
    /\ UNCHANGED <<format, live, backup, tmp, pc, want, config, fd, crashes, raced>>

ConfigNext ==
    \/ \E l \in Launches : Step(l)
    \/ \E content \in Texts : UserWrites(content)
    \/ TakeOver

ConfigSpec == ConfigInit /\ [][ConfigNext]_configVars

-----------------------------------------------------------------------------
(* Properties.                                                             *)

\* Whenever a launch is interrupted, and while one runs, the harness finds no
\* file or a complete one: "a crash mid-write never leaves a half-config".
LiveIsWhole == ~raced /\ live # Absent => live.state \in {"whole", "broken"}

\* The file that the user had, or took over, before there was a backup is still
\* there, as the model file or as the backup, whatever is interrupted after it.
UserFileKept == ~raced /\ entrusted # Absent => entrusted \in {live, backup}

\* The backup is what the user had, not a file that a launch generated, unless a
\* launch was interrupted between putting the file in place and marking it.
BackupIsTheUsers == ~raced /\ crashes = 0 => backup \in {Absent, entrusted}

\* Two launches at once may mix their texts, and the one that comes second to
\* os.replace fails, but when they have ended there is a file and it has a text.
SettledHasText ==
    marker /\ crashes = 0 /\ (\A l \in Launches : pc[l] = "idle") =>
        live # Absent /\ live # Empty

\* A launch that nobody disturbs changes its own block only: of a JSON file of
\* ours the other providers stay.  YAML of ours and foreign files are written
\* anew.
LaunchMerges ==
    [][\A l \in Launches :
          pc[l] = "replace" /\ pc'[l] = "mark" /\ l \in quiet =>
             LET kept == IF format = "json" /\ marker /\ live # Absent THEN live.data ELSE Nothing
             IN  live' = Whole([kept EXCEPT ![want[l].name] = want[l].block])
      ]_configVars
=============================================================================
