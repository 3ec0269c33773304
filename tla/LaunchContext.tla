---------------------------- MODULE LaunchContext ---------------------------
(***************************************************************************)
(* The context window that `up` measures and `open` hands to a harness.    *)
(*                                                                         *)
(* Both commands ask the model server several times, and the server may be *)
(* restarted, unload a model or be out of reach between the questions.     *)
(* One sandbox, one model at a time: the small model defaults to the same. *)
(***************************************************************************)
EXTENDS ModelProbe

CONSTANTS
    Pins,       \* windows given as --model-context
    MaxCommands \* bound on the commands run

ASSUME ContextAssumption == Pins \subseteq Nat \ {0} /\ MaxCommands \in Nat

VARIABLES
    server,
    saved,    \* state files model, model-context, model-context-explicit
    at,       \* what the command does next
    sh,       \* its MODEL, MODEL_CONTEXT, and whether that was given
    commands,
    given,    \* what the harness was last started with
    measured, \* history: the model up has measured on the server as it still is
    pin,      \* history: the window given since the last up, or to it
    cut       \* history: a command that was given a window was interrupted

history     == <<measured, pin, cut>>
contextVars == <<server, saved, at, sh, commands, given, history>>

Choice        == [model : Models \cup {None}, ctx : Nat \cup {None}, explicit : BOOLEAN]
NoChoice      == [model |-> None, ctx |-> None, explicit |-> FALSE]
CommandStages == {"idle", "upTrained", "upEffective", "upServed", "upRecord",
                  "openTrained", "openServed"}

ContextTypeOK ==
    /\ server \in Servers
    /\ {saved, sh, given} \subseteq Choice
    /\ at \in CommandStages
    /\ at # "idle" => sh.model # None
    /\ at = "idle" => sh = NoChoice
    /\ commands \in 0 .. MaxCommands
    /\ measured \in Models \cup {None}
    /\ pin \in Pins \cup {None}
    /\ cut \in BOOLEAN

ContextInit ==
    /\ server \in {s \in Servers : s.up /\ \A m \in Models : s.loaded[m] = None}
    /\ saved = NoChoice /\ sh = NoChoice /\ given = NoChoice
    /\ at = "idle"
    /\ commands = 0
    /\ measured = None /\ pin = None /\ cut = FALSE

Smaller(a, b) == a # None /\ b # None /\ a < b

Command == at = "idle" /\ commands < MaxCommands /\ commands' = commands + 1

-----------------------------------------------------------------------------
(* up: the trained window, then what the server counts of a filler, then   *)
(* what it says it serves.  A window given on the command line stays.      *)

\* A variant that goes on without an answer, for ContextTypeOK.
UpBeginAnyway(model, ctx) ==
    LET m == IF model = None THEN Pick(server, TRUE) ELSE model IN
    /\ Command
    /\ at' = "upTrained"
    /\ sh' = [model |-> m, ctx |-> ctx, explicit |-> ctx # None]
    /\ given' = NoChoice
    /\ measured' = None
    /\ pin' = ctx
    /\ UNCHANGED <<server, saved, cut>>

\* Without --model the server is asked; without an answer up dies.
UpBegin(model, ctx) ==
    LET m == IF model = None THEN Pick(server, TRUE) ELSE model IN
    /\ Command
    /\ IF m = None THEN UNCHANGED <<at, sh, given, measured, pin>>
       ELSE /\ at' = "upTrained"
            /\ sh' = [model |-> m, ctx |-> ctx, explicit |-> ctx # None]
            /\ given' = NoChoice
            /\ measured' = None
            /\ pin' = ctx
    /\ UNCHANGED <<server, saved, cut>>

UpTrained ==
    /\ at = "upTrained"
    /\ sh' = [sh EXCEPT !.ctx = IF sh.explicit THEN @ ELSE ContextWindow(server, sh.model)]
    /\ at' = "upEffective"
    /\ UNCHANGED <<server, saved, commands, given, history>>

\* The filler prompt, unless CONTEXT_PROBE is off, which skips both measurements.
UpEffective(probe, tokens) ==
    LET counted == EffectiveContext(server, sh.model, tokens) IN
    /\ at = "upEffective"
    /\ IF probe /\ server.up
       THEN /\ server' = Load(server, sh.model)
            /\ sh' = [sh EXCEPT !.ctx = IF Truncates(counted) /\ ~sh.explicit THEN counted ELSE @]
            /\ measured' = sh.model
       ELSE UNCHANGED <<server, sh, measured>>
    /\ at' = IF probe THEN "upServed" ELSE "upRecord"
    /\ UNCHANGED <<saved, commands, given, pin, cut>>

\* A smaller window that the server reports for the loaded model is a cap.
Capped(choice) ==
    LET served == ServedContext(server, choice.model) IN
    IF Smaller(served, choice.ctx) /\ ~choice.explicit
    THEN [choice EXCEPT !.ctx = served] ELSE choice

UpServed ==
    /\ at = "upServed"
    /\ sh' = Capped(sh)
    /\ measured' = IF server.up THEN measured ELSE None
    /\ at' = "upRecord"
    /\ UNCHANGED <<server, saved, commands, given, pin, cut>>

UpRecord ==
    /\ at = "upRecord"
    /\ saved' = sh
    /\ sh' = NoChoice
    /\ at' = "idle"
    /\ UNCHANGED <<server, commands, given, history>>

-----------------------------------------------------------------------------
(* open: what up recorded, probed again unless it was given by hand.       *)

\* That a window was given is recorded at once, the window at the end.
OpenBegin(model, ctx) ==
    LET m == IF model = None THEN saved.model ELSE model IN
    /\ Command
    /\ saved.model # None
    /\ at' = "openTrained"
    /\ IF ctx = None THEN sh' = [saved EXCEPT !.model = m] /\ UNCHANGED <<saved, pin>>
       ELSE /\ sh' = [model |-> m, ctx |-> ctx, explicit |-> TRUE]
            /\ saved' = [saved EXCEPT !.explicit = TRUE]
            /\ pin' = ctx
    /\ given' = NoChoice
    /\ UNCHANGED <<server, measured, cut>>

\* A variant that probes over a window given by hand, for PinnedIsKept.
OpenTrainedAlways ==
    LET probed == ContextWindow(server, sh.model) IN
    /\ at = "openTrained"
    /\ sh' = [sh EXCEPT !.ctx = IF probed # None THEN probed ELSE @]
    /\ at' = "openServed"
    /\ UNCHANGED <<server, saved, commands, given, history>>

OpenTrained ==
    LET probed == ContextWindow(server, sh.model) IN
    /\ at = "openTrained"
    /\ sh' = [sh EXCEPT !.ctx = IF probed # None /\ ~sh.explicit THEN probed ELSE @]
    /\ at' = "openServed"
    /\ UNCHANGED <<server, saved, commands, given, history>>

\* A variant that does not cap again, for WindowFits.
OpenServedUncapped ==
    /\ at = "openServed"
    /\ given' = sh /\ saved' = sh
    /\ measured' = IF server.up \/ sh = saved THEN measured ELSE None
    /\ sh' = NoChoice
    /\ at' = "idle"
    /\ UNCHANGED <<server, commands, pin, cut>>

\* The cap again, what is recorded, and the harness is started with it.  With the
\* server out of reach there is no cap: a window that is not what was recorded
\* counts as not measured.
OpenServed ==
    /\ at = "openServed"
    /\ given' = Capped(sh) /\ saved' = given'
    /\ measured' = IF server.up \/ sh = saved THEN measured ELSE None
    /\ sh' = NoChoice
    /\ at' = "idle"
    /\ UNCHANGED <<server, commands, pin, cut>>

\* Either command may be interrupted before it has recorded anything more.
Interrupted ==
    /\ at # "idle"
    /\ cut' = (cut \/ sh.explicit)
    /\ measured' = IF at \in {"openTrained", "openServed"} THEN measured ELSE None
    /\ sh' = NoChoice
    /\ at' = "idle"
    /\ UNCHANGED <<server, saved, commands, given, pin>>

-----------------------------------------------------------------------------
(* The server: restarted with another setting, a model unloaded when it is *)
(* idle, out of reach for a while.                                         *)

Restarts(numCtx) ==
    /\ server' = [server EXCEPT !.numCtx = numCtx, !.loaded = [m \in Models |-> None]]
    /\ measured' = None
    /\ UNCHANGED <<saved, at, sh, commands, given, pin, cut>>

Unloads(m) ==
    /\ server.loaded[m] # None
    /\ server' = [server EXCEPT !.loaded[m] = None]
    /\ measured' = IF measured = m THEN None ELSE measured
    /\ UNCHANGED <<saved, at, sh, commands, given, pin, cut>>

Reachable ==
    /\ server' = [server EXCEPT !.up = ~server.up]
    /\ UNCHANGED <<saved, at, sh, commands, given, history>>

ContextNext ==
    \/ \E model \in Models \cup {None}, ctx \in Pins \cup {None} :
          UpBegin(model, ctx) \/ OpenBegin(model, ctx)
    \/ \E probe \in BOOLEAN, tokens \in FillerTokens : UpEffective(probe, tokens)
    \/ UpTrained \/ UpServed \/ UpRecord
    \/ OpenTrained \/ OpenServed \/ Interrupted
    \/ Reachable
    \/ \E numCtx \in Windows : Restarts(numCtx)
    \/ \E m \in Models : Unloads(m)

ContextSpec == ContextInit /\ [][ContextNext]_contextVars

-----------------------------------------------------------------------------
(* Properties.                                                             *)

\* open does not hand a harness more than the server serves, as long as the
\* server is as up measured it: neither the trained window, which up discarded,
\* nor, when the server is out of reach, anything but what up recorded (with
\* another --model it then goes on with the window of the model before).
WindowFits ==
    given.ctx # None /\ ~given.explicit /\ measured # None /\ given.model = measured =>
        given.ctx <= server.loaded[measured]

\* "An explicit --model-context (now or at `up`) is never probed over": every
\* later open hands out that window, unless the command it was given to was cut.
PinnedIsKept == pin # None /\ ~cut /\ given # NoChoice => given.ctx = pin
=============================================================================
