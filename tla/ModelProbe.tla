----------------------------- MODULE ModelProbe -----------------------------
(***************************************************************************)
(* probe_models.py: what it reads off a model server's answers.            *)
(*                                                                         *)
(* A server is a record: is it up, is it Ollama (only that one answers     *)
(* /api/tags, /api/show and /api/ps), the models it lists in order with    *)
(* size and capabilities, the window each was trained for, the window of   *)
(* each that is loaded, and the window it loads the next one with.         *)
(* Every probe is one request; None is what the script prints nothing for. *)
(***************************************************************************)
EXTENDS Naturals, Sequences, FiniteSets

CONSTANTS
    Models,      \* model ids
    Windows,     \* context windows, in tokens
    FillerSize,  \* four characters a token: what --effective-context says it sent
    FillerTokens,\* how many tokens that filler may really have
    Listings,    \* what a server may list: sequences of models
    Trainings,   \* the windows that models may have been trained for
    None

Listed == [id : Models, size : Nat, caps : SUBSET {"tools", "vision"}]

ASSUME ProbeAssumption ==
    /\ Windows \subseteq Nat \ {0}
    /\ FillerSize \in Nat
    /\ FillerTokens \subseteq Nat
    /\ Listings \subseteq Seq(Listed)
    /\ Trainings \subseteq [Models -> Windows \cup {None}]
    /\ None \notin Models \cup Nat

Servers == [up : BOOLEAN, ollama : BOOLEAN, tags : Listings,
            trained : Trainings,
            loaded : [Models -> Windows \cup {None}],
            numCtx : Windows]

\* /api/tags, and /v1/models where that gives nothing: ids without capabilities.
Found(server) ==
    IF ~server.up THEN <<>>
    ELSE IF server.ollama THEN server.tags
    ELSE [i \in DOMAIN server.tags |-> [server.tags[i] EXCEPT !.size = 0, !.caps = {}]]

\* A server that does not tell capabilities is assumed to have tools.
Usable(m) == m.caps = {} \/ "tools" \in m.caps

\* --pick and --pick-small: the first of the usable models in a stable sort by
\* size, or an error.
Pick(server, larger) ==
    LET found  == Found(server)
        usable == {i \in DOMAIN found : Usable(found[i])}
        Before(i, j) == IF found[i].size = found[j].size THEN i <= j
                        ELSE larger <=> found[i].size > found[j].size
    IN  IF usable = {} THEN None
        ELSE found[CHOOSE i \in usable : \A j \in usable : Before(i, j)].id

\* --context: the trained window, from /api/show.
ContextWindow(server, m) ==
    IF server.up /\ server.ollama THEN server.trained[m] ELSE None

\* --served-context: the window of the loaded instance, from /api/ps.
ServedContext(server, m) ==
    IF server.up /\ server.ollama THEN server.loaded[m] ELSE None

\* A request to a model loads it with the server's current setting.
Load(server, m) ==
    IF server.loaded[m] = None THEN [server EXCEPT !.loaded[m] = server.numCtx] ELSE server

\* --effective-context: how much of a filler of so many tokens is counted.
EffectiveContext(server, m, tokens) ==
    LET window == Load(server, m).loaded[m] IN IF tokens < window THEN tokens ELSE window

\* Exit status 3, with a fifth of slack for the estimate.
Truncates(counted) == counted * 10 < FillerSize * 8
=============================================================================
