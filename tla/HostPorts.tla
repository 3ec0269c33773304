------------------------------ MODULE HostPorts ------------------------------
(***************************************************************************)
(* The host port of each sandbox's web UI: up and web choose it by reading *)
(* what the other sandboxes have recorded, and record it only afterwards.  *)
(* Nothing locks the files.  The ports of the app and of Caido are chosen  *)
(* the same way.                                                           *)
(***************************************************************************)
EXTENDS Integers

CONSTANTS
    Sandboxes,
    Shells,              \* each runs one command after the other
    FirstPort, LastPort, \* 9999 and the 299 above it
    ByHand,              \* ports given with --web-port and --port
    NoPort

Ports == FirstPort .. LastPort

ASSUME PortsAssumption ==
    /\ FirstPort \in Int /\ LastPort \in Int
    /\ ByHand \subseteq Ports /\ NoPort \notin Ports

VARIABLES
    port,      \* webui-port
    pid,       \* the port on which the process that webui.pid names listens
    listening, \* the ports on which web UIs listen
    todo,      \* what a shell does next
    job,       \* its command, NAME, WEB_PORT, and the ports it has found claimed
    met,       \* history: pairs of sandboxes that commands were on at one time
    pinned     \* history: sandboxes that were given a port by hand

portVars == <<port, pid, listening, todo, job, met, pinned>>

Kinds == {"up", "web", "web --stop", "down"}
Resting == [kind |-> "none", box |-> NoPort, port |-> NoPort, used |-> {}]

PortsInit ==
    /\ port = [s \in Sandboxes |-> NoPort]
    /\ pid = [s \in Sandboxes |-> NoPort]
    /\ listening = {}
    /\ todo = [c \in Shells |-> "idle"]
    /\ job = [c \in Shells |-> Resting]
    /\ met = {}
    /\ pinned = {}

Goes(c, stage) ==
    /\ todo' = [todo EXCEPT ![c] = stage]
    /\ job' = IF stage = "idle" THEN [job EXCEPT ![c] = Resting] ELSE job

\* What starts the web UI, and records its port; web stops it before, and the
\* others do no more than that.
Starts(kind) == kind \in {"up", "web"}

After(kind) == IF kind = "up" THEN "record" ELSE "stop"

\* A variant that relies on the bind test alone, for PortsApart.
ClaimedByNone(s) == {}

\* Stopped sandboxes keep their claim.
Claimed(s) == {port[t] : t \in Sandboxes \ {s}}

\* Has a shell read the claims, and not recorded its own yet?
Choosing(c) == todo[c] \in {"scan", "stop", "record"} /\ Starts(job[c].kind)

\* A port given by hand is taken as it is; down needs none, and web --stop finds
\* one that it then has no use for.
BeginWith(c, s, kind, given) ==
    LET own   == IF given # NoPort THEN given ELSE port[s]
        scans == own = NoPort /\ kind # "down"
    IN
    /\ todo[c] = "idle" /\ (kind = "down" => given = NoPort)
    /\ job' = [job EXCEPT ![c] = [kind |-> kind, box |-> s, port |-> own,
                                used |-> IF scans THEN Claimed(s) ELSE {}]]
    /\ todo' = [todo EXCEPT ![c] = IF scans THEN "scan" ELSE After(kind)]
    /\ met' = IF ~Starts(kind) THEN met
              ELSE met \cup {{s, job[d].box} : d \in {d \in Shells : Choosing(d)}}
    /\ pinned' = IF given # NoPort /\ Starts(kind) THEN pinned \cup {s} ELSE pinned
    /\ UNCHANGED <<port, pid, listening>>

\* The first port that no sandbox claims and that can be bound: the UIs have
\* some, other programs others.  Without one the command dies.
Scan(c, others) ==
    LET free == Ports \ (job[c].used \cup listening \cup others) IN
    /\ todo[c] = "scan"
    /\ \/ free = {} /\ Goes(c, "idle")
       \/ \E p \in free :
             /\ \A q \in free : p <= q
             /\ job' = [job EXCEPT ![c].port = p, ![c].used = {}]
             /\ todo' = [todo EXCEPT ![c] = After(job[c].kind)]
    /\ UNCHANGED <<port, pid, listening, met, pinned>>

\* webui_stop: the process of the pid file is killed and the file removed.
Stop(c) ==
    LET s == job[c].box IN
    /\ todo[c] = "stop"
    /\ listening' = listening \ {pid[s]}
    /\ pid' = [pid EXCEPT ![s] = NoPort]
    /\ Goes(c, IF job[c].kind = "web" THEN "record" ELSE "idle")
    /\ UNCHANGED <<port, met, pinned>>

\* webui_start: the port is recorded before it looks for a running UI,
RecordPort(c) ==
    /\ todo[c] = "record"
    /\ port' = [port EXCEPT ![job[c].box] = job[c].port]
    /\ Goes(c, "look")
    /\ UNCHANGED <<pid, listening, met, pinned>>

LookForUi(c) ==
    /\ todo[c] = "look"
    /\ Goes(c, IF pid[job[c].box] # NoPort THEN "idle" ELSE "spawn")
    /\ UNCHANGED <<port, pid, listening, met, pinned>>

\* and one that cannot bind its port ends; its pid is recorded all the same.
Spawn(c, others) ==
    LET bound == job[c].port \notin listening \cup others IN
    /\ todo[c] = "spawn"
    /\ listening' = IF bound THEN listening \cup {job[c].port} ELSE listening
    /\ pid' = [pid EXCEPT ![job[c].box] = IF bound THEN job[c].port ELSE NoPort]
    /\ Goes(c, "idle")
    /\ UNCHANGED <<port, met, pinned>>

Killed(c) ==
    /\ todo[c] # "idle"
    /\ Goes(c, "idle")
    /\ UNCHANGED <<port, pid, listening, met, pinned>>

Reboot ==
    /\ todo' = [c \in Shells |-> "idle"] /\ job' = [c \in Shells |-> Resting]
    /\ pid' = [s \in Sandboxes |-> NoPort]
    /\ listening' = {}
    /\ UNCHANGED <<port, met, pinned>>

PortsNext ==
    \/ \E c \in Shells :
          \/ \E s \in Sandboxes, kind \in Kinds, given \in ByHand \cup {NoPort} :
                BeginWith(c, s, kind, given)
          \/ \E others \in SUBSET Ports : Scan(c, others) \/ Spawn(c, others)
          \/ Stop(c) \/ RecordPort(c) \/ LookForUi(c) \/ Killed(c)
    \/ Reboot

PortsSpec == PortsInit /\ [][PortsNext]_portVars

-----------------------------------------------------------------------------
(* Properties.                                                             *)

\* Two sandboxes record the same port, whichever of them is stopped or killed,
\* only if it was given by hand or commands on the two overlapped: then both may
\* have read the claims before either had recorded its own.
PortsApart ==
    \A s, t \in Sandboxes :
        s # t /\ port[s] # NoPort /\ port[s] = port[t] =>
            s \in pinned \/ t \in pinned \/ {s, t} \in met
=============================================================================
