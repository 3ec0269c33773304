-------------------------- MODULE SandboxLifecycle --------------------------
(***************************************************************************)
(* The lifetime of a sandbox: `up`, `down` and `reap` of the command line  *)
(* on the state directory, the FUSE view and the containers.               *)
(*                                                                         *)
(* Every command is a shell process of its own, and reap runs from a timer *)
(* beside them; nothing locks the state directory, so a command's writes   *)
(* are steps of their own.  Any compose call may fail, which under set -e  *)
(* ends the command, and any command may be interrupted.  Lifetimes and    *)
(* the clock count minutes.  Ports and the web UI are not in this module.  *)
(***************************************************************************)
EXTENDS Naturals, FiniteSets

CONSTANTS
    Sandboxes,       \* names
    Commands,        \* shells in which the operator or a scheduler runs up and down
    Reapers,         \* runs of reap; cron does not keep two from overlapping
    Sources,         \* directories given as --source
    Lifetimes,       \* lifetimes given as --ttl or by a policy
    DefaultLifetime, \* REAP_DEFAULT_MINUTES
    MaxTime,         \* bound on the clock
    MaxKills,        \* bound on interrupted commands
    Unset            \* "no such file", "empty", "nothing mounted"

ASSUME LifecycleAssumption ==
    /\ Commands \cap Reapers = {}
    /\ Lifetimes \subseteq Nat \ {0}
    /\ DefaultLifetime \in Nat
    /\ MaxTime \in Nat
    /\ MaxKills \in Nat
    /\ Unset \notin Nat \cup Sandboxes \cup Sources

VARIABLES
    now,
    startedAt,  \* state file started-at
    ttl,        \* state file ttl-minutes
    env,        \* SANDBOX_SOURCE in the sandbox's env file
    view,       \* the source the mounted view shows
    running,    \* the sandboxes that have containers, if only some of theirs
    pc,         \* what each process does next
    at,         \* the sandbox it is working on
    mem,        \* its shell variables
    todo,       \* what a reaper's loop has left
    kills,      \* how many commands were interrupted
    asked,      \* history: the lifetime that up last recorded
    raced       \* history: sandboxes on which up overlapped a down or a reap

files    == <<startedAt, ttl>>
lifeVars == <<now, startedAt, ttl, env, view, running, pc, at, mem, todo, kills, asked, raced>>

Procs  == Commands \cup Reapers
Time   == 0 .. MaxTime
Leases == Lifetimes \cup {Unset}

Memory == [start : Time, lease : Leases, scope : {"due", "all"}, clock : Time]
Blank  == [start |-> 0, lease |-> Unset, scope |-> "due", clock |-> 0]

UpStages      == {"stamp", "lease", "mount", "compose"}
CommandStages == {"idle", "down", "unmount"} \cup UpStages
ReaperStages  == {"idle", "scan", "decide", "down", "unmount", "clearStart", "clearTTL"}

LifeTypeOK ==
    /\ now \in Time
    /\ startedAt \in [Sandboxes -> Time \cup {Unset}]
    /\ ttl \in [Sandboxes -> Leases]
    /\ env \in [Sandboxes -> Sources \cup {Unset}]
    /\ view \in [Sandboxes -> Sources \cup {Unset}]
    /\ running \subseteq Sandboxes
    /\ pc \in [Procs -> CommandStages \cup ReaperStages]
    /\ \A c \in Commands : pc[c] \in CommandStages
    /\ \A r \in Reapers : pc[r] \in ReaperStages
    /\ at \in [Procs -> Sandboxes \cup {Unset}]
    /\ \A p \in Procs : at[p] = Unset <=> pc[p] \in {"idle", "scan"}
    /\ mem \in [Procs -> Memory]
    /\ todo \in [Reapers -> SUBSET Sandboxes]
    /\ kills \in 0 .. MaxKills
    /\ asked \in [Sandboxes -> [born : Time, lease : Leases]]
    /\ raced \subseteq Sandboxes

LifeInit ==
    /\ now = 0
    /\ startedAt = [n \in Sandboxes |-> Unset]
    /\ ttl = [n \in Sandboxes |-> Unset]
    /\ env = [n \in Sandboxes |-> Unset]
    /\ view = [n \in Sandboxes |-> Unset]
    /\ running = {}
    /\ pc = [p \in Procs |-> "idle"]
    /\ at = [p \in Procs |-> Unset]
    /\ mem = [p \in Procs |-> Blank]
    /\ todo = [r \in Reapers |-> {}]
    /\ kills = 0
    /\ asked = [n \in Sandboxes |-> [born |-> 0, lease |-> Unset]]
    /\ raced = {}

Upping(n)   == {c \in Commands : at[c] = n /\ pc[c] \in UpStages}
Downing(n)  == {p \in Procs : at[p] = n /\ pc[p] \in {"down", "unmount"}}
Visiting(n) == {r \in Reapers : at[r] = n}

\* Where a process goes when its down has failed.
AfterDown(p) == IF p \in Reapers THEN "scan" ELSE "idle"

\* A variant that keeps the name, for LifeTypeOK.
LeavesName(p, where) == pc' = [pc EXCEPT ![p] = where] /\ UNCHANGED at

Leaves(p, where) ==
    /\ pc' = [pc EXCEPT ![p] = where]
    /\ at' = [at EXCEPT ![p] = Unset]

Goes(p, where) == pc' = [pc EXCEPT ![p] = where] /\ UNCHANGED at

-----------------------------------------------------------------------------
(* up                                                                      *)

\* up as far as the env file: takes the time the lifetime starts at.
UpBegin(c, n, source, lease) ==
    /\ pc[c] = "idle"
    /\ pc' = [pc EXCEPT ![c] = "stamp"]
    /\ at' = [at EXCEPT ![c] = n]
    /\ mem' = [mem EXCEPT ![c] = [Blank EXCEPT !.start = now, !.lease = lease]]
    /\ env' = [env EXCEPT ![n] = source]
    /\ raced' = IF Downing(n) \cup Visiting(n) # {} THEN raced \cup {n} ELSE raced
    /\ UNCHANGED <<now, files, view, running, todo, kills, asked>>

UpStamp(c) ==
    LET n == at[c] IN
    /\ pc[c] = "stamp"
    /\ startedAt' = [startedAt EXCEPT ![n] = mem[c].start]
    /\ asked' = [asked EXCEPT ![n].born = mem[c].start]
    /\ Goes(c, "lease")
    /\ UNCHANGED <<now, ttl, env, view, running, mem, todo, kills, raced>>

UpLease(c) ==
    LET n == at[c] IN
    /\ pc[c] = "lease"
    /\ ttl' = [ttl EXCEPT ![n] = mem[c].lease]
    /\ asked' = [asked EXCEPT ![n].lease = mem[c].lease]
    /\ Goes(c, "mount")
    /\ UNCHANGED <<now, startedAt, env, view, running, mem, todo, kills, raced>>

\* mount.sh: nothing to do when the path is a mountpoint already.
UpMount(c) ==
    LET n == at[c] IN
    /\ pc[c] = "mount"
    /\ view' = [view EXCEPT ![n] = IF @ = Unset THEN env[n] ELSE @]
    /\ Goes(c, "compose")
    /\ UNCHANGED <<now, files, env, running, mem, todo, kills, asked, raced>>

\* compose up.  What follows it (certificates, tools, web UI) may fail too, but
\* changes nothing of this.
UpCompose(c) ==
    /\ pc[c] = "compose"
    /\ running' = running \cup {at[c]}
    /\ Leaves(c, "idle")
    /\ mem' = [mem EXCEPT ![c] = Blank]
    /\ UNCHANGED <<now, files, env, view, todo, kills, asked, raced>>

\* The mount or compose fails, compose perhaps after it created containers.
UpFails(c) ==
    /\ pc[c] \in {"mount", "compose"}
    /\ \/ UNCHANGED running
       \/ pc[c] = "compose" /\ running' = running \cup {at[c]}
    /\ Leaves(c, "idle")
    /\ mem' = [mem EXCEPT ![c] = Blank]
    /\ UNCHANGED <<now, files, env, view, todo, kills, asked, raced>>

-----------------------------------------------------------------------------
(* down, which reap runs too                                               *)

DownBegin(c, n) ==
    /\ pc[c] = "idle"
    /\ env[n] # Unset
    /\ pc' = [pc EXCEPT ![c] = "down"]
    /\ at' = [at EXCEPT ![c] = n]
    /\ raced' = IF Upping(n) # {} THEN raced \cup {n} ELSE raced
    /\ UNCHANGED <<now, files, env, view, running, mem, todo, kills, asked>>

\* A variant that unmounts first, for ViewUnderContainers.
ComposeDownLate(p) ==
    /\ pc[p] = "down"
    /\ view' = [view EXCEPT ![at[p]] = Unset]
    /\ Goes(p, "unmount")
    /\ UNCHANGED <<now, files, env, running, mem, todo, kills, asked, raced>>

ComposeDown(p) ==
    /\ pc[p] = "down"
    /\ running' = running \ {at[p]}
    /\ Goes(p, "unmount")
    /\ UNCHANGED <<now, files, env, view, mem, todo, kills, asked, raced>>

\* A variant of reap that clears the lifetime all the same, for LeaseKept.
DownFailsCleared(p) ==
    /\ pc[p] = "down"
    /\ IF p \in Reapers THEN Goes(p, "clearStart") ELSE Leaves(p, "idle")
    /\ UNCHANGED <<now, files, env, view, running, mem, todo, kills, asked, raced>>

\* compose down fails, perhaps after it removed the containers: down ends there,
\* and reap leaves the lifetime recorded for its next run.
DownFails(p) ==
    /\ pc[p] = "down"
    /\ running' \in {running, running \ {at[p]}}
    /\ Leaves(p, AfterDown(p))
    /\ UNCHANGED <<now, files, env, view, mem, todo, kills, asked, raced>>

\* unmount.sh, whose failure (the view is busy) is ignored.
Unmount(p, busy) ==
    /\ pc[p] = "unmount"
    /\ view' = IF busy THEN view ELSE [view EXCEPT ![at[p]] = Unset]
    /\ IF p \in Reapers THEN Goes(p, "clearStart") ELSE Leaves(p, "idle")
    /\ UNCHANGED <<now, files, env, running, mem, todo, kills, asked, raced>>

-----------------------------------------------------------------------------
(* reap                                                                    *)

ReapBegin(r, scope) ==
    /\ pc[r] = "idle"
    /\ pc' = [pc EXCEPT ![r] = "scan"]
    /\ mem' = [mem EXCEPT ![r] = [Blank EXCEPT !.clock = now, !.scope = scope]]
    /\ todo' = [todo EXCEPT ![r] = Sandboxes]
    /\ UNCHANGED <<now, files, env, view, running, at, kills, asked, raced>>

\* The loop's next sandbox: skipped if it never recorded a start.
ReapVisit(r, n) ==
    /\ pc[r] = "scan"
    /\ n \in todo[r]
    /\ todo' = [todo EXCEPT ![r] = @ \ {n}]
    /\ IF startedAt[n] = Unset
       THEN UNCHANGED <<pc, at, mem, raced>>
       ELSE /\ pc' = [pc EXCEPT ![r] = "decide"]
            /\ at' = [at EXCEPT ![r] = n]
            /\ mem' = [mem EXCEPT ![r].start = startedAt[n]]
            /\ raced' = IF Upping(n) # {} THEN raced \cup {n} ELSE raced
    /\ UNCHANGED <<now, files, env, view, running, kills, asked>>

\* A variant with the comparison off by one, for ReapsOnlyExpired.
DueEarly(start, lease, scope, clock) ==
    IF lease = Unset THEN scope = "all" /\ clock > start + DefaultLifetime
    ELSE clock >= start + lease

\* A variant that never reaps what has a lifetime unless asked to reap all, for
\* OverdueEnds.
DueWithAll(start, lease, scope, clock) ==
    scope = "all" /\ clock > start + (IF lease = Unset THEN DefaultLifetime ELSE lease)

Due(start, lease, scope, clock) ==
    IF lease = Unset THEN scope = "all" /\ clock > start + DefaultLifetime
    ELSE clock > start + lease

ReapDecide(r) ==
    /\ pc[r] = "decide"
    /\ IF Due(mem[r].start, ttl[at[r]], mem[r].scope, mem[r].clock)
       THEN Goes(r, "down")
       ELSE Leaves(r, "scan")
    /\ UNCHANGED <<now, files, env, view, running, mem, todo, kills, asked, raced>>

ReapClearStart(r) ==
    /\ pc[r] = "clearStart"
    /\ startedAt' = [startedAt EXCEPT ![at[r]] = Unset]
    /\ Goes(r, "clearTTL")
    /\ UNCHANGED <<now, ttl, env, view, running, mem, todo, kills, asked, raced>>

ReapClearTTL(r) ==
    /\ pc[r] = "clearTTL"
    /\ ttl' = [ttl EXCEPT ![at[r]] = Unset]
    /\ Leaves(r, "scan")
    /\ UNCHANGED <<now, startedAt, env, view, running, mem, todo, kills, asked, raced>>

ReapEnd(r) ==
    /\ pc[r] = "scan"
    /\ todo[r] = {}
    /\ pc' = [pc EXCEPT ![r] = "idle"]
    /\ mem' = [mem EXCEPT ![r] = Blank]
    /\ UNCHANGED <<now, files, env, view, running, at, todo, kills, asked, raced>>

-----------------------------------------------------------------------------
\* A command is interrupted, wherever it is.
Killed(p) ==
    /\ pc[p] # "idle"
    /\ kills < MaxKills
    /\ kills' = kills + 1
    /\ Leaves(p, "idle")
    /\ mem' = [mem EXCEPT ![p] = Blank]
    /\ todo' = IF p \in Reapers THEN [todo EXCEPT ![p] = {}] ELSE todo
    /\ UNCHANGED <<now, files, env, view, running, asked, raced>>

Tick ==
    /\ now < MaxTime
    /\ now' = now + 1
    /\ UNCHANGED <<files, env, view, running, pc, at, mem, todo, kills, asked, raced>>

UpStep(c) == UpStamp(c) \/ UpLease(c) \/ UpMount(c) \/ UpCompose(c) \/ UpFails(c)

DownStep(p) == ComposeDown(p) \/ DownFails(p) \/ \E busy \in BOOLEAN : Unmount(p, busy)

ReapStep(r) ==
    \/ \E n \in Sandboxes : ReapVisit(r, n)
    \/ ReapDecide(r) \/ DownStep(r)
    \/ ReapClearStart(r) \/ ReapClearTTL(r)
    \/ ReapEnd(r)

LifeNext ==
    \/ \E c \in Commands :
          \/ \E n \in Sandboxes, source \in Sources, lease \in Leases : UpBegin(c, n, source, lease)
          \/ UpStep(c)
          \/ \E n \in Sandboxes : DownBegin(c, n)
          \/ DownStep(c)
    \/ \E r \in Reapers : (\E scope \in {"due", "all"} : ReapBegin(r, scope)) \/ ReapStep(r)
    \/ \E p \in Procs : Killed(p)
    \/ Tick

LifeSpec == LifeInit /\ [][LifeNext]_lifeVars

\* The timer starts reap again and again, a reap runs to its end, and docker
\* does not refuse for ever to take a sandbox down.
LifeFairness ==
    \A r \in Reapers :
        /\ WF_lifeVars(\E scope \in {"due", "all"} : ReapBegin(r, scope))
        /\ WF_lifeVars(ReapStep(r))
        /\ \A n \in Sandboxes : SF_lifeVars(at[r] = n /\ ComposeDown(r))

LifeLiveSpec == LifeSpec /\ LifeFairness

-----------------------------------------------------------------------------
(* Properties.                                                             *)

\* The sandbox has outlived what up recorded; without a lifetime, only reap --all ends it.
Expired(n, scope) ==
    \/ asked[n].lease # Unset /\ now > asked[n].born + asked[n].lease
    \/ asked[n].lease = Unset /\ scope = "all" /\ now > asked[n].born + DefaultLifetime

Reaps(r, n) == n \in running /\ pc[r] = "down" /\ at[r] = n /\ pc'[r] = "unmount"

\* reap takes containers down only when they have outlived the lifetime up last
\* recorded, on any sandbox that no up was working on at the same time.
ReapsOnlyExpired ==
    [][\A r \in Reapers, n \in Sandboxes \ raced :
          Reaps(r, n) => Expired(n, mem[r].scope)]_lifeVars

\* The same without the reservation, as up's comment has it: "a re-`up` of the
\* same sandbox is a fresh run and gets its full lifetime again".
FullLifetime ==
    [][\A r \in Reapers, n \in Sandboxes :
          Reaps(r, n) => Expired(n, mem[r].scope)]_lifeVars

\* A sandbox that has containers still has the lifetime recorded that up gave
\* it, however many downs failed and commands were interrupted: reap finds it.
LeaseKept ==
    \A n \in Sandboxes \ raced :
        n \in running => startedAt[n] = asked[n].born /\ ttl[n] = asked[n].lease

\* Containers never lose the view they have mounted: it is mounted before they
\* start, and unmounted only after they are gone.
ViewUnderContainers == \A n \in Sandboxes \ raced : n \in running => view[n] # Unset

\* A sandbox that has outlived its lifetime is eventually taken down, although
\* docker may refuse now and then and reap may be interrupted.
OverdueEnds ==
    \A n \in Sandboxes :
        n \in running /\ Expired(n, "due") ~> n \notin running \/ ~Expired(n, "due") \/ n \in raced
-----------------------------------------------------------------------------
(* What the properties rest on, as inductive invariants.                   *)

\* Nobody takes a sandbox down, or decides to, while up works on it.
ApartInv == \A n \in Sandboxes \ raced : Upping(n) = {} \/ Downing(n) \cup Visiting(n) = {}

\* A sandbox that is being unmounted or forgotten has no containers.
StoppedInv ==
    \A p \in Procs : pc[p] \in {"unmount", "clearStart", "clearTTL"} /\ at[p] \notin raced =>
        at[p] \notin running

\* What up has written by the time it starts containers.
RecordedInv ==
    \A c \in Commands : at[c] \notin raced =>
        /\ pc[c] \in UpStages => env[at[c]] # Unset
        /\ pc[c] \in {"lease", "mount", "compose"} => startedAt[at[c]] = asked[at[c]].born
        /\ pc[c] \in {"mount", "compose"} => ttl[at[c]] = asked[at[c]].lease
        /\ pc[c] = "compose" => view[at[c]] # Unset

\* What a reaper has read of a sandbox that runs is still so.
ReadInv ==
    /\ \A p \in Procs : mem[p].clock <= now
    /\ \A r \in Reapers : pc[r] \in {"decide", "down"} /\ at[r] \notin raced /\ at[r] \in running =>
          /\ mem[r].start = asked[at[r]].born
          /\ pc[r] = "down" =>
                Due(asked[at[r]].born, asked[at[r]].lease, mem[r].scope, mem[r].clock)
=============================================================================
