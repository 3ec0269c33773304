----------------------------- MODULE EgressGate -----------------------------
(***************************************************************************)
(* What the broker addon lets out: the allowlist it rereads by its         *)
(* modification time while other processes edit it, and the check that a   *)
(* spliced connection goes where its name resolves to.                     *)
(*                                                                         *)
(* mitmproxy runs hooks one at a time; edits, DNS changes and the clock    *)
(* fall between the steps of a hook.  The clock counts ticks of the file   *)
(* system's timestamps.  The list is bind-mounted as a file, so a file put *)
(* in its place is not what the gateway sees until it starts again.        *)
(* Injection is in CredentialBroker.                                       *)
(***************************************************************************)
EXTENDS Naturals

CONSTANTS
    Hosts,      \* names that requests and connections are for
    Patterns,   \* patterns of the list
    Covers,     \* which pattern matches which host
    Addresses,
    Lines,      \* lines the list may hold: pattern, ! in front of it, a note behind it
    DnsTTL,     \* _DNS_TTL
    MaxTime,    \* bound on the clock
    MaxEdits,   \* bound on edits of the list
    Never       \* "not at any time"

ASSUME GateAssumption ==
    /\ Covers \subseteq Patterns \X Hosts
    /\ Lines \subseteq [pattern : Patterns, splice : BOOLEAN, noted : BOOLEAN]
    /\ DnsTTL \in Nat \ {0} /\ MaxTime \in Nat /\ MaxEdits \in Nat
    /\ Never \notin Nat \cup Hosts \cup Addresses

VARIABLES
    now,
    file,         \* the list at the sandbox's path: lines, and when last modified
    mounted,      \* the list the gateway sees
    bound,        \* whether that is the one at the path, one that was, or none
    inspect, passthrough, mtime,  \* the addon's attributes
    cache,        \* _dns_cache: a host's addresses, and until when
    hook,         \* the hook the event loop is in
    verdict,      \* how the last hook ended
    since,        \* DNS: since when a host has an address
    edits,        \* how often the list was edited
    gone,         \* history: when a host last gave an address up, since the gateway started
    quiet,        \* history: no edit since the hook in progress began to load
    missed        \* history: an edit kept the time of the version last read, or a read failed

addon    == <<inspect, passthrough, mtime>>
world    == <<file, mounted, bound, edits>>
gateVars == <<now, world, addon, cache, hook, verdict, since, gone, quiet, missed>>

Time    == 0 .. MaxTime
Version == [lines : SUBSET Lines, mtime : Time]
Kinds   == {"running", "clienthello", "requestheaders"}
Stages  == {"idle", "stat", "read", "match", "lookup"}
Hooks   == [kind : Kinds, host : Hosts \cup {Never}, dst : Addresses \cup {Never},
            start : Time, stage : Stages]
Idle    == [kind |-> "running", host |-> Never, dst |-> Never, start |-> 0, stage |-> "idle"]
Results == {"none", "raised", "allow", "deny", "intercept", "splice", "refuse"}

\* A line with a note behind it is taken whole for a pattern, and matches nothing.
Parse(lines, splice) == {l.pattern : l \in {m \in lines : m.splice = splice /\ ~m.noted}}

Match(h, patterns) == \E p \in patterns : <<p, h>> \in Covers

GateTypeOK ==
    /\ now \in Time
    /\ file \in Version /\ mounted \in Version
    /\ bound \in {"path", "old", "none"}
    /\ inspect \subseteq Patterns /\ passthrough \subseteq Patterns
    /\ mtime \in Time \cup {Never}
    /\ cache \in [Hosts -> [ips : SUBSET Addresses, exp : Nat]]
    /\ hook \in Hooks /\ (hook.host = Never <=> hook.kind = "running")
    /\ hook.stage = "lookup" => hook.kind = "clienthello"
    /\ verdict \in Results
    /\ since \in [Hosts -> [Addresses -> Time \cup {Never}]]
    /\ edits \in 0 .. MaxEdits
    /\ gone \in [Hosts -> [Addresses -> Time \cup {Never}]]
    /\ quiet \in BOOLEAN /\ missed \in BOOLEAN

NoCache == [h \in Hosts |-> [ips |-> {}, exp |-> 0]]
Nothing == [h \in Hosts |-> [a \in Addresses |-> Never]]

\* up writes the list before it starts the gateway.
GateInit ==
    /\ now = 0
    /\ \E lines \in SUBSET Lines : file = [lines |-> lines, mtime |-> 0]
    /\ mounted = file
    /\ bound \in {"path", "none"}
    /\ inspect = {} /\ passthrough = {} /\ mtime = Never
    /\ cache = NoCache
    /\ hook = [Idle EXCEPT !.stage = "stat"]
    /\ verdict = "none"
    /\ since \in [Hosts -> [Addresses -> {0, Never}]]
    /\ gone = Nothing
    /\ edits = 0
    /\ quiet = TRUE /\ missed = FALSE

-----------------------------------------------------------------------------
(* The hooks.                                                              *)

\* A connection's first bytes, or a request's headers, arrive.  The workload
\* decides where a connection goes; its address may be unknown.
HookBegin(kind, h, dst) ==
    /\ hook.stage = "idle"
    /\ hook' = [kind |-> kind, host |-> h, dst |-> dst, start |-> 0, stage |-> "stat"]
    /\ verdict' = "none"
    /\ UNCHANGED <<now, world, addon, cache, since, gone, quiet, missed>>

\* A variant that rereads only what is newer, for DecidedByList.
StatNewer ==
    /\ hook.stage = "stat"
    /\ quiet' = TRUE
    /\ IF bound = "none"
       THEN inspect' = {} /\ passthrough' = {} /\ UNCHANGED mtime
       ELSE /\ mtime' = IF mtime = Never \/ mounted.mtime > mtime THEN mounted.mtime ELSE mtime
            /\ UNCHANGED <<inspect, passthrough>>
    /\ hook' = [hook EXCEPT !.stage = IF mtime' = mtime THEN "match" ELSE "read"]
    /\ UNCHANGED <<now, world, cache, verdict, since, gone, missed>>

\* _load up to the modification time: no list empties both lists, the time
\* recorded already means that there is nothing to read.
Stat ==
    /\ hook.stage = "stat"
    /\ quiet' = TRUE
    /\ IF bound = "none"
       THEN inspect' = {} /\ passthrough' = {} /\ UNCHANGED mtime
       ELSE mtime' = mounted.mtime /\ UNCHANGED <<inspect, passthrough>>
    /\ hook' = [hook EXCEPT !.stage = IF mtime' = mtime THEN "match" ELSE "read"]
    /\ UNCHANGED <<now, world, cache, verdict, since, gone, missed>>

Read ==
    /\ hook.stage = "read"
    /\ inspect' = Parse(mounted.lines, FALSE)
    /\ passthrough' = Parse(mounted.lines, TRUE)
    /\ missed' = FALSE
    /\ hook' = [hook EXCEPT !.stage = "match"]
    /\ UNCHANGED <<now, world, mtime, cache, verdict, since, gone, quiet>>

\* The list cannot be opened or decoded: the hook ends there, with the new time
\* and the old lists.
ReadFails ==
    /\ hook.stage = "read"
    /\ missed' = TRUE
    /\ hook' = Idle
    /\ verdict' = "raised"
    /\ UNCHANGED <<now, world, addon, cache, since, gone, quiet>>

\* A variant that forgets to go idle with a new kind, for GateTypeOK.
HookKept(result) == verdict' = result /\ hook' = [hook EXCEPT !.kind = "running", !.stage = "idle"]

HookEnds(result) == verdict' = result /\ hook' = Idle

\* What is decided in memory: running decides nothing, a request is allowed if
\* inspect covers it, a connection is spliced only if passthrough covers it and
\* its address is known and among the cached ones.
Decide ==
    LET h == hook.host IN
    /\ hook.stage = "match"
    /\ CASE hook.kind = "running"        -> HookEnds("none")
         [] hook.kind = "requestheaders" ->
               HookEnds(IF Match(h, inspect) THEN "allow" ELSE "deny")
         [] hook.kind = "clienthello"    ->
               IF ~Match(h, passthrough) THEN HookEnds("intercept")
               ELSE IF hook.dst = Never THEN HookEnds("refuse")
               ELSE IF now < cache[h].exp
               THEN HookEnds(IF hook.dst \in cache[h].ips THEN "splice" ELSE "refuse")
               ELSE /\ hook' = [hook EXCEPT !.stage = "lookup", !.start = now]
                    /\ UNCHANGED verdict
    /\ UNCHANGED <<now, world, addon, cache, since, gone, quiet, missed>>

Holds(h) == {a \in Addresses : since[h][a] # Never}

\* A variant that caches a failed lookup too, for HeldIsSpliced.
LookupCachesFailure(answered) ==
    LET h == hook.host
        ips == cache[h].ips \cup (IF answered THEN Holds(h) ELSE {}) IN
    /\ hook.stage = "lookup"
    /\ cache' = [cache EXCEPT ![h] = [ips |-> ips, exp |-> hook.start + DnsTTL]]
    /\ HookEnds(IF hook.dst \in ips THEN "splice" ELSE "refuse")
    /\ UNCHANGED <<now, world, addon, since, gone, quiet, missed>>

\* A variant that splices when it cannot tell, for SplicedWasHeld.
LookupFailsOpen(answered) ==
    LET h == hook.host
        fresh == IF answered THEN Holds(h) ELSE {} IN
    /\ hook.stage = "lookup"
    /\ cache' = IF fresh = {} THEN cache
                ELSE [cache EXCEPT ![h] = [ips |-> @.ips \cup fresh, exp |-> hook.start + DnsTTL]]
    /\ HookEnds(IF fresh = {} \/ hook.dst \in cache'[h].ips THEN "splice" ELSE "refuse")
    /\ UNCHANGED <<now, world, addon, since, gone, quiet, missed>>

\* getaddrinfo, which may fail.  What it returns is added to what is cached.
Lookup(answered) ==
    LET h == hook.host
        fresh == IF answered THEN Holds(h) ELSE {} IN
    /\ hook.stage = "lookup"
    /\ cache' = IF fresh = {} THEN cache
                ELSE [cache EXCEPT ![h] = [ips |-> @.ips \cup fresh, exp |-> hook.start + DnsTTL]]
    /\ HookEnds(IF hook.dst \in cache'[h].ips THEN "splice" ELSE "refuse")
    /\ UNCHANGED <<now, world, addon, since, gone, quiet, missed>>

-----------------------------------------------------------------------------
(* The world.                                                              *)

\* The list at the path is written in place; the gateway sees it if it is the
\* one that is mounted.
Written(lines, time) ==
    /\ edits < MaxEdits
    /\ edits' = edits + 1
    /\ file' = [lines |-> lines, mtime |-> time]
    /\ mounted' = IF bound = "path" THEN file' ELSE mounted
    /\ quiet' = FALSE
    /\ missed' = (missed \/ (bound = "path" /\ mtime = time /\ hook.stage # "read"))
    /\ UNCHANGED <<now, bound, addon, cache, hook, verdict, since, gone>>

\* up, allow and open append a line that the list does not have.
Append(line) ==
    /\ line \notin file.lines
    /\ Written(file.lines \cup {line}, now)

\* The operator writes the list in place; cp -p brings an older time with it.
Rewrite(lines, time) == time <= now /\ Written(lines, time)

\* The operator's editor puts a new file in place of the old one.
Replace(lines) ==
    /\ edits < MaxEdits
    /\ edits' = edits + 1
    /\ file' = [lines |-> lines, mtime |-> now]
    /\ bound' = IF bound = "path" THEN "old" ELSE bound
    /\ quiet' = FALSE
    /\ UNCHANGED <<now, mounted, addon, cache, hook, verdict, since, gone, missed>>

\* The gateway is stopped and started again, and mounts what is at the path.
Restart ==
    /\ IF bound = "none" THEN UNCHANGED <<bound, mounted>> ELSE bound' = "path" /\ mounted' = file
    /\ inspect' = {} /\ passthrough' = {} /\ mtime' = Never
    /\ cache' = NoCache
    /\ hook' = [Idle EXCEPT !.stage = "stat"]
    /\ verdict' = "none"
    /\ gone' = Nothing
    /\ quiet' = TRUE /\ missed' = FALSE
    /\ UNCHANGED <<now, file, edits, since>>

DnsChanges(h, addresses) ==
    /\ addresses # Holds(h)
    /\ since' = [since EXCEPT ![h] = [a \in Addresses |->
                    IF a \notin addresses THEN Never ELSE IF @[a] = Never THEN now ELSE @[a]]]
    /\ gone' = [gone EXCEPT ![h] = [a \in Addresses |->
                   IF a \in addresses THEN Never ELSE IF a \in Holds(h) THEN now ELSE @[a]]]
    /\ UNCHANGED <<now, world, addon, cache, hook, verdict, quiet, missed>>

Tick ==
    /\ now < MaxTime
    /\ now' = now + 1
    /\ UNCHANGED <<world, addon, cache, hook, verdict, since, gone, quiet, missed>>

HookStep == Stat \/ Read \/ ReadFails \/ Decide \/ \E answered \in BOOLEAN : Lookup(answered)

GateNext ==
    \/ \E kind \in Kinds \ {"running"}, h \in Hosts, dst \in Addresses \cup {Never} :
          HookBegin(kind, h, dst)
    \/ HookStep
    \/ \E line \in Lines : Append(line)
    \/ \E lines \in SUBSET Lines, time \in Time : Rewrite(lines, time)
    \/ \E lines \in SUBSET Lines : Replace(lines)
    \/ Restart
    \/ \E h \in Hosts, addresses \in SUBSET Addresses : DnsChanges(h, addresses)
    \/ Tick

GateSpec == GateInit /\ [][GateNext]_gateVars

-----------------------------------------------------------------------------
(* Properties.                                                             *)

\* What a line of the list does once it is read: lines with a note do nothing.
Names(lines, splice, h) ==
    \E l \in lines : l.splice = splice /\ ~l.noted /\ <<l.pattern, h>> \in Covers

\* What ends now is decided as a list says.
By(lines) ==
    LET h == hook.host IN
    /\ verdict' \in {"allow", "deny"} => (verdict' = "allow" <=> Names(lines, FALSE, h))
    /\ verdict' = "intercept" => ~Names(lines, TRUE, h)
    /\ verdict' \in {"splice", "refuse"} => Names(lines, TRUE, h)

\* A hook during which nobody edits the list decides by the list as it is, every
\* edit before it included, except for an edit that left the modification time
\* what it was when the list was last read, or a list that could not be read.
DecidedByList ==
    [][hook.stage \in {"match", "lookup"} /\ quiet /\ ~missed /\ bound # "none"
        => By(mounted.lines)]_<<hook, verdict>>

\* What up's comment says of the list at the sandbox's path: "broker_addon.py
\* hot-reloads it on change".
HotReloaded ==
    [][hook.stage \in {"match", "lookup"} /\ quiet /\ ~missed /\ bound # "none"
        => By(file.lines)]_<<hook, verdict>>

\* What the list says of itself, and relies on where it puts a note behind a host:
\* "foo.com -> allowed AND decrypted".
ListedIsAllowed ==
    [][hook.stage = "match" /\ quiet /\ ~missed /\ bound = "path" /\ verdict' = "deny"
        => \A l \in file.lines : l.splice \/ <<l.pattern, hook.host>> \notin Covers]_<<hook, verdict>>

\* "otherwise it fails closed": whatever becomes of lookups and of the list, a
\* connection is spliced only to an address its name has, or gave up while this
\* gateway ran.  How long ago is SplicedIsRecent's question.
SplicedWasHeld ==
    [][verdict' = "splice" /\ verdict # "splice"
        => hook.dst \in Holds(hook.host) \/ gone[hook.host][hook.dst] # Never]_<<hook, verdict>>

\* What _sni_matches_dst says of itself, "unioned across recent lookups", and
\* SECURITY.md relies on: an address the name gave up is spliced for as long as
\* the last answer with it was good, and for one answer more.  (Where a lookup gets
\* no answer the previous one is kept, as it also says: that is not held against it.)
SplicedIsRecent ==
    [][verdict' = "splice" /\ verdict # "splice" /\ cache' # cache
        => \/ hook.dst \in Holds(hook.host)
           \/ now <= gone[hook.host][hook.dst] + 2 * DnsTTL]_<<hook, verdict, cache>>

\* An address that the name has had for as long as an answer is cached is refused
\* only by a lookup that got no answer: neither rotation nor an earlier failure
\* keep a legitimate connection out.
HeldIsSpliced ==
    [][\A a \in Addresses :
          /\ hook.dst = a /\ verdict' = "refuse"
          /\ since[hook.host][a] # Never /\ since[hook.host][a] + DnsTTL <= now
          => hook.stage = "lookup" /\ cache' = cache]_<<hook, verdict>>
=============================================================================
