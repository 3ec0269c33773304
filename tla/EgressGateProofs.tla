-------------------------- MODULE EgressGateProofs --------------------------
(***************************************************************************)
(* The egress gate for any list, any edits of it, any hosts and addresses. *)
(***************************************************************************)
EXTENDS EgressGate, TLAPS

\* What Next is made of.
LEMMA GateCases ==
  ASSUME [GateNext]_gateVars
  PROVE  \/ \E kind \in Kinds \ {"running"}, h \in Hosts, dst \in Addresses \cup {Never} :
               HookBegin(kind, h, dst)
         \/ Stat \/ Read \/ ReadFails \/ Decide
         \/ \E answered \in BOOLEAN : Lookup(answered)
         \/ \E line \in Lines : Append(line)
         \/ \E lines \in SUBSET Lines, time \in Time : Rewrite(lines, time)
         \/ \E lines \in SUBSET Lines : Replace(lines)
         \/ Restart
         \/ \E h \in Hosts, addresses \in SUBSET Addresses : DnsChanges(h, addresses)
         \/ Tick
         \/ UNCHANGED gateVars
  BY DEF GateNext, HookStep

\* What is read of a list is patterns.
LEMMA ParseType ==
  ASSUME NEW lines \in SUBSET Lines, NEW splice \in BOOLEAN
  PROVE  Parse(lines, splice) \subseteq Patterns
  BY GateAssumption DEF Parse

\* What is read of a list covers what its lines name.
LEMMA ParseNames ==
  ASSUME NEW lines \in SUBSET Lines, NEW splice \in BOOLEAN, NEW h
  PROVE  Match(h, Parse(lines, splice)) <=> Names(lines, splice, h)
  BY DEF Match, Parse, Names

\* How a decision in memory ends.
LEMMA DecideCases ==
  ASSUME Decide, hook \in Hooks
  PROVE  \/ hook.kind = "running" /\ hook' = Idle /\ verdict' = "none"
         \/ /\ hook.kind = "requestheaders" /\ hook' = Idle
            /\ \/ verdict' = "allow" /\ Match(hook.host, inspect)
               \/ verdict' = "deny" /\ ~Match(hook.host, inspect)
         \/ /\ hook.kind = "clienthello" /\ ~Match(hook.host, passthrough)
            /\ hook' = Idle /\ verdict' = "intercept"
         \/ /\ hook.kind = "clienthello" /\ Match(hook.host, passthrough) /\ hook' = Idle
            /\ \/ verdict' = "refuse" /\ hook.dst = Never
               \/ /\ verdict' = "refuse" /\ hook.dst # Never
                  /\ now < cache[hook.host].exp /\ hook.dst \notin cache[hook.host].ips
               \/ verdict' = "splice" /\ hook.dst \in cache[hook.host].ips
         \/ /\ hook.kind = "clienthello" /\ Match(hook.host, passthrough) /\ verdict' = verdict
            /\ hook' = [hook EXCEPT !.stage = "lookup", !.start = now]
<1>1. CASE hook.kind = "running" BY <1>1 DEF Decide, HookEnds
<1>2. CASE hook.kind = "requestheaders" BY <1>2 DEF Decide, HookEnds
<1>3. CASE hook.kind = "clienthello"
  <2>1. CASE ~Match(hook.host, passthrough) BY <1>3, <2>1 DEF Decide, HookEnds
  <2>2. CASE Match(hook.host, passthrough) /\ hook.dst = Never
    BY <1>3, <2>2 DEF Decide, HookEnds
  <2>3. CASE Match(hook.host, passthrough) /\ hook.dst # Never /\ now < cache[hook.host].exp
    BY <1>3, <2>3 DEF Decide, HookEnds
  <2>4. CASE Match(hook.host, passthrough) /\ hook.dst # Never /\ ~(now < cache[hook.host].exp)
    BY <1>3, <2>4 DEF Decide, HookEnds
  <2> QED BY <2>1, <2>2, <2>3, <2>4
<1> QED BY <1>1, <1>2, <1>3 DEF Hooks, Kinds

-----------------------------------------------------------------------------
(* Types.                                                                  *)

\* The states a hook passes through.
LEMMA HookType ==
  /\ \A k \in Hooks, s \in Stages : [k EXCEPT !.stage = s] \in Hooks
  /\ \A k \in Hooks, s \in Stages, t \in Time : [k EXCEPT !.stage = s, !.start = t] \in Hooks
  BY DEF Hooks

\* What a gateway starts with.
LEMMA GateInitials ==
  /\ 0 \in Time
  /\ Idle \in Hooks /\ [Idle EXCEPT !.stage = "stat"] \in Hooks
  /\ Idle.host = Never /\ Idle.kind = "running" /\ Idle.stage = "idle"
  /\ [Idle EXCEPT !.stage = "stat"].host = Never
  /\ [Idle EXCEPT !.stage = "stat"].kind = "running"
  /\ [Idle EXCEPT !.stage = "stat"].stage = "stat"
  /\ NoCache \in [Hosts -> [ips : SUBSET Addresses, exp : Nat]]
  /\ Nothing \in [Hosts -> [Addresses -> Time \cup {Never}]]
<1>1. 0 \in Time BY GateAssumption DEF Time
<1>2. Idle \in Hooks BY <1>1 DEF Idle, Hooks, Kinds, Stages
<1>3. [Idle EXCEPT !.stage = "stat"] \in Hooks BY <1>2, HookType DEF Stages
<1> QED BY <1>1, <1>2, <1>3 DEF Idle, NoCache, Nothing

\* Every step keeps the types.
LEMMA GateTypeStep ==
  ASSUME GateTypeOK, [GateNext]_gateVars
  PROVE  GateTypeOK'
<1> USE GateAssumption DEF GateTypeOK, Results, world, addon
<1>1. ASSUME NEW kind \in Kinds \ {"running"}, NEW h \in Hosts,
             NEW dst \in Addresses \cup {Never}, HookBegin(kind, h, dst)
      PROVE  GateTypeOK'
  <2>1. hook' \in Hooks BY <1>1, GateInitials DEF HookBegin, Hooks
  <2>2. hook'.host = h /\ hook'.kind = kind /\ hook'.stage = "stat" BY <1>1 DEF HookBegin
  <2> QED BY <1>1, <2>1, <2>2 DEF HookBegin
<1>2. CASE Stat
  <2>1. PICK s \in {"match", "read"} : hook' = [hook EXCEPT !.stage = s]
    BY <1>2 DEF Stat
  <2>2. hook' \in Hooks BY <2>1, HookType DEF Stages
  <2>3. hook'.host = hook.host /\ hook'.kind = hook.kind /\ hook'.stage = s
    BY <2>1 DEF Hooks
  <2>4. /\ hook' \in Hooks /\ hook'.host = hook.host /\ hook'.kind = hook.kind
        /\ hook'.stage \in {"match", "read"}
    BY <2>2, <2>3
  <2>5. mtime' \in Time \cup {Never} BY <1>2 DEF Stat, Version
  <2>6. inspect' \subseteq Patterns /\ passthrough' \subseteq Patterns BY <1>2 DEF Stat
  <2> QED BY <1>2, <2>4, <2>5, <2>6 DEF Stat
<1>3. CASE Read
  <2>1. hook' = [hook EXCEPT !.stage = "match"] BY <1>3 DEF Read
  <2>2. hook' \in Hooks BY <2>1, HookType DEF Stages
  <2>3. hook'.host = hook.host /\ hook'.kind = hook.kind /\ hook'.stage = "match"
    BY <2>1 DEF Hooks
  <2>4. inspect' \subseteq Patterns /\ passthrough' \subseteq Patterns
    BY <1>3, ParseType DEF Read, Version
  <2> QED BY <1>3, <2>2, <2>3, <2>4 DEF Read
<1>4. CASE ReadFails
  BY <1>4, GateInitials DEF ReadFails
<1>5. CASE Decide
  <2>1. CASE hook' = Idle /\ verdict' \in Results
    BY <1>5, <2>1, GateInitials DEF Decide
  <2>2. CASE /\ hook' = [hook EXCEPT !.stage = "lookup", !.start = now]
             /\ verdict' = verdict /\ hook.kind = "clienthello"
    <3>1. hook' \in Hooks BY <2>2, HookType DEF Stages
    <3>2. hook'.host = hook.host /\ hook'.kind = hook.kind /\ hook'.stage = "lookup"
      BY <2>2 DEF Hooks
    <3> QED BY <1>5, <2>2, <3>1, <3>2 DEF Decide
  <2> QED BY <1>5, <2>1, <2>2, DecideCases
<1>6. ASSUME NEW answered \in BOOLEAN, Lookup(answered)
      PROVE  GateTypeOK'
  <2>1. hook.host \in Hosts BY <1>6 DEF Lookup, Hooks
  <2>2. hook.start + DnsTTL \in Nat BY DEF Hooks, Time
  <2>3. cache[hook.host] \in [ips : SUBSET Addresses, exp : Nat] BY <2>1
  <2>4. cache' \in [Hosts -> [ips : SUBSET Addresses, exp : Nat]]
    BY <1>6, <2>1, <2>2, <2>3 DEF Lookup, Holds
  <2>5. hook' = Idle /\ verdict' \in Results BY <1>6 DEF Lookup, HookEnds
  <2> QED BY <1>6, <2>4, <2>5, GateInitials DEF Lookup
<1>7. ASSUME NEW line \in Lines, Append(line)
      PROVE  GateTypeOK'
  <2>1. file' \in Version /\ mounted' \in Version BY <1>7 DEF Append, Written, Version
  <2>2. edits' \in 0 .. MaxEdits BY <1>7 DEF Append, Written
  <2>3. quiet' \in BOOLEAN /\ missed' \in BOOLEAN BY <1>7 DEF Append, Written
  <2> QED BY <1>7, <2>1, <2>2, <2>3 DEF Append, Written
<1>8. ASSUME NEW lines \in SUBSET Lines, NEW time \in Time, Rewrite(lines, time)
      PROVE  GateTypeOK'
  <2>1. file' \in Version /\ mounted' \in Version BY <1>8 DEF Rewrite, Written, Version
  <2>2. edits' \in 0 .. MaxEdits BY <1>8 DEF Rewrite, Written
  <2>3. quiet' \in BOOLEAN /\ missed' \in BOOLEAN BY <1>8 DEF Rewrite, Written
  <2> QED BY <1>8, <2>1, <2>2, <2>3 DEF Rewrite, Written
<1>9. ASSUME NEW lines \in SUBSET Lines, Replace(lines)
      PROVE  GateTypeOK'
  <2>1. file' \in Version BY <1>9 DEF Replace, Version
  <2>2. edits' \in 0 .. MaxEdits BY <1>9 DEF Replace
  <2> QED BY <1>9, <2>1, <2>2 DEF Replace
<1>10. CASE Restart
  <2>1. bound' \in {"path", "old", "none"} /\ mounted' \in Version BY <1>10 DEF Restart
  <2> QED BY <1>10, <2>1, GateInitials DEF Restart
<1>11. ASSUME NEW h \in Hosts, NEW addresses \in SUBSET Addresses, DnsChanges(h, addresses)
      PROVE  GateTypeOK'
  <2>1. since' \in [Hosts -> [Addresses -> Time \cup {Never}]] BY <1>11 DEF DnsChanges
  <2>2. gone[h] \in [Addresses -> Time \cup {Never}] OBVIOUS
  <2>3. gone' \in [Hosts -> [Addresses -> Time \cup {Never}]] BY <1>11, <2>2 DEF DnsChanges
  <2> QED BY <1>11, <2>1, <2>3 DEF DnsChanges
<1>12. CASE Tick
  BY <1>12 DEF Tick, Time
<1>13. CASE UNCHANGED gateVars
  BY <1>13 DEF gateVars
<1> HIDE DEF GateTypeOK, Results, world, addon
<1> QED
  BY GateCases, <1>1, <1>2, <1>3, <1>4, <1>5, <1>6, <1>7, <1>8, <1>9, <1>10,
     <1>11, <1>12, <1>13, Zenon

-----------------------------------------------------------------------------
(* The list.                                                               *)

Current == inspect = Parse(mounted.lines, FALSE) /\ passthrough = Parse(mounted.lines, TRUE)

\* What the addon knows of the mounted list, when that is the one at the path, and
\* how far the hook in progress has come.
ListInv ==
  /\ bound = "path" => mounted = file
  /\ hook.stage # "idle" => verdict = "none"
  /\ hook.stage = "lookup" => Match(hook.host, passthrough)
  /\ ~missed /\ bound # "none" =>
        /\ hook.stage # "read" /\ mtime = mounted.mtime => Current
        /\ hook.stage \in {"match", "lookup"} /\ quiet => Current

\* A list that changed after it was read has another time, or was missed.
LEMMA ListStep ==
  ASSUME GateTypeOK, ListInv, [GateNext]_gateVars
  PROVE  ListInv'
<1> USE GateAssumption DEF GateTypeOK, ListInv, Current, Version, Hooks, Kinds, Stages, Idle, world, addon
<1>1. ASSUME NEW kind \in Kinds \ {"running"}, NEW h \in Hosts,
             NEW dst \in Addresses \cup {Never}, HookBegin(kind, h, dst)
      PROVE  ListInv'
  BY <1>1 DEF HookBegin
<1>2. CASE Stat
  BY <1>2 DEF Stat
<1>3. CASE Read
  BY <1>3 DEF Read
<1>4. CASE ReadFails
  BY <1>4 DEF ReadFails
<1>5. CASE Decide
  <2>1. hook.stage = "match"
      /\ UNCHANGED <<bound, mounted, file, missed, mtime, inspect, passthrough, quiet>>
    BY <1>5 DEF Decide
  <2>2. CASE hook' = Idle BY <2>1, <2>2
  <2>3. CASE /\ hook' = [hook EXCEPT !.stage = "lookup", !.start = now]
             /\ Match(hook.host, passthrough) /\ verdict' = verdict
    <3>1. hook'.stage = "lookup" /\ hook'.host = hook.host BY <2>3
    <3>2. Match(hook.host, passthrough)' <=> Match(hook'.host, passthrough)
        BY <2>1 DEF Match
    <3> QED BY <2>1, <2>3, <3>1, <3>2
  <2> QED BY <1>5, <2>2, <2>3, DecideCases
<1>6. ASSUME NEW answered \in BOOLEAN, Lookup(answered)
      PROVE  ListInv'
  BY <1>6 DEF Lookup, HookEnds, Holds
<1>7. ASSUME NEW line \in Lines, Append(line)
      PROVE  ListInv'
  BY <1>7 DEF Append, Written
<1>8. ASSUME NEW lines \in SUBSET Lines, NEW time \in Time, Rewrite(lines, time)
      PROVE  ListInv'
  BY <1>8 DEF Rewrite, Written
<1>9. ASSUME NEW lines \in SUBSET Lines, Replace(lines)
      PROVE  ListInv'
  BY <1>9 DEF Replace
<1>10. CASE Restart
  <2>1. mtime' # mounted'.mtime BY <1>10 DEF Restart, Time
  <2>2. hook'.stage = "stat" BY <1>10 DEF Restart
  <2> QED BY <1>10, <2>1, <2>2 DEF Restart
<1>11. ASSUME NEW h \in Hosts, NEW addresses \in SUBSET Addresses, DnsChanges(h, addresses)
      PROVE  ListInv'
  BY <1>11 DEF DnsChanges, Holds
<1>12. CASE Tick
  BY <1>12 DEF Tick
<1>13. CASE UNCHANGED gateVars
  BY <1>13 DEF gateVars
<1> HIDE DEF GateTypeOK, ListInv, Current, Version, Hooks, Kinds, Stages, Idle, world, addon
<1> QED
  BY GateCases, <1>1, <1>2, <1>3, <1>4, <1>5, <1>6, <1>7, <1>8, <1>9, <1>10,
     <1>11, <1>12, <1>13, Zenon

-----------------------------------------------------------------------------
(* The addresses.                                                          *)

\* An address that a host has, or gave up while this gateway ran.
Known(h, a) == since[h][a] # Never \/ gone[h][a] # Never

\* What is cached is known, and an entry has every address that was held for
\* DnsTTL when the entry expires.
CacheInv ==
  /\ hook.start <= now
  /\ \A h \in Hosts :
        /\ cache[h].exp <= now + DnsTTL
        /\ \A a \in cache[h].ips : Known(h, a)
        /\ \A a \in Addresses : since[h][a] # Never =>
              /\ since[h][a] <= now
              /\ since[h][a] + DnsTTL < cache[h].exp => a \in cache[h].ips

\* A lookup adds whatever is held at that time.
LEMMA CacheStep ==
  ASSUME GateTypeOK, CacheInv, [GateNext]_gateVars
  PROVE  CacheInv'
<1> USE GateAssumption DEF GateTypeOK, CacheInv, Known, Time, Hooks, Kinds, Stages, Idle, world, addon
<1>1. ASSUME NEW kind \in Kinds \ {"running"}, NEW h \in Hosts,
             NEW dst \in Addresses \cup {Never}, HookBegin(kind, h, dst)
      PROVE  CacheInv'
  BY <1>1 DEF HookBegin
<1>2. CASE Stat
  BY <1>2 DEF Stat
<1>3. CASE Read
  BY <1>3 DEF Read
<1>4. CASE ReadFails
  BY <1>4 DEF ReadFails
<1>5. CASE Decide
  <2>1. CASE hook' = Idle BY <1>5, <2>1 DEF Decide
  <2>2. CASE hook' = [hook EXCEPT !.stage = "lookup", !.start = now]
    BY <1>5, <2>2 DEF Decide
  <2> QED BY <1>5, <2>1, <2>2, DecideCases
<1>6. ASSUME NEW answered \in BOOLEAN, Lookup(answered)
      PROVE  CacheInv'
  BY <1>6 DEF Lookup, HookEnds, Holds
<1>7. ASSUME NEW line \in Lines, Append(line)
      PROVE  CacheInv'
  BY <1>7 DEF Append, Written
<1>8. ASSUME NEW lines \in SUBSET Lines, NEW time \in Time, Rewrite(lines, time)
      PROVE  CacheInv'
  BY <1>8 DEF Rewrite, Written
<1>9. ASSUME NEW lines \in SUBSET Lines, Replace(lines)
      PROVE  CacheInv'
  BY <1>9 DEF Replace
<1>10. CASE Restart
  BY <1>10 DEF Restart, NoCache
<1>11. ASSUME NEW h \in Hosts, NEW addresses \in SUBSET Addresses, DnsChanges(h, addresses)
      PROVE  CacheInv'
  BY <1>11 DEF DnsChanges, Holds
<1>12. CASE Tick
  BY <1>12 DEF Tick
<1>13. CASE UNCHANGED gateVars
  BY <1>13 DEF gateVars
<1> HIDE DEF GateTypeOK, CacheInv, Known, Time, Hooks, Kinds, Stages, Idle, world, addon
<1> QED
  BY GateCases, <1>1, <1>2, <1>3, <1>4, <1>5, <1>6, <1>7, <1>8, <1>9, <1>10,
     <1>11, <1>12, <1>13, Zenon

-----------------------------------------------------------------------------
(* The theorems.                                                           *)

GateInv == GateTypeOK /\ ListInv /\ CacheInv

\* A gateway starts without lists and without cached addresses.
LEMMA GateInitially ==
  ASSUME GateInit
  PROVE  GateInv
<1>1. PICK lines \in SUBSET Lines : file = [lines |-> lines, mtime |-> 0]
  BY DEF GateInit
<1>2. since \in [Hosts -> [Addresses -> {0, Never}]] /\ gone = Nothing
  BY DEF GateInit
<1>3. GateTypeOK
  <2>1. file \in Version /\ mounted \in Version
    BY <1>1, GateInitials DEF GateInit, Version
  <2>2. since \in [Hosts -> [Addresses -> Time \cup {Never}]] /\ gone \in [Hosts -> [Addresses -> Time \cup {Never}]]
    BY <1>2, GateInitials
  <2>3. edits \in 0 .. MaxEdits BY GateAssumption DEF GateInit
  <2> QED BY <2>1, <2>2, <2>3, GateInitials DEF GateInit, GateTypeOK, Results
<1>4. ListInv
  <2>1. mtime # mounted.mtime BY <1>1, GateAssumption DEF GateInit
  <2> QED BY <2>1, GateInitials DEF GateInit, ListInv
<1>5. CacheInv
  <2>1. hook.start = 0 /\ now = 0 BY DEF GateInit, Idle
  <2>2. \A h \in Hosts : cache[h].exp = 0 /\ cache[h].ips = {} BY DEF GateInit, NoCache
  <2>3. \A h \in Hosts, a \in Addresses : since[h][a] # Never => since[h][a] = 0
    BY <1>2
  <2> QED BY <2>1, <2>2, <2>3, GateAssumption DEF CacheInv, Known
<1> QED BY <1>3, <1>4, <1>5 DEF GateInv

\* What the addon knows of the list and of the addresses, in every reachable state.
THEOREM GateInvariant == GateSpec => []GateInv
<1>1. GateInit => GateInv BY GateInitially
<1>2. GateInv /\ [GateNext]_gateVars => GateInv'
  BY GateTypeStep, ListStep, CacheStep DEF GateInv
<1> QED BY <1>1, <1>2, PTL DEF GateSpec

\* Every variable keeps its type; only connections look names up.
THEOREM GateTypeCorrect == GateSpec => []GateTypeOK
<1>1. GateInv => GateTypeOK BY DEF GateInv
<1> QED BY GateInvariant, <1>1, PTL

\* Only these steps end a hook that has loaded the list.
LEMMA Deciding ==
  ASSUME [GateNext]_gateVars, hook.stage \in {"match", "lookup"}, <<hook, verdict>>' # <<hook, verdict>>
  PROVE  Decide \/ (\E answered \in BOOLEAN : Lookup(answered)) \/ verdict' = "none"
<1> QED
  BY GateCases DEF HookBegin, Stat, Read, ReadFails, Append, Rewrite, Written, Replace, Restart,
                   DnsChanges, Tick, gateVars

\* For any list and any edits: a hook decides by the list as it is.
THEOREM DecidesByList == GateSpec => DecidedByList
<1> DEFINE Step == hook.stage \in {"match", "lookup"} /\ quiet /\ ~missed /\ bound # "none"
                     => By(mounted.lines)
<1>1. ASSUME GateInv, [GateNext]_gateVars, <<hook, verdict>>' # <<hook, verdict>>,
             hook.stage \in {"match", "lookup"}, quiet, ~missed, bound # "none"
      PROVE  By(mounted.lines)
  <2>1. Current BY <1>1 DEF GateInv, ListInv
  <2>2. mounted.lines \in SUBSET Lines BY <1>1 DEF GateInv, GateTypeOK, Version
  <2>3. /\ Match(hook.host, inspect) <=> Names(mounted.lines, FALSE, hook.host)
        /\ Match(hook.host, passthrough) <=> Names(mounted.lines, TRUE, hook.host)
    BY <2>1, <2>2, ParseNames DEF Current
  <2>4. CASE Decide
    <3>1. hook.stage = "match" BY <2>4 DEF Decide
    <3>2. hook \in Hooks /\ verdict = "none"
      BY <1>1, <3>1 DEF GateInv, GateTypeOK, ListInv
    <3> QED BY <2>3, <2>4, <3>2, DecideCases DEF By
  <2>5. CASE \E answered \in BOOLEAN : Lookup(answered)
    <3>1. hook.stage = "lookup" /\ verdict' \in {"splice", "refuse"}
      BY <2>5 DEF Lookup, HookEnds
    <3>2. Match(hook.host, passthrough) BY <1>1, <3>1 DEF GateInv, ListInv
    <3> QED BY <2>3, <3>1, <3>2 DEF By
  <2>6. CASE verdict' = "none" BY <2>6 DEF By
  <2> QED BY <1>1, <2>4, <2>5, <2>6, Deciding
<1>2. GateInv /\ [GateNext]_gateVars => [Step]_<<hook, verdict>>
  BY <1>1
<1> QED BY GateInvariant, <1>2, PTL DEF GateSpec, DecidedByList

\* For any names, addresses and changes of them: what is spliced is held, or was
\* given up while this gateway ran.
THEOREM SplicesHeld == GateSpec => SplicedWasHeld
<1> DEFINE Step == verdict' = "splice" /\ verdict # "splice"
                   => hook.dst \in Holds(hook.host) \/ gone[hook.host][hook.dst] # Never
<1>1. ASSUME GateInv, [GateNext]_gateVars, verdict' = "splice", verdict # "splice"
      PROVE  hook.dst \in Holds(hook.host) \/ gone[hook.host][hook.dst] # Never
  <2>1. Decide \/ (\E answered \in BOOLEAN : Lookup(answered))
    BY <1>1, GateCases
    DEF HookBegin, Stat, Read, ReadFails, Append, Rewrite, Written, Replace, Restart,
        DnsChanges, Tick, gateVars
  <2>2. hook.host \in Hosts \cup {Never} /\ (hook.host = Never <=> hook.kind = "running")
    BY <1>1 DEF GateInv, GateTypeOK, Hooks
  <2>3. CASE Decide
    <3>1. hook.kind = "clienthello" /\ hook.dst \in cache[hook.host].ips
      BY <1>1, <2>3, DecideCases DEF GateInv, GateTypeOK
    <3>2. hook.host \in Hosts /\ hook.dst \in Addresses
      BY <1>1, <2>2, <3>1 DEF GateInv, GateTypeOK
    <3> QED BY <1>1, <3>1, <3>2 DEF GateInv, CacheInv, Known, Holds
  <2>4. CASE \E answered \in BOOLEAN : Lookup(answered)
    <3>1. PICK answered \in BOOLEAN : Lookup(answered) BY <2>4
    <3>2. hook.stage = "lookup" /\ hook.host \in Hosts
      BY <1>1, <2>2, <3>1 DEF Lookup, GateInv, GateTypeOK
    <3>3. cache[hook.host] \in [ips : SUBSET Addresses, exp : Nat] /\ cache \in [Hosts -> [ips : SUBSET Addresses, exp : Nat]]
      BY <1>1, <3>2 DEF GateInv, GateTypeOK
    <3>4. hook.dst \in cache'[hook.host].ips
      BY <1>1, <3>1 DEF Lookup, HookEnds
    <3>5. cache'[hook.host].ips \subseteq cache[hook.host].ips \cup Holds(hook.host)
      BY <3>1, <3>2, <3>3 DEF Lookup
    <3>6. \A a \in cache[hook.host].ips : Known(hook.host, a)
      BY <1>1, <3>2 DEF GateInv, CacheInv
    <3> QED BY <3>2, <3>3, <3>4, <3>5, <3>6 DEF Known, Holds
  <2> QED BY <2>1, <2>3, <2>4
<1>2. GateInv /\ [GateNext]_gateVars => [Step]_<<hook, verdict>>
  BY <1>1
<1> QED BY GateInvariant, <1>2, PTL DEF GateSpec, SplicedWasHeld

\* For any names, addresses and changes of them: what is held is spliced.
THEOREM HeldSpliced == GateSpec => HeldIsSpliced
<1> DEFINE Step == \A a \in Addresses :
                      /\ hook.dst = a /\ verdict' = "refuse"
                      /\ since[hook.host][a] # Never /\ since[hook.host][a] + DnsTTL <= now
                      => hook.stage = "lookup" /\ cache' = cache
<1>1. ASSUME GateInv, [GateNext]_gateVars, <<hook, verdict>>' # <<hook, verdict>>,
             NEW a \in Addresses, hook.dst = a, verdict' = "refuse",
             since[hook.host][a] # Never, since[hook.host][a] + DnsTTL <= now
      PROVE  hook.stage = "lookup" /\ cache' = cache
  <2>0. Never \notin Addresses BY GateAssumption
  <2>1. Decide \/ (\E answered \in BOOLEAN : Lookup(answered))
    BY <1>1, <2>0, GateCases
    DEF HookBegin, Stat, Read, ReadFails, Append, Rewrite, Written, Replace, Restart,
        DnsChanges, Tick, gateVars, GateInv, ListInv
  <2>2. hook.host \in Hosts \cup {Never} /\ (hook.host = Never <=> hook.kind = "running")
    BY <1>1 DEF GateInv, GateTypeOK, Hooks
  <2>3. ASSUME Decide PROVE FALSE
    <3>1. verdict # "refuse" BY <1>1, <2>3 DEF Decide, GateInv, ListInv
    <3>2. /\ hook.kind = "clienthello" /\ hook.dst # Never
          /\ now < cache[hook.host].exp /\ hook.dst \notin cache[hook.host].ips
      BY <1>1, <2>0, <2>3, <3>1, DecideCases DEF GateInv, GateTypeOK
    <3>3. hook.host \in Hosts BY <2>2, <3>2
    <3>4. /\ since[hook.host][a] \in Nat /\ cache[hook.host].exp \in Nat /\ now \in Nat
      BY <1>1, <3>3 DEF GateInv, GateTypeOK, Time
    <3>5. since[hook.host][a] + DnsTTL < cache[hook.host].exp
      BY <1>1, <3>2, <3>4, GateAssumption
    <3> QED BY <1>1, <3>2, <3>3, <3>5 DEF GateInv, CacheInv
  <2>4. ASSUME NEW answered \in BOOLEAN, Lookup(answered)
      PROVE hook.stage = "lookup" /\ cache' = cache
    <3>1. hook.stage = "lookup" /\ hook.host \in Hosts
      BY <1>1, <2>2, <2>4 DEF Lookup, GateInv, GateTypeOK
    <3>2. cache \in [Hosts -> [ips : SUBSET Addresses, exp : Nat]]
      BY <1>1 DEF GateInv, GateTypeOK
    <3>3. a \in Holds(hook.host) BY <1>1 DEF Holds
    <3>4. hook.dst \notin cache'[hook.host].ips
      BY <1>1, <2>4 DEF Lookup, HookEnds
    <3>5. ~answered BY <1>1, <2>4, <3>1, <3>2, <3>3, <3>4 DEF Lookup
    <3> QED BY <2>4, <3>1, <3>5 DEF Lookup
  <2> QED BY <2>1, <2>3, <2>4
<1>2. GateInv /\ [GateNext]_gateVars => [Step]_<<hook, verdict>>
  BY <1>1
<1> QED BY GateInvariant, <1>2, PTL DEF GateSpec, HeldIsSpliced
=============================================================================
