-------------------------- MODULE CredentialBroker --------------------------
(***************************************************************************)
(* The broker addon inside mitmproxy, reading the credential store while   *)
(* the control server's threads write it.  mitmproxy runs the addon's      *)
(* hooks one at a time on its event loop, so one request is in the addon   *)
(* at any moment, but each of its redis commands is a step of its own.     *)
(*                                                                         *)
(* Whether the allowlist lets a request in (_load and _match) is an input  *)
(* here.  Header names are the canonical ones, Matching is                 *)
(* _pat_match, and patterns are merged in any order: HGETALL promises      *)
(* none.                                                                   *)
(***************************************************************************)
EXTENDS CredentialStore

CONSTANTS
    Matching,    \* the pairs <<host, pattern>> that _pat_match accepts
    BadHandle    \* a handle header nobody minted

ASSUME BrokerAssumption ==
    /\ Matching \subseteq Hosts \X Patterns
    /\ BadHandle \notin Handles \cup {NoHandle}
    /\ IsFiniteSet(Patterns)

VARIABLES
    connected,   \* self.r is a redis client, not None
    stage,       \* "off" | "ready" | "handle" | "patterns" | "exact"
    req,         \* the last request that entered the addon
    merged,      \* what _host_headers has merged so far
    outcome,     \* the verdict on req and the request as it leaves
    seen,        \* history: <<name, value>> on offer at any moment of the request
    held         \* history: what the exact record held since the request came in

addonVars  == <<connected, stage, req, merged, outcome>>
brokerVars == <<now, redis, control, hostRec, patRec, handleRec, deadline,
                pc, job, issued, bound, lastSet, overlapped,
                connected, stage, req, merged, outcome, seen, held>>

Requests == [host : Hosts, target : Targets, https : BOOLEAN,
             handle : Handles \cup {NoHandle, BadHandle}]

\* The request on the wire: the handle header it carries, the headers injected.
Wire == [handle : Handles \cup {NoHandle, BadHandle}, headers : HeaderMap]

Outcomes == [verdict : {"none", "DENY", "DENY_SCOPE", "ALLOW", "INJECT"},
             via : {"none", "host", "handle"}, wire : Wire]

Pairs == Names \X Values

BrokerTypeOK ==
    /\ connected \in BOOLEAN
    /\ stage \in {"off", "ready", "handle", "patterns", "exact"}
    /\ req \in Requests
    /\ merged \in HeaderMap
    /\ outcome \in Outcomes
    /\ seen \subseteq Pairs
    /\ held \in HeaderMap

Busy == stage \in {"handle", "patterns", "exact"}

\* A variant without the host guard, for HandleDecides.
InScopeAnyHost(spec, q) == q.target \in spec.reach

InScope(spec, q) == spec.host = q.host /\ q.target \in spec.reach

\* A variant that records the handle where its kind belongs, for BrokerTypeOK.
BlockedNaming(verdict, q) ==
    [verdict |-> verdict, via |-> q.handle,
     wire |-> [handle |-> q.handle, headers |-> Empty]]

\* A request mitmproxy answers itself is never sent: its wire is as it came.
Blocked(verdict, q) ==
    [verdict |-> verdict, via |-> "none",
     wire |-> [handle |-> q.handle, headers |-> Empty]]

\* _inject always pops the handle header before anything else.
Forwarded(verdict, via, headers) ==
    [verdict |-> verdict, via |-> via,
     wire |-> [handle |-> NoHandle, headers |-> headers]]

NoRequest == [host |-> CHOOSE h \in Hosts : TRUE, target |-> CHOOSE t \in Targets : TRUE,
              https |-> FALSE, handle |-> NoHandle]

BrokerInit ==
    /\ StoreInit
    /\ connected = FALSE
    /\ stage = "off"
    /\ req = NoRequest
    /\ merged = Empty
    /\ outcome = Blocked("none", NoRequest)
    /\ seen = {}
    /\ held = Empty

-----------------------------------------------------------------------------
\* running(): one ping decides whether this process ever injects.
Running ==
    /\ stage = "off"
    /\ stage' = "ready"
    /\ connected' = (redis = "up")
    /\ UNCHANGED <<storeVars, req, merged, outcome>>

\* A variant that returns on cleartext before it pops the header, for WireIsClean.
RequestHeadersPopsLate(q, allowed) ==
    /\ stage = "ready"
    /\ req' = q
    /\ outcome' = IF allowed /\ ~q.https
                  THEN [Forwarded("ALLOW", "none", Empty) EXCEPT !.wire.handle = q.handle]
                  ELSE Blocked("none", q)
    /\ stage' = IF allowed /\ q.https /\ connected THEN "patterns" ELSE "ready"
    /\ UNCHANGED <<storeVars, connected, merged>>

\* requestheaders and _inject up to the first redis command.
RequestHeaders(q, allowed) ==
    /\ stage = "ready"
    /\ req' = q
    /\ merged' = Empty
    /\ \/ /\ ~allowed
          /\ outcome' = Blocked("DENY", q)
          /\ stage' = "ready"
       \/ /\ allowed
          /\ ~q.https \/ ~connected
          /\ outcome' = Forwarded("ALLOW", "none", Empty)
          /\ stage' = "ready"
       \/ /\ allowed /\ q.https /\ connected
          /\ outcome' = Blocked("none", q)
          /\ stage' = IF q.handle # NoHandle THEN "handle" ELSE "patterns"
    /\ UNCHANGED <<storeVars, connected>>

\* A variant that answers from a cache of what was minted, for InjectedWasOnOffer.
ResolveHandleCached ==
    /\ stage = "handle"
    /\ stage' = "ready"
    /\ outcome' =
         IF req.handle \in Handles /\ bound[req.handle] # NoSpec /\ InScope(bound[req.handle], req)
         THEN Forwarded("INJECT", "handle", bound[req.handle].headers)
         ELSE Blocked("DENY_SCOPE", req)
    /\ UNCHANGED <<storeVars, connected, req, merged>>

\* _resolve_handle: GET, then host, path prefix and method.  A redis error and
\* an absent or expired key read the same.
ResolveHandle ==
    LET k == req.handle IN
    /\ stage = "handle"
    /\ stage' = "ready"
    /\ outcome' =
         IF redis = "up" /\ k \in Handles /\ handleRec[k] # NoSpec /\ InScope(handleRec[k], req)
         THEN Forwarded("INJECT", "handle", handleRec[k].headers)
         ELSE Blocked("DENY_SCOPE", req)
    /\ UNCHANGED <<storeVars, connected, req, merged>>

\* The patterns that match h, merged in the order `rank` gives them.
PatternMerge(h, rank) ==
    LET setting(n) == {p \in Patterns : <<h, p>> \in Matching /\ patRec[p][n] # NoValue}
    IN  [n \in Names |->
           IF setting(n) = {} THEN NoValue
           ELSE LET last == CHOOSE p \in setting(n) : \A o \in setting(n) : rank[o] <= rank[p]
                IN  patRec[last][n]]

Rankings == {r \in [Patterns -> 1 .. Cardinality(Patterns)] :
               \A p, o \in Patterns : r[p] = r[o] => p = o}

\* A variant that waits for redis instead of catching the error, for RequestDecided.
ReadPatternsWaits ==
    /\ stage = "patterns"
    /\ redis = "up"
    /\ stage' = "exact"
    /\ \E rank \in Rankings : merged' = PatternMerge(req.host, rank)
    /\ UNCHANGED <<storeVars, connected, req, outcome>>

\* _host_headers, first command; a redis error counts as no patterns.
ReadPatterns ==
    /\ stage = "patterns"
    /\ stage' = "exact"
    /\ \E rank \in Rankings :
          merged' = IF redis = "up" THEN PatternMerge(req.host, rank) ELSE Empty
    /\ UNCHANGED <<storeVars, connected, req, outcome>>

\* A variant that lets the patterns override, for ExactRecordApplies.
ReadExactFirst ==
    LET headers == IF redis = "up" THEN Overlay(hostRec[req.host], merged) ELSE merged IN
    /\ stage = "exact"
    /\ stage' = "ready"
    /\ outcome' = IF headers = Empty THEN Forwarded("ALLOW", "none", Empty)
                  ELSE Forwarded("INJECT", "host", headers)
    /\ merged' = Empty
    /\ UNCHANGED <<storeVars, connected, req>>

\* _host_headers, second command (the exact record overrides), and the
\* injection; a redis error counts as no record.
ReadExact ==
    LET headers == IF redis = "up" THEN Overlay(merged, hostRec[req.host]) ELSE merged IN
    /\ stage = "exact"
    /\ stage' = "ready"
    /\ outcome' = IF headers = Empty THEN Forwarded("ALLOW", "none", Empty)
                  ELSE Forwarded("INJECT", "host", headers)
    /\ merged' = Empty
    /\ UNCHANGED <<storeVars, connected, req>>

-----------------------------------------------------------------------------
(* What a request may see of the store.  seen grows by everything on offer *)
(* while the request is in the addon; held loses what the exact record     *)
(* stops holding.                                                          *)

Offers(q) ==
    {x \in Pairs :
        \/ hostRec[q.host][x[1]] = x[2]
        \/ \E p \in Patterns : <<q.host, p>> \in Matching /\ patRec[p][x[1]] = x[2]
        \/ /\ q.handle \in Handles
           /\ handleRec[q.handle] # NoSpec
           /\ handleRec[q.handle].headers[x[1]] = x[2]}

KeptBy(old, new) == [n \in Names |-> IF old[n] = new[n] THEN old[n] ELSE NoValue]

Arrives(q, allowed) ==
    /\ RequestHeaders(q, allowed)
    /\ seen' = IF Busy' THEN Offers(q) ELSE {}
    /\ held' = IF Busy' THEN hostRec[q.host] ELSE Empty

Watch ==
    IF Busy
    THEN /\ seen' = seen \cup Offers(req)'
         /\ held' = KeptBy(held, hostRec'[req.host])
    ELSE UNCHANGED <<seen, held>>

-----------------------------------------------------------------------------
\* The container goes down, and the addon with it.
Restart ==
    /\ GatewayRestarts
    /\ stage' = "off"
    /\ connected' = FALSE
    /\ req' = NoRequest
    /\ merged' = Empty
    /\ outcome' = Blocked("none", NoRequest)
    /\ seen' = {}
    /\ held' = Empty

AddonReads == ResolveHandle \/ ReadPatterns \/ ReadExact

BrokerNext ==
    \/ Running /\ UNCHANGED <<seen, held>>
    \/ \E q \in Requests, allowed \in BOOLEAN :
          q.handle \in issued \cup {NoHandle, BadHandle} /\ Arrives(q, allowed)
    \/ AddonReads /\ UNCHANGED <<seen, held>>
    \/ StoreStep /\ UNCHANGED addonVars /\ Watch
    \/ Restart

BrokerSpec == BrokerInit /\ [][BrokerNext]_brokerVars

\* mitmproxy's event loop runs a hook to its end.
BrokerLiveSpec == BrokerSpec /\ WF_brokerVars(AddonReads /\ UNCHANGED <<seen, held>>)

-----------------------------------------------------------------------------
(* Properties.                                                             *)

\* Every header _inject adds was in a record that applies to the request at
\* some moment while the request was in the addon: never a value of an earlier
\* request, nor one deleted, revoked or expired before this request arrived.
InjectedWasOnOffer ==
    \A n \in Names :
        LET v == outcome.wire.headers[n] IN v # NoValue => <<n, v>> \in seen

\* The other bound: a header the host's exact record held all the while is
\* injected with that value, whatever the patterns and other threads do
\* ("exact wins"), unless a handle decides.
ExactRecordApplies ==
    outcome.verdict \in {"ALLOW", "INJECT"} /\ req.handle = NoHandle =>
        \A n \in Names : held[n] # NoValue => outcome.wire.headers[n] = held[n]

\* A request that presents a handle over https gets the minted headers of that
\* very handle, inside the host, path and methods it was minted for, or nothing
\* at all: it never falls back to the host's own credentials.
HandleDecides ==
    outcome.verdict \in {"ALLOW", "INJECT"} /\ req.handle # NoHandle /\ req.https /\ connected =>
        /\ outcome.via = "handle"
        /\ req.handle \in issued
        /\ bound[req.handle].host = req.host
        /\ req.target \in bound[req.handle].reach
        /\ outcome.wire.headers = bound[req.handle].headers

\* Whatever leaves the gateway carries no handle header, and over cleartext
\* no credential either.
WireIsClean ==
    outcome.verdict \in {"ALLOW", "INJECT"} =>
        /\ outcome.wire.handle = NoHandle
        /\ ~req.https => outcome.wire.headers = Empty

\* Every request that enters the addon is decided, also when redis dies
\* between its commands.
RequestDecided == Busy ~> ~Busy
=============================================================================
