-------------------------------- MODULE WebUi --------------------------------
(***************************************************************************)
(* broker/webui.py: headers for many hosts at once.  Every POST has its    *)
(* own thread and makes one control call per host; the gateway may stop, a *)
(* call may time out, and what timed out may still be served later.        *)
(***************************************************************************)
EXTENDS Naturals, Sequences, FiniteSets, SequencesExt

CONSTANTS
    Posts,    \* requests to /api/host-set-many
    Hosts,    \* hosts and patterns
    Refused,  \* those that the gateway does not take
    Requests, \* what a POST may bring
    NoHost    \* a pasted line without a host

\* Are the Host header, the origin and the cookie right, are there headers to
\* set, and what _norm_host makes of each pasted line.
PostRequest == [host_ok : BOOLEAN, origin_ok : BOOLEAN, authed : BOOLEAN,
                headers : BOOLEAN, lines : Seq(Hosts \cup {NoHost})]

ASSUME WebUiAssumption ==
    /\ Refused \subseteq Hosts
    /\ Requests \subseteq PostRequest
    /\ NoHost \notin Hosts

VARIABLES
    gatewayUp,
    request, \* of each POST
    thread,  \* "idle", "calling", "waiting" for an answer, "replied"
    results, \* per host: was it set?
    status,  \* of the reply, 0 before
    inFlight,\* control calls that have reached the gateway
    applied  \* history: control calls that the gateway has carried out

uiVars == <<gatewayUp, request, thread, results, status, inFlight, applied>>

Nobody == [host_ok |-> FALSE, origin_ok |-> FALSE, authed |-> FALSE,
           headers |-> FALSE, lines |-> <<>>]

WebUiInit ==
    /\ gatewayUp = TRUE
    /\ request = [p \in Posts |-> Nobody]
    /\ thread = [p \in Posts |-> "idle"]
    /\ results = [p \in Posts |-> <<>>]
    /\ status = [p \in Posts |-> 0]
    /\ inFlight = {} /\ applied = {}

\* A pasted line adds its host, if it has one that is not there yet.
WithLine(items, h) == IF h = NoHost \/ Contains(items, h) THEN items ELSE Append(items, h)

\* The hosts of the first lines, as the loop goes on.
Listing(lines) ==
    LET items[i \in 0 .. Len(lines)] ==
          IF i = 0 THEN <<>> ELSE WithLine(items[i - 1], lines[i])
    IN  items

\* The hosts of the pasted lines, each once.
Items(req) == Listing(req.lines)[Len(req.lines)]

Item(p) == Items(request[p])[Len(results[p]) + 1]

\* do_POST up to the first control call.
Refusal(req) ==
    IF ~req.host_ok THEN 421
    ELSE IF ~req.origin_ok THEN 403
    ELSE IF ~req.authed THEN 401
    ELSE IF ~req.headers \/ Items(req) = <<>> THEN 400
    ELSE 0

do_POST(p, req) ==
    /\ thread[p] = "idle"
    /\ request' = [request EXCEPT ![p] = req]
    /\ status' = [status EXCEPT ![p] = Refusal(req)]
    /\ thread' = [thread EXCEPT ![p] = IF Refusal(req) = 0 THEN "calling" ELSE "replied"]
    /\ UNCHANGED <<gatewayUp, results, inFlight, applied>>

\* A variant that stops at the first failure, for EveryHostNamed.
NotedBriefly(p, ok) ==
    /\ results' = [results EXCEPT ![p] = Append(@, [host |-> Item(p), ok |-> ok])]
    /\ IF ok /\ Len(results'[p]) < Len(Items(request[p]))
       THEN thread' = [thread EXCEPT ![p] = "calling"] /\ UNCHANGED status
       ELSE /\ thread' = [thread EXCEPT ![p] = "replied"]
            /\ status' = [status EXCEPT ![p] = 200]

\* A control call has returned; behind the last one the reply is sent.
Noted(p, ok) ==
    /\ results' = [results EXCEPT ![p] = Append(@, [host |-> Item(p), ok |-> ok])]
    /\ IF Len(results'[p]) < Len(Items(request[p]))
       THEN thread' = [thread EXCEPT ![p] = "calling"] /\ UNCHANGED status
       ELSE /\ thread' = [thread EXCEPT ![p] = "replied"]
            /\ status' = [status EXCEPT ![p] = 200]

\* A variant that does not wait for the answer, for OkIsFinal.
ControlCallBlindly(p) ==
    /\ thread[p] = "calling"
    /\ Noted(p, gatewayUp)
    /\ inFlight' = IF gatewayUp THEN inFlight \cup {<<p, Item(p)>>} ELSE inFlight
    /\ UNCHANGED <<gatewayUp, request, applied>>

\* control_call: a socket that cannot be reached is an answer too.
ControlCall(p) ==
    /\ thread[p] = "calling"
    /\ IF gatewayUp
       THEN /\ inFlight' = inFlight \cup {<<p, Item(p)>>}
            /\ thread' = [thread EXCEPT ![p] = "waiting"]
            /\ UNCHANGED <<results, status>>
       ELSE Noted(p, FALSE) /\ UNCHANGED inFlight
    /\ UNCHANGED <<gatewayUp, request, applied>>

TimesOut(p) ==
    /\ thread[p] = "waiting"
    /\ Noted(p, FALSE)
    /\ UNCHANGED <<gatewayUp, request, inFlight, applied>>

\* The gateway carries a call out, for a client that may have gone.
Serve(p, h) ==
    /\ <<p, h>> \in inFlight
    /\ inFlight' = inFlight \ {<<p, h>>}
    /\ applied' = IF h \in Refused THEN applied ELSE applied \cup {<<p, h>>}
    /\ IF thread[p] = "waiting" /\ Item(p) = h
       THEN Noted(p, h \notin Refused)
       ELSE UNCHANGED <<thread, results, status>>
    /\ UNCHANGED <<gatewayUp, request>>

\* Calls that are under way are lost: for who waits, as good as a time-out.
GatewayStops ==
    /\ gatewayUp
    /\ gatewayUp' = FALSE
    /\ inFlight' = {}
    /\ UNCHANGED <<request, thread, results, status, applied>>

GatewayStarts ==
    /\ ~gatewayUp
    /\ gatewayUp' = TRUE
    /\ UNCHANGED <<request, thread, results, status, inFlight, applied>>

WebUiNext ==
    \/ \E p \in Posts, req \in Requests : do_POST(p, req)
    \/ \E p \in Posts : ControlCall(p) \/ TimesOut(p) \/ \E h \in Hosts : Serve(p, h)
    \/ GatewayStops \/ GatewayStarts

WebUiSpec == WebUiInit /\ [][WebUiNext]_uiVars

-----------------------------------------------------------------------------
(* Properties.                                                             *)

\* A host that the reply calls set has been set, and the call is over: only a
\* call that was reported as failed may still change something, later.
OkIsFinal ==
    \A p \in Posts : \A i \in DOMAIN results[p] :
        results[p][i].ok => /\ <<p, results[p][i].host>> \in applied
                            /\ <<p, results[p][i].host>> \notin inFlight

\* Some calls may fail, but the reply has a result for every host that was
\* pasted, once, and a POST that is turned down has touched none.
EveryHostNamed ==
    \A p \in Posts :
        /\ status[p] = 200 =>
              /\ {results[p][i].host : i \in DOMAIN results[p]}
                   = {h \in Hosts : Contains(request[p].lines, h)}
              /\ IsInjective([i \in DOMAIN results[p] |-> results[p][i].host])
        /\ status[p] \notin {0, 200} => \A h \in Hosts : <<p, h>> \notin applied \cup inFlight
=============================================================================
