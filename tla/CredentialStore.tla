--------------------------- MODULE CredentialStore ---------------------------
(***************************************************************************)
(* The gateway's credential store: redis (memory only) and the control     *)
(* server that is its write path.  The control server answers every        *)
(* connection on a thread of its own, so the redis commands of two         *)
(* operations interleave; one redis command is one atomic step here.       *)
(*                                                                         *)
(* A header mapping is a function from header names to values, NoValue     *)
(* where the mapping does not have the name; Empty stands for an absent    *)
(* key.  What a handle is bound to (path prefix and methods) is the set of *)
(* targets, the classes of method and path, that it reaches.               *)
(***************************************************************************)
EXTENDS Naturals, FiniteSets

CONSTANTS
    Hosts,       \* exact hosts credentials are kept for
    Patterns,    \* wildcard / subdomain patterns
    Names,       \* header names
    Values,      \* header values
    NoValue,     \* "the mapping has no such header"
    Submitted,   \* the header objects callers send: [Names -> Values or NoValue]
    Handles,     \* the tokens secrets.token_urlsafe draws from
    NoHandle,
    NoSpec,      \* "no such handle key"
    NoTTL,       \* "the key has no expiry"
    Targets,     \* classes of (method, path)
    AskedTTLs,   \* the ttl values callers send (0: absent or zero)
    DefaultTTL,  \* 3600 s in the code
    MaxTTL,      \* 30 days in the code
    Workers,     \* connection threads of the control server
    MaxTime      \* bound on the clock

HeaderMap == [Names -> Values \cup {NoValue}]
Empty     == [n \in Names |-> NoValue]
Specs     == [host : Hosts, reach : SUBSET Targets, headers : HeaderMap]

ASSUME StoreAssumption ==
    /\ Hosts # {} /\ Targets # {}
    /\ NoValue \notin Values
    /\ Submitted \subseteq HeaderMap \ {Empty}
    /\ NoHandle \notin Handles
    /\ NoSpec \notin Specs
    /\ NoTTL \notin Nat
    /\ AskedTTLs \subseteq Nat
    /\ MaxTTL \in Nat \ {0}
    /\ DefaultTTL \in 1 .. MaxTTL
    /\ MaxTime \in Nat

VARIABLES
    now,         \* the clock key expiry is measured on
    redis,       \* "starting" | "up" | "dead"; nothing restarts it
    control,     \* "connecting" | "up" | "dead"; nothing restarts it
    hostRec,     \* broker:host:<host>
    patRec,      \* broker:hostpats, field by field
    handleRec,   \* broker:handle:<handle>
    deadline,    \* the key's expiry, or NoTTL
    pc,          \* what each worker does next
    job,         \* the operation each worker is in the middle of
    issued,      \* handles whose reply reached the operator
    bound,       \* history: what each handle was minted for
    lastSet,     \* history: the last host_set or host_del applied to each host
    overlapped   \* history: hosts on which the last host_set began while another was half done

redisVars  == <<hostRec, patRec, handleRec, deadline>>
historyVars == <<issued, bound, lastSet, overlapped>>
storeVars  == <<now, redis, control, hostRec, patRec, handleRec, deadline,
                pc, job, issued, bound, lastSet, overlapped>>

Jobs == [host : Hosts, headers : HeaderMap, handle : Handles \cup {NoHandle}, ttl : Nat]

StoreTypeOK ==
    /\ now \in 0 .. MaxTime
    /\ redis \in {"starting", "up", "dead"}
    /\ control \in {"connecting", "up", "dead"}
    /\ hostRec \in [Hosts -> HeaderMap]
    /\ patRec \in [Patterns -> HeaderMap]
    /\ handleRec \in [Handles -> Specs \cup {NoSpec}]
    /\ deadline \in [Handles -> Nat \cup {NoTTL}]
    /\ pc \in [Workers -> {"idle", "hset", "expire", "issue", "reply"}]
    /\ job \in [Workers -> Jobs]
    /\ issued \subseteq Handles
    /\ bound \in [Handles -> Specs \cup {NoSpec}]
    /\ lastSet \in [Hosts -> HeaderMap]
    /\ overlapped \subseteq Hosts

NoJob == [host |-> CHOOSE h \in Hosts : TRUE, headers |-> Empty, handle |-> NoHandle, ttl |-> 0]

StoreInit ==
    /\ now = 0
    /\ redis = "starting"
    /\ control = "connecting"
    /\ hostRec = [h \in Hosts |-> Empty]
    /\ patRec = [p \in Patterns |-> Empty]
    /\ handleRec = [k \in Handles |-> NoSpec]
    /\ deadline = [k \in Handles |-> NoTTL]
    /\ pc = [w \in Workers |-> "idle"]
    /\ job = [w \in Workers |-> NoJob]
    /\ issued = {}
    /\ bound = [k \in Handles |-> NoSpec]
    /\ lastSet = [h \in Hosts |-> Empty]
    /\ overlapped = {}

-----------------------------------------------------------------------------
(* Processes of the gateway container.                                     *)

RedisReady ==
    /\ redis = "starting"
    /\ redis' = "up"
    /\ UNCHANGED <<now, control, redisVars, pc, job, historyVars>>

\* The store is memory only: what it held goes with the process.
Wiped ==
    /\ hostRec' = [h \in Hosts |-> Empty]
    /\ patRec' = [p \in Patterns |-> Empty]
    /\ handleRec' = [k \in Handles |-> NoSpec]
    /\ deadline' = [k \in Handles |-> NoTTL]
    /\ lastSet' = [h \in Hosts |-> Empty]

RedisDies ==
    /\ redis = "up"
    /\ redis' = "dead"
    /\ Wiped
    /\ UNCHANGED <<now, control, pc, job, issued, bound, overlapped>>

\* connect_redis: fifty tries a fifth of a second apart, then SystemExit.
ControlConnects ==
    /\ control = "connecting"
    /\ control' = IF redis = "up" THEN "up" ELSE "dead"
    /\ UNCHANGED <<now, redis, redisVars, pc, job, historyVars>>

\* The threads are daemons: they end with the process, wherever they are.
ControlDies ==
    /\ control = "up"
    /\ control' = "dead"
    /\ pc' = [w \in Workers |-> "idle"]
    /\ job' = [w \in Workers |-> NoJob]
    /\ UNCHANGED <<now, redis, redisVars, historyVars>>

\* sandbox down, then up: a new container, an empty store.  Handles already
\* handed out stay with whoever holds them.
GatewayRestarts ==
    /\ redis' = "starting"
    /\ control' = "connecting"
    /\ Wiped
    /\ pc' = [w \in Workers |-> "idle"]
    /\ job' = [w \in Workers |-> NoJob]
    /\ overlapped' = {}
    /\ UNCHANGED <<now, issued, bound>>

\* Time passes and redis drops the keys whose expiry has come.
Expired(k) == deadline[k] # NoTTL /\ deadline[k] <= now + 1

Tick ==
    /\ now < MaxTime
    /\ now' = now + 1
    /\ handleRec' = [k \in Handles |-> IF Expired(k) THEN NoSpec ELSE handleRec[k]]
    /\ deadline' = [k \in Handles |-> IF Expired(k) THEN NoTTL ELSE deadline[k]]
    /\ UNCHANGED <<redis, control, hostRec, patRec, pc, job, historyVars>>

-----------------------------------------------------------------------------
(* Operations.  Accepting a request and its first redis command are one    *)
(* step: nothing is read before that command.                              *)

Accepts(w) == control = "up" /\ pc[w] = "idle"

HalfSet(h) == {w \in Workers : pc[w] = "hset" /\ job[w].host = h}

Overlay(under, over) ==
    [n \in Names |-> IF over[n] # NoValue THEN over[n] ELSE under[n]]

\* A variant that forgets the DEL, for SetReplacesRecord.
HostSetKeepsOld(w, h, headers) ==
    /\ Accepts(w)
    /\ redis = "up"
    /\ pc' = [pc EXCEPT ![w] = "hset"]
    /\ job' = [job EXCEPT ![w] = [NoJob EXCEPT !.host = h, !.headers = headers]]
    /\ lastSet' = [lastSet EXCEPT ![h] = Empty]
    /\ overlapped' = IF HalfSet(h) # {} THEN overlapped \cup {h} ELSE overlapped \ {h}
    /\ UNCHANGED <<now, redis, control, redisVars, issued, bound>>

\* op_host_set, first command: DEL.
HostSetDelete(w, h, headers) ==
    /\ Accepts(w)
    /\ redis = "up"
    /\ hostRec' = [hostRec EXCEPT ![h] = Empty]
    /\ pc' = [pc EXCEPT ![w] = "hset"]
    /\ job' = [job EXCEPT ![w] = [NoJob EXCEPT !.host = h, !.headers = headers]]
    /\ lastSet' = [lastSet EXCEPT ![h] = Empty]
    /\ overlapped' = IF HalfSet(h) # {} THEN overlapped \cup {h} ELSE overlapped \ {h}
    /\ UNCHANGED <<now, redis, control, patRec, handleRec, deadline, issued, bound>>

\* op_host_set, second command: HSET, which adds to what the hash holds.
HostSetWrite(w) ==
    LET h == job[w].host IN
    /\ pc[w] = "hset"
    /\ redis = "up"
    /\ hostRec' = [hostRec EXCEPT ![h] = Overlay(hostRec[h], job[w].headers)]
    /\ lastSet' = [lastSet EXCEPT ![h] = job[w].headers]
    /\ pc' = [pc EXCEPT ![w] = "reply"]
    /\ job' = [job EXCEPT ![w] = NoJob]
    /\ UNCHANGED <<now, redis, control, patRec, handleRec, deadline, issued, bound, overlapped>>

HostDel(w, h) ==
    /\ Accepts(w)
    /\ redis = "up"
    /\ hostRec' = [hostRec EXCEPT ![h] = Empty]
    /\ lastSet' = [lastSet EXCEPT ![h] = Empty]
    /\ pc' = [pc EXCEPT ![w] = "reply"]
    /\ UNCHANGED <<now, redis, control, patRec, handleRec, deadline, job, issued, bound, overlapped>>

HostPatSet(w, p, headers) ==
    /\ Accepts(w)
    /\ redis = "up"
    /\ patRec' = [patRec EXCEPT ![p] = headers]
    /\ pc' = [pc EXCEPT ![w] = "reply"]
    /\ UNCHANGED <<now, redis, control, hostRec, handleRec, deadline, job, historyVars>>

HostPatDel(w, p) ==
    /\ Accepts(w)
    /\ redis = "up"
    /\ patRec' = [patRec EXCEPT ![p] = Empty]
    /\ pc' = [pc EXCEPT ![w] = "reply"]
    /\ UNCHANGED <<now, redis, control, hostRec, handleRec, deadline, job, historyVars>>

\* int(req.get("ttl") or 3600): a ttl of zero is the default, not an error.
GrantedTTL(asked) == IF asked = 0 THEN DefaultTTL ELSE asked

\* op_handle_mint, first command: SET, without an expiry.  The token is fresh.
HandleMintSet(w, k, spec, asked) ==
    /\ Accepts(w)
    /\ redis = "up"
    /\ bound[k] = NoSpec
    /\ GrantedTTL(asked) <= MaxTTL
    /\ handleRec' = [handleRec EXCEPT ![k] = spec]
    /\ bound' = [bound EXCEPT ![k] = spec]
    /\ pc' = [pc EXCEPT ![w] = "expire"]
    /\ job' = [job EXCEPT ![w] = [NoJob EXCEPT !.handle = k, !.ttl = GrantedTTL(asked)]]
    /\ UNCHANGED <<now, redis, control, hostRec, patRec, deadline, issued, lastSet, overlapped>>

\* A variant that tests the wrong thing before EXPIRE, for IssuedHandleExpires.
ExpireSkipped(w) ==
    /\ pc[w] = "expire"
    /\ redis = "up"
    /\ deadline' = IF job[w].ttl = DefaultTTL THEN deadline
                   ELSE [deadline EXCEPT ![job[w].handle] = now + job[w].ttl]
    /\ pc' = [pc EXCEPT ![w] = "issue"]
    /\ UNCHANGED <<now, redis, control, hostRec, patRec, handleRec, job, historyVars>>

\* op_handle_mint, second command: EXPIRE, which does nothing to a missing key.
HandleMintExpire(w) ==
    LET k == job[w].handle IN
    /\ pc[w] = "expire"
    /\ redis = "up"
    /\ deadline' = IF handleRec[k] = NoSpec THEN deadline
                   ELSE [deadline EXCEPT ![k] = now + job[w].ttl]
    /\ pc' = [pc EXCEPT ![w] = "issue"]
    /\ UNCHANGED <<now, redis, control, hostRec, patRec, handleRec, job, historyVars>>

\* The reply that carries the token, the only time it is shown.  control_call
\* gives up after five seconds, and then nobody learns it.
HandleMintReply(w, callerWaits) ==
    /\ pc[w] = "issue"
    /\ issued' = IF callerWaits THEN issued \cup {job[w].handle} ELSE issued
    /\ pc' = [pc EXCEPT ![w] = "idle"]
    /\ job' = [job EXCEPT ![w] = NoJob]
    /\ UNCHANGED <<now, redis, control, redisVars, bound, lastSet, overlapped>>

HandleRevoke(w, k) ==
    /\ Accepts(w)
    /\ redis = "up"
    /\ handleRec' = [handleRec EXCEPT ![k] = NoSpec]
    /\ deadline' = [deadline EXCEPT ![k] = NoTTL]
    /\ pc' = [pc EXCEPT ![w] = "reply"]
    /\ UNCHANGED <<now, redis, control, hostRec, patRec, job, historyVars>>

\* A variant that catches nothing once an operation has begun, for
\* OperationsAnswered.
OpFailsAtStart(w) ==
    /\ redis # "up" /\ Accepts(w)
    /\ pc' = [pc EXCEPT ![w] = "reply"]
    /\ UNCHANGED <<now, redis, control, redisVars, job, historyVars>>

\* An exception ends the operation with ok = False: a command redis does not
\* answer, or (callers send any ttl) a lifetime out of range.
OpFails(w) ==
    /\ \/ redis # "up" /\ (Accepts(w) \/ pc[w] \in {"hset", "expire"})
       \/ Accepts(w) /\ \E asked \in AskedTTLs : GrantedTTL(asked) > MaxTTL
    /\ pc' = [pc EXCEPT ![w] = "reply"]
    /\ job' = [job EXCEPT ![w] = NoJob]
    /\ UNCHANGED <<now, redis, control, redisVars, historyVars>>

\* A variant that hands out the handle of a failed mint, for StoreTypeOK.
ReplyIssuesAnyway(w) ==
    /\ pc[w] = "reply"
    /\ issued' = issued \cup {job[w].handle}
    /\ pc' = [pc EXCEPT ![w] = "idle"]
    /\ UNCHANGED <<now, redis, control, redisVars, job, bound, lastSet, overlapped>>

Reply(w) ==
    /\ pc[w] = "reply"
    /\ pc' = [pc EXCEPT ![w] = "idle"]
    /\ UNCHANGED <<now, redis, control, redisVars, job, historyVars>>

-----------------------------------------------------------------------------
ProcessStep ==
    \/ RedisReady \/ RedisDies
    \/ ControlConnects \/ ControlDies
    \/ Tick

Begin(w) ==
    \/ \E h \in Hosts, headers \in Submitted : HostSetDelete(w, h, headers)
    \/ \E h \in Hosts : HostDel(w, h)
    \/ \E p \in Patterns, headers \in Submitted : HostPatSet(w, p, headers)
    \/ \E p \in Patterns : HostPatDel(w, p)
    \/ \E k \in Handles, h \in Hosts, reach \in SUBSET Targets \ {{}},
          headers \in Submitted, asked \in AskedTTLs :
          HandleMintSet(w, k, [host |-> h, reach |-> reach, headers |-> headers], asked)
    \/ \E k \in Handles : HandleRevoke(w, k)

Continue(w) ==
    \/ HostSetWrite(w)
    \/ HandleMintExpire(w)
    \/ \E callerWaits \in BOOLEAN : HandleMintReply(w, callerWaits)
    \/ Reply(w)

\* A step inside one life of the gateway container.
StoreStep ==
    \/ ProcessStep
    \/ \E w \in Workers : Begin(w) \/ Continue(w) \/ OpFails(w)

StoreNext == StoreStep \/ GatewayRestarts

StoreSpec == StoreInit /\ [][StoreNext]_storeVars

\* A thread that has a request runs until it has answered it.
Answering(w) == Continue(w) \/ (pc[w] # "idle" /\ OpFails(w))

StoreFairness == \A w \in Workers : WF_storeVars(Answering(w))

StoreLiveSpec == StoreSpec /\ StoreFairness

-----------------------------------------------------------------------------
(* Properties.                                                             *)

\* A host's record is exactly what the last host_set or host_del on it left,
\* whatever other threads do meanwhile, unless two host_set on that host
\* overlapped: headers dropped from a record never linger (op_host_set).
SetReplacesRecord == \A h \in Hosts \ overlapped : hostRec[h] = lastSet[h]

\* The comment of op_host_set without the reservation: once no host_set on the
\* host is half done, the record is the headers of the last one applied
\* ("replace wholesale so removed headers don't linger").
ReplacedWholesale == \A h \in Hosts : HalfSet(h) = {} => hostRec[h] = lastSet[h]

\* A handle the operator was shown expires, within 30 days of now: although
\* op_handle_mint sets the key first and its expiry second, no failure between
\* the two leaves a usable token that lasts for ever.
IssuedHandleExpires ==
    \A k \in issued :
        handleRec[k] # NoSpec =>
            /\ deadline[k] # NoTTL
            /\ now < deadline[k]
            /\ deadline[k] <= now + MaxTTL

\* Every control operation that was accepted is answered, with an error if
\* redis died under it, or ends with the control server (Handler.handle).
OperationsAnswered == \A w \in Workers : pc[w] # "idle" ~> pc[w] = "idle"

-----------------------------------------------------------------------------
(* What the properties rest on, as inductive invariants.                   *)

Minting(w) == pc[w] \in {"expire", "issue"}

\* A thread that mints works on a fresh handle of its own, nobody has been
\* shown it, and it has its expiry before the reply is due.
MintingInv ==
    /\ \A w \in Workers : Minting(w) =>
          /\ job[w].handle \in Handles
          /\ bound[job[w].handle] # NoSpec
          /\ job[w].handle \notin issued
          /\ job[w].ttl \in 1 .. MaxTTL
    /\ \A v, w \in Workers :
          Minting(v) /\ Minting(w) /\ job[v].handle = job[w].handle => v = w

HandleInv ==
    /\ \A k \in Handles : handleRec[k] # NoSpec \/ k \in issued => bound[k] # NoSpec
    /\ \A k \in Handles : deadline[k] # NoTTL =>
          now < deadline[k] /\ deadline[k] <= now + MaxTTL
    /\ \A k \in Handles : handleRec[k] # NoSpec /\ deadline[k] = NoTTL =>
          /\ k \notin issued
          /\ \A w \in Workers : pc[w] = "issue" => job[w].handle # k

\* At most one host_set is half done on a host that is not overlapped, and
\* until its HSET the record is empty.
SetInv ==
    \A h \in Hosts \ overlapped :
        /\ hostRec[h] = lastSet[h]
        /\ \A w \in HalfSet(h) : hostRec[h] = Empty
        /\ \A v, w \in HalfSet(h) : v = w
=============================================================================
