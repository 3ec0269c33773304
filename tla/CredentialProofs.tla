-------------------------- MODULE CredentialProofs --------------------------
(***************************************************************************)
(* Safety of the credential store, and what the broker addon injects, and  *)
(* where, while the store is written: for any number of threads, hosts,    *)
(* patterns, handles and header names.                                     *)
(***************************************************************************)
EXTENDS CredentialBroker, InductionFacts, FiniteSetTheorems

(* The store.                                                              *)

LEMMA EmptyType == Empty \in HeaderMap
  BY DEF Empty, HeaderMap

LEMMA NoJobType == NoJob \in Jobs /\ NoJob.handle = NoHandle
  BY StoreAssumption, EmptyType DEF NoJob, Jobs

\* What HSET leaves is a header mapping again.
LEMMA OverlayType ==
  ASSUME NEW under \in HeaderMap, NEW over \in HeaderMap
  PROVE  Overlay(under, over) \in HeaderMap
  BY DEF Overlay, HeaderMap

\* Into an empty record it writes exactly what it was given.
LEMMA OverlayEmpty ==
  ASSUME NEW over \in HeaderMap
  PROVE  Overlay(Empty, over) = over
<1>1. over = [n \in Names |-> over[n]]
  BY DEF HeaderMap
<1>2. \A n \in Names : Overlay(Empty, over)[n] = over[n]
  BY DEF Overlay, Empty
<1>3. Overlay(Empty, over) = [n \in Names |-> Overlay(Empty, over)[n]]
  BY DEF Overlay
<1> QED BY <1>1, <1>2, <1>3

\* A lifetime that passes the check is between one second and MaxTTL.
LEMMA GrantedRange ==
  ASSUME NEW asked \in AskedTTLs, GrantedTTL(asked) <= MaxTTL
  PROVE  GrantedTTL(asked) \in 1 .. MaxTTL
  BY StoreAssumption DEF GrantedTTL

\* What Next is made of, one operation at a time.
LEMMA StoreCases ==
  ASSUME [StoreNext]_storeVars
  PROVE  \/ RedisReady \/ RedisDies \/ ControlConnects \/ ControlDies \/ Tick
         \/ GatewayRestarts
         \/ \E w \in Workers, h \in Hosts, headers \in Submitted : HostSetDelete(w, h, headers)
         \/ \E w \in Workers : HostSetWrite(w)
         \/ \E w \in Workers, h \in Hosts : HostDel(w, h)
         \/ \E w \in Workers, p \in Patterns, headers \in Submitted : HostPatSet(w, p, headers)
         \/ \E w \in Workers, p \in Patterns : HostPatDel(w, p)
         \/ \E w \in Workers, k \in Handles, spec \in Specs, asked \in AskedTTLs :
               HandleMintSet(w, k, spec, asked)
         \/ \E w \in Workers : HandleMintExpire(w)
         \/ \E w \in Workers, callerWaits \in BOOLEAN : HandleMintReply(w, callerWaits)
         \/ \E w \in Workers, k \in Handles : HandleRevoke(w, k)
         \/ \E w \in Workers : OpFails(w)
         \/ \E w \in Workers : Reply(w)
         \/ UNCHANGED storeVars
<1>1. ASSUME NEW w \in Workers, NEW k \in Handles, NEW h \in Hosts,
             NEW reach \in SUBSET Targets \ {{}}, NEW headers \in Submitted,
             NEW asked \in AskedTTLs,
             HandleMintSet(w, k, [host |-> h, reach |-> reach, headers |-> headers], asked)
      PROVE  \E spec \in Specs : HandleMintSet(w, k, spec, asked)
  <2>1. [host |-> h, reach |-> reach, headers |-> headers] \in Specs
    BY StoreAssumption DEF Specs
  <2> QED BY <1>1, <2>1
<1>2. ASSUME NEW w \in Workers, Begin(w)
      PROVE  \/ \E h \in Hosts, headers \in Submitted : HostSetDelete(w, h, headers)
             \/ \E h \in Hosts : HostDel(w, h)
             \/ \E p \in Patterns, headers \in Submitted : HostPatSet(w, p, headers)
             \/ \E p \in Patterns : HostPatDel(w, p)
             \/ \E k \in Handles, spec \in Specs, asked \in AskedTTLs :
                   HandleMintSet(w, k, spec, asked)
             \/ \E k \in Handles : HandleRevoke(w, k)
  BY <1>1, <1>2, Zenon DEF Begin
<1>3. CASE ProcessStep BY <1>3 DEF ProcessStep
<1>4. ASSUME NEW w \in Workers, Begin(w) \/ Continue(w) \/ OpFails(w)
      PROVE  \/ \E h \in Hosts, headers \in Submitted : HostSetDelete(w, h, headers)
             \/ \E h \in Hosts : HostDel(w, h)
             \/ \E p \in Patterns, headers \in Submitted : HostPatSet(w, p, headers)
             \/ \E p \in Patterns : HostPatDel(w, p)
             \/ \E k \in Handles, spec \in Specs, asked \in AskedTTLs :
                   HandleMintSet(w, k, spec, asked)
             \/ \E k \in Handles : HandleRevoke(w, k)
             \/ HostSetWrite(w) \/ HandleMintExpire(w)
             \/ \E callerWaits \in BOOLEAN : HandleMintReply(w, callerWaits)
             \/ Reply(w) \/ OpFails(w)
  BY <1>2, <1>4, Zenon DEF Continue
<1>5. CASE \E w \in Workers : Begin(w) \/ Continue(w) \/ OpFails(w)
  BY <1>4, <1>5, Zenon
<1> QED BY <1>3, <1>5 DEF StoreNext, StoreStep

\* Every variable keeps its type over a step; a reply shows a handle.
LEMMA TypeStep ==
  ASSUME StoreTypeOK, MintingInv, [StoreNext]_storeVars
  PROVE  StoreTypeOK'
<1> USE StoreAssumption, EmptyType, NoJobType DEF StoreTypeOK, redisVars, historyVars
<1>1. CASE RedisReady BY <1>1 DEF RedisReady
<1>2. CASE RedisDies BY <1>2 DEF RedisDies, Wiped
<1>3. CASE ControlConnects BY <1>3 DEF ControlConnects
<1>4. CASE ControlDies BY <1>4 DEF ControlDies
<1>5. CASE Tick BY <1>5 DEF Tick
<1>6. CASE GatewayRestarts BY <1>6 DEF GatewayRestarts, Wiped
<1>7. ASSUME NEW w \in Workers, NEW h \in Hosts, NEW headers \in Submitted,
             HostSetDelete(w, h, headers)
      PROVE  StoreTypeOK'
  <2>1. [NoJob EXCEPT !.host = h, !.headers = headers] \in Jobs
    BY DEF Jobs
  <2> QED BY <1>7, <2>1 DEF HostSetDelete
<1>8. ASSUME NEW w \in Workers, HostSetWrite(w) PROVE StoreTypeOK'
  <2>1. job[w].host \in Hosts /\ job[w].headers \in HeaderMap BY DEF Jobs
  <2>2. Overlay(hostRec[job[w].host], job[w].headers) \in HeaderMap
    BY <2>1, OverlayType
  <2> QED BY <1>8, <2>1, <2>2 DEF HostSetWrite
<1>9. ASSUME NEW w \in Workers, NEW h \in Hosts, HostDel(w, h) PROVE StoreTypeOK'
  BY <1>9 DEF HostDel
<1>10. ASSUME NEW w \in Workers, NEW p \in Patterns, NEW headers \in Submitted,
              HostPatSet(w, p, headers)
       PROVE  StoreTypeOK'
  BY <1>10 DEF HostPatSet
<1>11. ASSUME NEW w \in Workers, NEW p \in Patterns, HostPatDel(w, p) PROVE StoreTypeOK'
  BY <1>11 DEF HostPatDel
<1>12. ASSUME NEW w \in Workers, NEW k \in Handles, NEW spec \in Specs,
              NEW asked \in AskedTTLs, HandleMintSet(w, k, spec, asked)
       PROVE  StoreTypeOK'
  <2>1. GrantedTTL(asked) \in Nat BY <1>12, GrantedRange DEF HandleMintSet
  <2>2. [NoJob EXCEPT !.handle = k, !.ttl = GrantedTTL(asked)] \in Jobs
    BY <2>1 DEF Jobs
  <2> QED BY <1>12, <2>2 DEF HandleMintSet
<1>13. ASSUME NEW w \in Workers, HandleMintExpire(w) PROVE StoreTypeOK'
  <2>1. now + job[w].ttl \in Nat BY DEF Jobs
  <2>2. deadline' \in [Handles -> Nat \cup {NoTTL}] BY <1>13, <2>1 DEF HandleMintExpire
  <2> QED BY <1>13, <2>2 DEF HandleMintExpire
<1>14. ASSUME NEW w \in Workers, NEW callerWaits \in BOOLEAN,
              HandleMintReply(w, callerWaits)
       PROVE  StoreTypeOK'
  BY <1>14 DEF HandleMintReply, MintingInv, Minting
<1>15. ASSUME NEW w \in Workers, NEW k \in Handles, HandleRevoke(w, k) PROVE StoreTypeOK'
  BY <1>15 DEF HandleRevoke
<1>16. ASSUME NEW w \in Workers, OpFails(w) PROVE StoreTypeOK'
  BY <1>16 DEF OpFails
<1>17. ASSUME NEW w \in Workers, Reply(w) PROVE StoreTypeOK'
  BY <1>17 DEF Reply
<1>18. CASE UNCHANGED storeVars BY <1>18 DEF storeVars
<1> QED
  BY StoreCases, <1>1, <1>2, <1>3, <1>4, <1>5, <1>6, <1>7, <1>8, <1>9, <1>10, <1>11,
     <1>12, <1>13, <1>14, <1>15, <1>16, <1>17, <1>18, Zenon

-----------------------------------------------------------------------------
\* A fresh token is in nobody's hands: not shown, not another thread's.
LEMMA MintingStep ==
  ASSUME StoreTypeOK, MintingInv, HandleInv, [StoreNext]_storeVars
  PROVE  MintingInv'
<1> USE StoreAssumption, NoJobType DEF StoreTypeOK, MintingInv, Minting, redisVars, historyVars
<1>1. CASE RedisReady BY <1>1 DEF RedisReady
<1>2. CASE RedisDies BY <1>2 DEF RedisDies
<1>3. CASE ControlConnects BY <1>3 DEF ControlConnects
<1>4. CASE ControlDies BY <1>4 DEF ControlDies
<1>5. CASE Tick BY <1>5 DEF Tick
<1>6. CASE GatewayRestarts BY <1>6 DEF GatewayRestarts
<1>7. ASSUME NEW w \in Workers, NEW h \in Hosts, NEW headers \in Submitted,
             HostSetDelete(w, h, headers)
      PROVE  MintingInv'
  BY <1>7 DEF HostSetDelete
<1>8. ASSUME NEW w \in Workers, HostSetWrite(w) PROVE MintingInv'
  BY <1>8 DEF HostSetWrite
<1>9. ASSUME NEW w \in Workers, NEW h \in Hosts, HostDel(w, h) PROVE MintingInv'
  BY <1>9 DEF HostDel
<1>10. ASSUME NEW w \in Workers, NEW p \in Patterns, NEW headers \in Submitted,
              HostPatSet(w, p, headers)
       PROVE  MintingInv'
  BY <1>10 DEF HostPatSet
<1>11. ASSUME NEW w \in Workers, NEW p \in Patterns, HostPatDel(w, p) PROVE MintingInv'
  BY <1>11 DEF HostPatDel
<1>12. ASSUME NEW w \in Workers, NEW k \in Handles, NEW spec \in Specs,
              NEW asked \in AskedTTLs, HandleMintSet(w, k, spec, asked)
       PROVE  MintingInv'
  <2>1. GrantedTTL(asked) \in 1 .. MaxTTL BY <1>12, GrantedRange DEF HandleMintSet
  <2>2. job'[w].handle = k /\ job'[w].ttl = GrantedTTL(asked)
    BY <1>12 DEF HandleMintSet, NoJob
  <2>3. k \notin issued BY <1>12 DEF HandleMintSet, HandleInv
  <2>4. bound' = [bound EXCEPT ![k] = spec] /\ spec # NoSpec /\ issued' = issued
    BY <1>12 DEF HandleMintSet
  <2>5. \A v \in Workers \ {w} : job'[v] = job[v] /\ pc'[v] = pc[v]
    BY <1>12 DEF HandleMintSet
  <2>6. \A v \in Workers \ {w} : Minting(v) => job[v].handle # k
    BY <1>12 DEF HandleMintSet
  <2> QED BY <2>1, <2>2, <2>3, <2>4, <2>5, <2>6
<1>13. ASSUME NEW w \in Workers, HandleMintExpire(w) PROVE MintingInv'
  BY <1>13 DEF HandleMintExpire
<1>14. ASSUME NEW w \in Workers, NEW callerWaits \in BOOLEAN,
              HandleMintReply(w, callerWaits)
       PROVE  MintingInv'
  BY <1>14 DEF HandleMintReply
<1>15. ASSUME NEW w \in Workers, NEW k \in Handles, HandleRevoke(w, k) PROVE MintingInv'
  BY <1>15 DEF HandleRevoke
<1>16. ASSUME NEW w \in Workers, OpFails(w) PROVE MintingInv'
  BY <1>16 DEF OpFails
<1>17. ASSUME NEW w \in Workers, Reply(w) PROVE MintingInv'
  BY <1>17 DEF Reply
<1>18. CASE UNCHANGED storeVars BY <1>18 DEF storeVars
<1> QED
  BY StoreCases, <1>1, <1>2, <1>3, <1>4, <1>5, <1>6, <1>7, <1>8, <1>9, <1>10, <1>11,
     <1>12, <1>13, <1>14, <1>15, <1>16, <1>17, <1>18, Zenon

\* A key without expiry is one whose thread has not got to EXPIRE: the reply
\* that shows the handle comes after.
LEMMA HandleStep ==
  ASSUME StoreTypeOK, MintingInv, HandleInv, [StoreNext]_storeVars
  PROVE  HandleInv'
<1> USE StoreAssumption, NoJobType
    DEF StoreTypeOK, MintingInv, Minting, HandleInv, redisVars, historyVars
<1>1. CASE RedisReady BY <1>1 DEF RedisReady
<1>2. CASE RedisDies BY <1>2 DEF RedisDies, Wiped
<1>3. CASE ControlConnects BY <1>3 DEF ControlConnects
<1>4. CASE ControlDies BY <1>4 DEF ControlDies
<1>5. CASE Tick
  <2>1. now \in Nat /\ now' = now + 1 BY <1>5 DEF Tick
  <2>2. \A k \in Handles : deadline[k] # NoTTL => deadline[k] \in Nat OBVIOUS
  <2>3. \A k \in Handles : deadline'[k] # NoTTL =>
           deadline'[k] = deadline[k] /\ now + 1 < deadline[k]
    BY <1>5, <2>1, <2>2 DEF Tick, Expired
  <2>4. \A k \in Handles : handleRec'[k] # NoSpec =>
           handleRec'[k] = handleRec[k] /\ deadline'[k] = deadline[k]
    BY <1>5 DEF Tick
  <2> QED BY <1>5, <2>1, <2>2, <2>3, <2>4 DEF Tick
<1>6. CASE GatewayRestarts BY <1>6 DEF GatewayRestarts, Wiped
<1>7. ASSUME NEW w \in Workers, NEW h \in Hosts, NEW headers \in Submitted,
             HostSetDelete(w, h, headers)
      PROVE  HandleInv'
  BY <1>7 DEF HostSetDelete
<1>8. ASSUME NEW w \in Workers, HostSetWrite(w) PROVE HandleInv'
  BY <1>8 DEF HostSetWrite
<1>9. ASSUME NEW w \in Workers, NEW h \in Hosts, HostDel(w, h) PROVE HandleInv'
  BY <1>9 DEF HostDel
<1>10. ASSUME NEW w \in Workers, NEW p \in Patterns, NEW headers \in Submitted,
              HostPatSet(w, p, headers)
       PROVE  HandleInv'
  BY <1>10 DEF HostPatSet
<1>11. ASSUME NEW w \in Workers, NEW p \in Patterns, HostPatDel(w, p) PROVE HandleInv'
  BY <1>11 DEF HostPatDel
<1>12. ASSUME NEW w \in Workers, NEW k \in Handles, NEW spec \in Specs,
              NEW asked \in AskedTTLs, HandleMintSet(w, k, spec, asked)
       PROVE  HandleInv'
  <2>1. k \notin issued /\ (\A v \in Workers : pc[v] = "issue" => job[v].handle # k)
    BY <1>12 DEF HandleMintSet
  <2>2. \A v \in Workers : pc'[v] = "issue" => pc[v] = "issue" /\ job'[v] = job[v]
    BY <1>12 DEF HandleMintSet
  <2>3. spec # NoSpec OBVIOUS
  <2> QED BY <1>12, <2>1, <2>2, <2>3 DEF HandleMintSet
<1>13. ASSUME NEW w \in Workers, HandleMintExpire(w) PROVE HandleInv'
  <2> DEFINE k == job[w].handle
  <2>1. k \in Handles /\ job[w].ttl \in 1 .. MaxTTL /\ now \in Nat
    BY <1>13 DEF HandleMintExpire
  <2>2. now + job[w].ttl # NoTTL /\ now < now + job[w].ttl
        /\ now + job[w].ttl <= now + MaxTTL
    BY <2>1
  <2>3. handleRec[k] # NoSpec => deadline' = [deadline EXCEPT ![k] = now + job[w].ttl]
    BY <1>13 DEF HandleMintExpire
  <2>4. handleRec[k] = NoSpec => deadline' = deadline
    BY <1>13 DEF HandleMintExpire
  <2>5. /\ \A v \in Workers : pc'[v] = "issue" => v = w \/ pc[v] = "issue"
        /\ UNCHANGED <<now, handleRec, issued, bound, job>>
    BY <1>13 DEF HandleMintExpire
  <2>6. \A o \in Handles : deadline'[o] # NoTTL =>
           now < deadline'[o] /\ deadline'[o] <= now + MaxTTL
    BY <2>1, <2>2, <2>3, <2>4
  <2>7. \A o \in Handles : handleRec[o] # NoSpec /\ deadline'[o] = NoTTL =>
           o # k /\ deadline[o] = NoTTL
    BY <2>1, <2>2, <2>3, <2>4
  <2> QED BY <2>5, <2>6, <2>7
<1>14. ASSUME NEW w \in Workers, NEW callerWaits \in BOOLEAN,
              HandleMintReply(w, callerWaits)
       PROVE  HandleInv'
  BY <1>14 DEF HandleMintReply
<1>15. ASSUME NEW w \in Workers, NEW k \in Handles, HandleRevoke(w, k) PROVE HandleInv'
  BY <1>15 DEF HandleRevoke
<1>16. ASSUME NEW w \in Workers, OpFails(w) PROVE HandleInv'
  BY <1>16 DEF OpFails
<1>17. ASSUME NEW w \in Workers, Reply(w) PROVE HandleInv'
  BY <1>17 DEF Reply
<1>18. CASE UNCHANGED storeVars BY <1>18 DEF storeVars
<1> QED
  BY StoreCases, <1>1, <1>2, <1>3, <1>4, <1>5, <1>6, <1>7, <1>8, <1>9, <1>10, <1>11,
     <1>12, <1>13, <1>14, <1>15, <1>16, <1>17, <1>18, Zenon

-----------------------------------------------------------------------------
\* Only host_set and host_del touch a host's record; a second host_set on the
\* host marks it overlapped before it can mix its headers with the first's.
LEMMA SetStep ==
  ASSUME StoreTypeOK, SetInv, [StoreNext]_storeVars
  PROVE  SetInv'
<1> USE StoreAssumption, NoJobType DEF StoreTypeOK, SetInv, HalfSet, redisVars, historyVars
<1>1. CASE RedisReady BY <1>1 DEF RedisReady
<1>2. CASE RedisDies BY <1>2 DEF RedisDies, Wiped
<1>3. CASE ControlConnects BY <1>3 DEF ControlConnects
<1>4. CASE ControlDies BY <1>4 DEF ControlDies
<1>5. CASE Tick BY <1>5 DEF Tick
<1>6. CASE GatewayRestarts
  <2>1. \A h \in Hosts : hostRec'[h] = lastSet'[h] /\ HalfSet(h)' = {}
    BY <1>6 DEF GatewayRestarts, Wiped
  <2> QED BY <2>1
<1>7. ASSUME NEW w \in Workers, NEW h \in Hosts, NEW headers \in Submitted,
             HostSetDelete(w, h, headers)
      PROVE  SetInv'
  <2>1. /\ hostRec' = [hostRec EXCEPT ![h] = Empty]
        /\ lastSet' = [lastSet EXCEPT ![h] = Empty]
        /\ overlapped' = IF HalfSet(h) # {} THEN overlapped \cup {h} ELSE overlapped \ {h}
        /\ pc[w] = "idle"
    BY <1>7 DEF HostSetDelete, Accepts
  <2>2. \A v \in Workers : v # w => pc'[v] = pc[v] /\ job'[v] = job[v]
    BY <1>7 DEF HostSetDelete
  <2>3. job'[w].host = h /\ pc'[w] = "hset"
    BY <1>7 DEF HostSetDelete, NoJob
  <2>4. ASSUME NEW g \in Hosts, g \notin overlapped'
        PROVE  /\ hostRec'[g] = lastSet'[g]
               /\ \A u \in HalfSet(g)' : hostRec'[g] = Empty
               /\ \A v, u \in HalfSet(g)' : v = u
    <3>1. CASE g = h
      <4>1. HalfSet(h) = {} BY <2>1, <2>4, <3>1
      <4>2. \A v \in HalfSet(h)' : v = w BY <2>2, <4>1
      <4>3. hostRec'[h] = Empty /\ lastSet'[h] = Empty BY <2>1
      <4> QED BY <3>1, <4>2, <4>3
    <3>2. CASE g # h
      <4>1. HalfSet(g)' = HalfSet(g) BY <2>1, <2>2, <2>3, <3>2
      <4> QED BY <2>1, <2>4, <3>2, <4>1
    <3> QED BY <3>1, <3>2
  <2> QED BY <2>4
<1>8. ASSUME NEW w \in Workers, HostSetWrite(w) PROVE SetInv'
  <2>0. PICK h \in Hosts : h = job[w].host
    BY DEF Jobs
  <2>1. /\ job[w].headers \in HeaderMap
        /\ w \in HalfSet(h)
        /\ hostRec' = [hostRec EXCEPT ![h] = Overlay(hostRec[h], job[w].headers)]
        /\ lastSet' = [lastSet EXCEPT ![h] = job[w].headers]
        /\ overlapped' = overlapped
    BY <1>8, <2>0 DEF HostSetWrite, Jobs
  <2>2. \A v \in Workers : v # w => pc'[v] = pc[v] /\ job'[v] = job[v]
    BY <1>8 DEF HostSetWrite
  <2>3. pc'[w] = "reply" BY <1>8 DEF HostSetWrite
  <2>4. ASSUME NEW g \in Hosts, g \notin overlapped'
        PROVE  /\ hostRec'[g] = lastSet'[g]
               /\ \A u \in HalfSet(g)' : hostRec'[g] = Empty
               /\ \A v, u \in HalfSet(g)' : v = u
    <3>1. CASE g = h
      <4>1. hostRec[h] = Empty /\ \A v \in HalfSet(h) : v = w
        BY <2>1, <2>4, <3>1
      <4>2. HalfSet(h)' = {} BY <2>2, <2>3, <4>1
      <4>3. hostRec'[h] = job[w].headers BY <2>1, <4>1, OverlayEmpty
      <4> QED BY <2>1, <3>1, <4>2, <4>3
    <3>2. CASE g # h
      <4>1. HalfSet(g)' = HalfSet(g) BY <2>1, <2>2, <2>3, <3>2
      <4> QED BY <2>1, <2>4, <3>2, <4>1
    <3> QED BY <3>1, <3>2
  <2> QED BY <2>4
<1>9. ASSUME NEW w \in Workers, NEW h \in Hosts, HostDel(w, h) PROVE SetInv'
  BY <1>9 DEF HostDel, Accepts
<1>10. ASSUME NEW w \in Workers, NEW p \in Patterns, NEW headers \in Submitted,
              HostPatSet(w, p, headers)
       PROVE  SetInv'
  BY <1>10 DEF HostPatSet, Accepts
<1>11. ASSUME NEW w \in Workers, NEW p \in Patterns, HostPatDel(w, p) PROVE SetInv'
  BY <1>11 DEF HostPatDel, Accepts
<1>12. ASSUME NEW w \in Workers, NEW k \in Handles, NEW spec \in Specs,
              NEW asked \in AskedTTLs, HandleMintSet(w, k, spec, asked)
       PROVE  SetInv'
  BY <1>12 DEF HandleMintSet, Accepts
<1>13. ASSUME NEW w \in Workers, HandleMintExpire(w) PROVE SetInv'
  BY <1>13 DEF HandleMintExpire
<1>14. ASSUME NEW w \in Workers, NEW callerWaits \in BOOLEAN,
              HandleMintReply(w, callerWaits)
       PROVE  SetInv'
  BY <1>14 DEF HandleMintReply
<1>15. ASSUME NEW w \in Workers, NEW k \in Handles, HandleRevoke(w, k) PROVE SetInv'
  BY <1>15 DEF HandleRevoke, Accepts
<1>16. ASSUME NEW w \in Workers, OpFails(w) PROVE SetInv'
  BY <1>16 DEF OpFails, Accepts
<1>17. ASSUME NEW w \in Workers, Reply(w) PROVE SetInv'
  BY <1>17 DEF Reply
<1>18. CASE UNCHANGED storeVars BY <1>18 DEF storeVars
<1> HIDE DEF SetInv
<1> QED
  BY StoreCases, <1>1, <1>2, <1>3, <1>4, <1>5, <1>6, <1>7, <1>8, <1>9, <1>10, <1>11,
     <1>12, <1>13, <1>14, <1>15, <1>16, <1>17, <1>18, Zenon

-----------------------------------------------------------------------------
LEMMA StoreInitially == StoreInit => StoreTypeOK /\ MintingInv /\ HandleInv /\ SetInv
<1> SUFFICES ASSUME StoreInit PROVE StoreTypeOK /\ MintingInv /\ HandleInv /\ SetInv
  OBVIOUS
<1>1. StoreTypeOK
  BY StoreAssumption, EmptyType, NoJobType DEF StoreInit, StoreTypeOK
<1>2. MintingInv /\ HandleInv
  BY DEF StoreInit, MintingInv, Minting, HandleInv
<1>3. SetInv
  BY DEF StoreInit, SetInv, HalfSet
<1> QED BY <1>1, <1>2, <1>3

\* The four invariants hold together in every reachable state of the store.
THEOREM StoreInvariant ==
  StoreSpec => [](StoreTypeOK /\ MintingInv /\ HandleInv /\ SetInv)
<1>1. StoreTypeOK /\ MintingInv /\ HandleInv /\ SetInv /\ [StoreNext]_storeVars
      => (StoreTypeOK /\ MintingInv /\ HandleInv /\ SetInv)'
  BY TypeStep, MintingStep, HandleStep, SetStep
<1> QED BY StoreInitially, <1>1, PTL DEF StoreSpec

\* Every variable of the store keeps its type.
THEOREM StoreTypeCorrect == StoreSpec => []StoreTypeOK
  BY StoreInvariant, PTL

\* For any number of threads: host_set replaces the record of its host, unless
\* another host_set on that host was half done when it began.
THEOREM SetReplaces == StoreSpec => []SetReplacesRecord
<1>1. SetInv => SetReplacesRecord
  BY DEF SetInv, SetReplacesRecord
<1> QED BY StoreInvariant, <1>1, PTL

\* For any number of threads and handles: a handle that was shown expires.
THEOREM ShownHandlesExpire == StoreSpec => []IssuedHandleExpires
<1>1. StoreTypeOK /\ HandleInv => IssuedHandleExpires
  BY DEF StoreTypeOK, HandleInv, IssuedHandleExpires
<1> QED BY StoreInvariant, <1>1, PTL

-----------------------------------------------------------------------------
(* The store under the addon.                                              *)

\* For the store, a step of the addon is a stuttering step.
LEMMA StoreOfBroker ==
  ASSUME [BrokerNext]_brokerVars
  PROVE  [StoreNext]_storeVars
<1>1. CASE Running BY <1>1 DEF Running
<1>2. ASSUME NEW q, NEW allowed, Arrives(q, allowed) PROVE UNCHANGED storeVars
  BY <1>2 DEF Arrives, RequestHeaders
<1>3. CASE AddonReads
  BY <1>3 DEF AddonReads, ResolveHandle, ReadPatterns, ReadExact
<1>4. CASE StoreStep BY <1>4 DEF StoreNext
<1>5. CASE Restart BY <1>5 DEF Restart, StoreNext
<1>6. CASE UNCHANGED brokerVars BY <1>6 DEF brokerVars, storeVars
<1> QED BY <1>1, <1>2, <1>3, <1>4, <1>5, <1>6, Zenon DEF BrokerNext

StoreInvs == StoreTypeOK /\ MintingInv /\ HandleInv

LEMMA StoreInvsStep ==
  ASSUME StoreInvs, [StoreNext]_storeVars
  PROVE  StoreInvs'
  BY TypeStep, MintingStep, HandleStep DEF StoreInvs

\* What redis has of a handle is what it was minted for, and a redis that is not
\* up has no records.
StoredInv ==
    /\ \A k \in Handles : handleRec[k] # NoSpec => handleRec[k] = bound[k]
    /\ redis # "up" => hostRec = [h \in Hosts |-> Empty]

LEMMA StoredStep ==
  ASSUME StoreTypeOK, StoredInv, [StoreNext]_storeVars
  PROVE  StoredInv'
<1> USE DEF StoreTypeOK, StoredInv, redisVars, historyVars
<1>1. CASE RedisReady BY <1>1 DEF RedisReady
<1>2. CASE RedisDies BY <1>2 DEF RedisDies, Wiped
<1>3. CASE ControlConnects BY <1>3 DEF ControlConnects
<1>4. CASE ControlDies BY <1>4 DEF ControlDies
<1>5. CASE Tick BY <1>5 DEF Tick
<1>6. CASE GatewayRestarts BY <1>6 DEF GatewayRestarts, Wiped
<1>7. ASSUME NEW w \in Workers, NEW h \in Hosts, NEW headers \in Submitted,
             HostSetDelete(w, h, headers)
      PROVE  StoredInv'
  BY <1>7 DEF HostSetDelete
<1>8. ASSUME NEW w \in Workers, HostSetWrite(w) PROVE StoredInv'
  BY <1>8 DEF HostSetWrite
<1>9. ASSUME NEW w \in Workers, NEW h \in Hosts, HostDel(w, h) PROVE StoredInv'
  BY <1>9 DEF HostDel
<1>10. ASSUME NEW w \in Workers, NEW p \in Patterns, NEW headers \in Submitted,
              HostPatSet(w, p, headers)
       PROVE  StoredInv'
  BY <1>10 DEF HostPatSet
<1>11. ASSUME NEW w \in Workers, NEW p \in Patterns, HostPatDel(w, p) PROVE StoredInv'
  BY <1>11 DEF HostPatDel
<1>12. ASSUME NEW w \in Workers, NEW k \in Handles, NEW spec \in Specs,
              NEW asked \in AskedTTLs, HandleMintSet(w, k, spec, asked)
       PROVE  StoredInv'
  BY <1>12 DEF HandleMintSet
<1>13. ASSUME NEW w \in Workers, HandleMintExpire(w) PROVE StoredInv'
  BY <1>13 DEF HandleMintExpire
<1>14. ASSUME NEW w \in Workers, NEW callerWaits \in BOOLEAN,
              HandleMintReply(w, callerWaits)
       PROVE  StoredInv'
  BY <1>14 DEF HandleMintReply
<1>15. ASSUME NEW w \in Workers, NEW k \in Handles, HandleRevoke(w, k) PROVE StoredInv'
  BY <1>15 DEF HandleRevoke
<1>16. ASSUME NEW w \in Workers, OpFails(w) PROVE StoredInv'
  BY <1>16 DEF OpFails
<1>17. ASSUME NEW w \in Workers, Reply(w) PROVE StoredInv'
  BY <1>17 DEF Reply
<1>18. CASE UNCHANGED storeVars BY <1>18 DEF storeVars
<1> HIDE DEF StoreTypeOK, StoredInv, redisVars, historyVars
<1> QED
  BY StoreCases, <1>1, <1>2, <1>3, <1>4, <1>5, <1>6, <1>7, <1>8, <1>9, <1>10, <1>11,
     <1>12, <1>13, <1>14, <1>15, <1>16, <1>17, <1>18, Zenon

\* What an issued handle is bound to never changes, and nobody forgets it.
LEMMA BoundStep ==
  ASSUME StoreInvs, [StoreNext]_storeVars
  PROVE  /\ issued \subseteq issued'
         /\ \A k \in issued : bound'[k] = bound[k]
<1> DEFINE Goal == issued \subseteq issued' /\ \A k \in issued : bound'[k] = bound[k]
<1> USE DEF StoreInvs, StoreTypeOK, HandleInv, redisVars, historyVars
<1>1. CASE RedisReady BY <1>1 DEF RedisReady
<1>2. CASE RedisDies BY <1>2 DEF RedisDies, Wiped
<1>3. CASE ControlConnects BY <1>3 DEF ControlConnects
<1>4. CASE ControlDies BY <1>4 DEF ControlDies
<1>5. CASE Tick BY <1>5 DEF Tick
<1>6. CASE GatewayRestarts BY <1>6 DEF GatewayRestarts, Wiped
<1>7. ASSUME NEW w \in Workers, NEW h \in Hosts, NEW headers \in Submitted,
             HostSetDelete(w, h, headers)
      PROVE  Goal
  BY <1>7 DEF HostSetDelete
<1>8. ASSUME NEW w \in Workers, HostSetWrite(w) PROVE Goal
  BY <1>8 DEF HostSetWrite
<1>9. ASSUME NEW w \in Workers, NEW h \in Hosts, HostDel(w, h) PROVE Goal
  BY <1>9 DEF HostDel
<1>10. ASSUME NEW w \in Workers, NEW p \in Patterns, NEW headers \in Submitted,
              HostPatSet(w, p, headers)
       PROVE  Goal
  BY <1>10 DEF HostPatSet
<1>11. ASSUME NEW w \in Workers, NEW p \in Patterns, HostPatDel(w, p) PROVE Goal
  BY <1>11 DEF HostPatDel
<1>12. ASSUME NEW w \in Workers, NEW k \in Handles, NEW spec \in Specs,
              NEW asked \in AskedTTLs, HandleMintSet(w, k, spec, asked)
       PROVE  Goal
  BY <1>12 DEF HandleMintSet
<1>13. ASSUME NEW w \in Workers, HandleMintExpire(w) PROVE Goal
  BY <1>13 DEF HandleMintExpire
<1>14. ASSUME NEW w \in Workers, NEW callerWaits \in BOOLEAN,
              HandleMintReply(w, callerWaits)
       PROVE  Goal
  BY <1>14 DEF HandleMintReply
<1>15. ASSUME NEW w \in Workers, NEW k \in Handles, HandleRevoke(w, k) PROVE Goal
  BY <1>15 DEF HandleRevoke
<1>16. ASSUME NEW w \in Workers, OpFails(w) PROVE Goal
  BY <1>16 DEF OpFails
<1>17. ASSUME NEW w \in Workers, Reply(w) PROVE Goal
  BY <1>17 DEF Reply
<1>18. CASE UNCHANGED storeVars BY <1>18 DEF storeVars
<1> HIDE DEF StoreInvs, StoreTypeOK, HandleInv, redisVars, historyVars
<1> QED
  BY StoreCases, <1>1, <1>2, <1>3, <1>4, <1>5, <1>6, <1>7, <1>8, <1>9, <1>10, <1>11,
     <1>12, <1>13, <1>14, <1>15, <1>16, <1>17, <1>18, Zenon

-----------------------------------------------------------------------------
(* What _host_headers merges.                                              *)

\* Of several patterns one comes last.
LEMMA LastPattern ==
  ASSUME NEW S \in SUBSET Patterns, S # {},
         NEW rank \in [Patterns -> 1 .. Cardinality(Patterns)]
  PROVE  \E p \in S : \A o \in S : rank[o] <= rank[p]
<1> DEFINE N == Cardinality(Patterns)
           T == {N - rank[p] : p \in S}
<1>1. N \in Nat BY BrokerAssumption, FS_CardinalityType
<1> HIDE DEF N
<1>2. \A p \in Patterns : rank[p] \in 1 .. N BY DEF N
<1>3. T \in SUBSET Nat /\ T # {} BY <1>1, <1>2
<1>4. PICK x \in T : \A y \in T : x <= y
  <2> HIDE DEF T
  <2> QED BY <1>3, Least
<1>5. PICK p \in S : x = N - rank[p] OBVIOUS
<1>6. ASSUME NEW o \in S PROVE rank[o] <= rank[p]
  <2>1. N - rank[p] <= N - rank[o] BY <1>4, <1>5
  <2> QED BY <1>1, <1>2, <2>1
<1> QED BY <1>6

\* Each merged header is one that a matching pattern has.
LEMMA MergeOfPatterns ==
  ASSUME StoreTypeOK, NEW h \in Hosts, NEW rank \in Rankings
  PROVE  /\ PatternMerge(h, rank) \in HeaderMap
         /\ \A n \in Names : PatternMerge(h, rank)[n] # NoValue =>
               \E p \in Patterns : <<h, p>> \in Matching
                                  /\ patRec[p][n] = PatternMerge(h, rank)[n]
<1> DEFINE Setting(n) == {p \in Patterns : <<h, p>> \in Matching /\ patRec[p][n] # NoValue}
           Last(n) == CHOOSE p \in Setting(n) : \A o \in Setting(n) : rank[o] <= rank[p]
           Merge == PatternMerge(h, rank)
<1>1. rank \in [Patterns -> 1 .. Cardinality(Patterns)] BY DEF Rankings
<1>2. Merge = [n \in Names |-> IF Setting(n) = {} THEN NoValue ELSE patRec[Last(n)][n]]
  BY DEF PatternMerge
<1>3. ASSUME NEW n \in Names, Setting(n) # {} PROVE Last(n) \in Setting(n)
  <2>1. \E p \in Setting(n) : \A o \in Setting(n) : rank[o] <= rank[p]
    BY <1>1, <1>3, LastPattern
  <2> QED BY <2>1
<1> HIDE DEF Last, Merge
<1>4. \A p \in Patterns, n \in Names : patRec[p][n] \in Values \cup {NoValue}
  BY DEF StoreTypeOK, HeaderMap
<1>5. \A n \in Names : Merge[n] \in Values \cup {NoValue}
  BY <1>2, <1>3, <1>4
<1>6. Merge \in HeaderMap BY <1>2, <1>5 DEF HeaderMap
<1>7. ASSUME NEW n \in Names, Merge[n] # NoValue
      PROVE  \E p \in Patterns : <<h, p>> \in Matching /\ patRec[p][n] = Merge[n]
  <2>1. Setting(n) # {} /\ Merge[n] = patRec[Last(n)][n] BY <1>2, <1>7
  <2>2. Last(n) \in Setting(n) BY <1>3, <2>1
  <2> QED BY <2>1, <2>2
<1> QED BY <1>6, <1>7 DEF Merge

-----------------------------------------------------------------------------
(* The addon.                                                              *)

\* What Next is made of.
LEMMA BrokerCases ==
  ASSUME [BrokerNext]_brokerVars
  PROVE  \/ Running /\ UNCHANGED <<seen, held>>
         \/ \E q \in Requests, allowed \in BOOLEAN :
               q.handle \in issued \cup {NoHandle, BadHandle} /\ Arrives(q, allowed)
         \/ ResolveHandle /\ UNCHANGED <<seen, held>>
         \/ ReadPatterns /\ UNCHANGED <<seen, held>>
         \/ ReadExact /\ UNCHANGED <<seen, held>>
         \/ [StoreNext]_storeVars /\ UNCHANGED addonVars /\ Watch
         \/ Restart
         \/ UNCHANGED brokerVars
  BY DEF BrokerNext, AddonReads, StoreNext

\* A verdict is there when the addon is done with the request; in between it is
\* on its way by the handle or by the host, over https, with redis.
FlowInv ==
    /\ stage # "ready" => outcome.verdict = "none"
    /\ Busy => connected /\ req.https
    /\ Busy => (stage = "handle" <=> req.handle # NoHandle)
    /\ req.handle \in issued \cup {NoHandle, BadHandle}

\* While a request is in the addon, seen has all that is on offer and all that
\* has been merged, and held agrees with the exact record.
OfferInv ==
    Busy =>
        /\ Offers(req) \subseteq seen
        /\ \A n \in Names : merged[n] # NoValue => <<n, merged[n]>> \in seen
        /\ \A n \in Names : held[n] # NoValue => held[n] = hostRec[req.host][n]

LEMMA NoRequestType == NoRequest \in Requests /\ NoRequest.handle = NoHandle
  BY StoreAssumption DEF NoRequest, Requests

LEMMA BlockedType ==
  ASSUME NEW verdict \in {"none", "DENY", "DENY_SCOPE"}, NEW q \in Requests
  PROVE  /\ Blocked(verdict, q) \in Outcomes
         /\ Blocked(verdict, q).verdict = verdict
         /\ Blocked(verdict, q).wire.headers = Empty
  BY EmptyType DEF Blocked, Requests, Outcomes, Wire

LEMMA ForwardedType ==
  ASSUME NEW verdict \in {"ALLOW", "INJECT"}, NEW via \in {"none", "host", "handle"},
         NEW headers \in HeaderMap
  PROVE  /\ Forwarded(verdict, via, headers) \in Outcomes
         /\ Forwarded(verdict, via, headers).verdict = verdict
         /\ Forwarded(verdict, via, headers).via = via
         /\ Forwarded(verdict, via, headers).wire.handle = NoHandle
         /\ Forwarded(verdict, via, headers).wire.headers = headers
  BY DEF Forwarded, Outcomes, Wire

\* ReadExact finds a mapping, and injects it unless it is empty.
LEMMA ExactOutcome ==
  ASSUME StoreTypeOK, BrokerTypeOK, ReadExact
  PROVE  \E headers \in HeaderMap :
            /\ headers = IF redis = "up" THEN Overlay(merged, hostRec[req.host]) ELSE merged
            /\ outcome' = IF headers = Empty THEN Forwarded("ALLOW", "none", Empty)
                          ELSE Forwarded("INJECT", "host", headers)
<1>1. req.host \in Hosts /\ merged \in HeaderMap /\ hostRec[req.host] \in HeaderMap
  BY DEF StoreTypeOK, BrokerTypeOK, Requests
<1>2. Overlay(merged, hostRec[req.host]) \in HeaderMap BY <1>1, OverlayType
<1> QED BY <1>1, <1>2 DEF ReadExact

\* ResolveHandle injects what is stored under the handle, in its scope, or
\* refuses.
LEMMA ResolveOutcome ==
  ASSUME StoreTypeOK, BrokerTypeOK, ResolveHandle
  PROVE  \/ outcome' = Blocked("DENY_SCOPE", req)
         \/ /\ req.handle \in Handles
            /\ handleRec[req.handle] \in Specs
            /\ InScope(handleRec[req.handle], req)
            /\ handleRec[req.handle].headers \in HeaderMap
            /\ outcome' = Forwarded("INJECT", "handle", handleRec[req.handle].headers)
<1>1. CASE req.handle \in Handles /\ handleRec[req.handle] # NoSpec
  <2>1. handleRec[req.handle] \in Specs BY <1>1 DEF StoreTypeOK
  <2>2. handleRec[req.handle].headers \in HeaderMap BY <2>1 DEF Specs
  <2> QED BY <2>1, <2>2, <1>1 DEF ResolveHandle
<1>2. CASE ~(req.handle \in Handles /\ handleRec[req.handle] # NoSpec)
  BY <1>2 DEF ResolveHandle
<1> QED BY <1>1, <1>2

\* Every variable of the addon keeps its type.
LEMMA BrokerTypeStep ==
  ASSUME StoreTypeOK, BrokerTypeOK, [BrokerNext]_brokerVars
  PROVE  BrokerTypeOK'
<1> USE EmptyType, NoRequestType, BlockedType, ForwardedType
<1> USE DEF BrokerTypeOK
<1>1. CASE Running /\ UNCHANGED <<seen, held>> BY <1>1 DEF Running
<1>2. ASSUME NEW q \in Requests, NEW allowed \in BOOLEAN, Arrives(q, allowed)
      PROVE  BrokerTypeOK'
  <2>1. outcome' \in Outcomes BY <1>2 DEF Arrives, RequestHeaders
  <2>2. seen' \subseteq Pairs BY <1>2 DEF Arrives, Offers
  <2>3. q.host \in Hosts BY DEF Requests
  <2>4. held' \in HeaderMap BY <1>2, <2>3 DEF Arrives, StoreTypeOK
  <2> QED BY <1>2, <2>1, <2>2, <2>4 DEF Arrives, RequestHeaders
<1>3. CASE ResolveHandle /\ UNCHANGED <<seen, held>>
  <2>1. outcome' \in Outcomes BY <1>3, ResolveOutcome
  <2> QED BY <1>3, <2>1 DEF ResolveHandle
<1>4. CASE ReadPatterns /\ UNCHANGED <<seen, held>>
  <2>1. req.host \in Hosts BY DEF Requests
  <2>2. merged' \in HeaderMap BY <1>4, <2>1, MergeOfPatterns DEF ReadPatterns
  <2> QED BY <1>4, <2>2 DEF ReadPatterns
<1>5. CASE ReadExact /\ UNCHANGED <<seen, held>>
  <2>1. outcome' \in Outcomes BY <1>5, ExactOutcome
  <2> QED BY <1>5, <2>1 DEF ReadExact
<1>6. CASE [StoreNext]_storeVars /\ UNCHANGED addonVars /\ Watch
  <2>1. CASE Busy
    <3>1. seen' \subseteq Pairs BY <1>6, <2>1 DEF Watch, Offers
    <3>2. held' \in HeaderMap BY <1>6, <2>1 DEF Watch, KeptBy, HeaderMap
    <3> QED BY <1>6, <3>1, <3>2 DEF addonVars
  <2>2. CASE ~Busy BY <1>6, <2>2 DEF Watch, addonVars
  <2> QED BY <2>1, <2>2
<1>7. CASE Restart BY <1>7 DEF Restart
<1>8. CASE UNCHANGED brokerVars BY <1>8 DEF brokerVars
<1> HIDE EmptyType, NoRequestType, BlockedType, ForwardedType DEF BrokerTypeOK
<1> QED BY BrokerCases, <1>1, <1>2, <1>3, <1>4, <1>5, <1>6, <1>7, <1>8, Zenon

LEMMA FlowStep ==
  ASSUME StoreInvs, BrokerTypeOK, FlowInv, [BrokerNext]_brokerVars
  PROVE  FlowInv'
<1> USE NoRequestType, BlockedType, ForwardedType, EmptyType
<1> USE DEF FlowInv, Busy
<1>1. CASE Running /\ UNCHANGED <<seen, held>> BY <1>1 DEF Running, storeVars
<1>2. ASSUME NEW q \in Requests, NEW allowed \in BOOLEAN,
             q.handle \in issued \cup {NoHandle, BadHandle}, Arrives(q, allowed)
      PROVE  FlowInv'
  <2>1. stage' # "ready" => outcome'.verdict = "none"
    BY <1>2 DEF Arrives, RequestHeaders
  <2> QED BY <1>2, <2>1 DEF Arrives, RequestHeaders, storeVars
<1>3. CASE ResolveHandle /\ UNCHANGED <<seen, held>>
  BY <1>3 DEF ResolveHandle, storeVars
<1>4. CASE ReadPatterns /\ UNCHANGED <<seen, held>>
  BY <1>4 DEF ReadPatterns, storeVars
<1>5. CASE ReadExact /\ UNCHANGED <<seen, held>>
  BY <1>5 DEF ReadExact, storeVars
<1>6. CASE [StoreNext]_storeVars /\ UNCHANGED addonVars /\ Watch
  BY <1>6, BoundStep DEF addonVars
<1>7. CASE Restart BY <1>7 DEF Restart
<1>8. CASE UNCHANGED brokerVars BY <1>8 DEF brokerVars
<1> HIDE EmptyType, NoRequestType, BlockedType, ForwardedType DEF FlowInv, Busy
<1> QED BY BrokerCases, <1>1, <1>2, <1>3, <1>4, <1>5, <1>6, <1>7, <1>8, Zenon

LEMMA OfferStep ==
  ASSUME StoreTypeOK, BrokerTypeOK, OfferInv, [BrokerNext]_brokerVars
  PROVE  OfferInv'
<1> USE DEF OfferInv, Busy
<1>1. CASE Running /\ UNCHANGED <<seen, held>> BY <1>1 DEF Running
<1>2. ASSUME NEW q \in Requests, NEW allowed \in BOOLEAN, Arrives(q, allowed)
      PROVE  OfferInv'
  <2> SUFFICES ASSUME Busy' PROVE OfferInv' OBVIOUS
  <2>1. req' = q /\ merged' = Empty /\ UNCHANGED storeVars
    BY <1>2 DEF Arrives, RequestHeaders
  <2>2. seen' = Offers(q) /\ held' = hostRec[q.host] BY <1>2 DEF Arrives
  <2>3. Offers(req)' = Offers(q) BY <2>1 DEF Offers, storeVars
  <2>4. \A n \in Names : merged'[n] = NoValue BY <2>1 DEF Empty
  <2>5. hostRec'[req'.host] = held' BY <2>1, <2>2 DEF storeVars
  <2> QED BY <2>2, <2>3, <2>4, <2>5
<1>3. CASE ResolveHandle /\ UNCHANGED <<seen, held>>
  BY <1>3 DEF ResolveHandle
<1>4. CASE ReadPatterns /\ UNCHANGED <<seen, held>>
  <2>1. stage = "patterns" /\ req' = req /\ UNCHANGED storeVars BY <1>4 DEF ReadPatterns
  <2>2. Offers(req)' = Offers(req) BY <2>1 DEF Offers, storeVars
  <2>3. ASSUME NEW n \in Names, merged'[n] # NoValue
        PROVE  <<n, merged'[n]>> \in Offers(req)
    <3>1. PICK rank \in Rankings :
             merged' = IF redis = "up" THEN PatternMerge(req.host, rank) ELSE Empty
      BY <1>4 DEF ReadPatterns
    <3>2. req.host \in Hosts BY DEF BrokerTypeOK, Requests
    <3>3. merged' = PatternMerge(req.host, rank) BY <2>3, <3>1 DEF Empty
    <3>4. PICK p \in Patterns : <<req.host, p>> \in Matching /\ patRec[p][n] = merged'[n]
      BY <2>3, <3>2, <3>3, MergeOfPatterns
    <3>5. merged'[n] \in Values
      BY <2>3, <3>2, <3>3, MergeOfPatterns DEF HeaderMap
    <3> QED BY <3>4, <3>5 DEF Offers, Pairs
  <2> QED BY <1>4, <2>1, <2>2, <2>3 DEF storeVars
<1>5. CASE ReadExact /\ UNCHANGED <<seen, held>>
  BY <1>5 DEF ReadExact
<1>6. CASE [StoreNext]_storeVars /\ UNCHANGED addonVars /\ Watch
  <2> SUFFICES ASSUME Busy PROVE OfferInv' BY <1>6 DEF addonVars
  <2>1. /\ seen' = seen \cup Offers(req)'
        /\ held' = KeptBy(held, hostRec'[req.host])
        /\ merged' = merged /\ req' = req
    BY <1>6 DEF Watch, addonVars
  <2>2. \A n \in Names : held'[n] # NoValue => held'[n] = hostRec'[req.host][n]
    BY <2>1 DEF KeptBy
  <2> QED BY <2>1, <2>2
<1>7. CASE Restart BY <1>7 DEF Restart
<1>8. CASE UNCHANGED brokerVars
  <2>1. Offers(req)' = Offers(req) BY <1>8 DEF brokerVars, Offers
  <2> QED BY <1>8, <2>1 DEF brokerVars
<1> HIDE DEF OfferInv, Busy
<1> QED BY BrokerCases, <1>1, <1>2, <1>3, <1>4, <1>5, <1>6, <1>7, <1>8, Zenon

-----------------------------------------------------------------------------
(* The properties.                                                         *)

\* The verdict and the wire change only when a request comes in, is decided or
\* is gone.
LEMMA CleanStep ==
  ASSUME StoreTypeOK, BrokerTypeOK, FlowInv, WireIsClean, [BrokerNext]_brokerVars
  PROVE  WireIsClean'
<1> USE NoRequestType, BlockedType, ForwardedType, EmptyType
<1> USE DEF WireIsClean, BrokerTypeOK
<1>1. CASE Running /\ UNCHANGED <<seen, held>> BY <1>1 DEF Running
<1>2. ASSUME NEW q \in Requests, NEW allowed \in BOOLEAN, Arrives(q, allowed)
      PROVE  WireIsClean'
  BY <1>2 DEF Arrives, RequestHeaders
<1>3. CASE ResolveHandle /\ UNCHANGED <<seen, held>>
  <2>1. req.https /\ req' = req BY <1>3 DEF ResolveHandle, FlowInv, Busy
  <2> QED BY <1>3, <2>1, ResolveOutcome
<1>4. CASE ReadPatterns /\ UNCHANGED <<seen, held>> BY <1>4 DEF ReadPatterns
<1>5. CASE ReadExact /\ UNCHANGED <<seen, held>>
  <2>1. req.https /\ req' = req BY <1>5 DEF ReadExact, FlowInv, Busy
  <2> QED BY <1>5, <2>1, ExactOutcome
<1>6. CASE [StoreNext]_storeVars /\ UNCHANGED addonVars /\ Watch BY <1>6 DEF addonVars
<1>7. CASE Restart BY <1>7 DEF Restart
<1>8. CASE UNCHANGED brokerVars BY <1>8 DEF brokerVars
<1> HIDE EmptyType, NoRequestType, BlockedType, ForwardedType DEF WireIsClean, BrokerTypeOK
<1> QED BY BrokerCases, <1>1, <1>2, <1>3, <1>4, <1>5, <1>6, <1>7, <1>8, Zenon

LEMMA HandleDecidesStep ==
  ASSUME StoreInvs, StoredInv, BrokerTypeOK, FlowInv, HandleDecides, [BrokerNext]_brokerVars
  PROVE  HandleDecides'
<1> USE NoRequestType, BlockedType, ForwardedType, EmptyType
<1> USE DEF HandleDecides, BrokerTypeOK
<1>1. CASE Running /\ UNCHANGED <<seen, held>> BY <1>1 DEF Running, FlowInv
<1>2. ASSUME NEW q \in Requests, NEW allowed \in BOOLEAN, Arrives(q, allowed)
      PROVE  HandleDecides'
  BY <1>2 DEF Arrives, RequestHeaders
<1>3. CASE ResolveHandle /\ UNCHANGED <<seen, held>>
  <2>1. req' = req /\ UNCHANGED storeVars BY <1>3 DEF ResolveHandle
  <2>2. CASE outcome' = Blocked("DENY_SCOPE", req) BY <2>1, <2>2
  <2>3. CASE /\ req.handle \in Handles
             /\ handleRec[req.handle] \in Specs
             /\ InScope(handleRec[req.handle], req)
             /\ handleRec[req.handle].headers \in HeaderMap
             /\ outcome' = Forwarded("INJECT", "handle", handleRec[req.handle].headers)
    <3>1. handleRec[req.handle] = bound[req.handle]
      BY <2>3, StoreAssumption DEF StoredInv
    <3>2. req.handle \in issued
      BY <2>3, BrokerAssumption, StoreAssumption DEF FlowInv
    <3>3. outcome'.via = "handle" /\ outcome'.wire.headers = bound[req.handle].headers
      BY <2>3, <3>1
    <3>4. bound[req.handle].host = req.host /\ req.target \in bound[req.handle].reach
      BY <2>3, <3>1 DEF InScope
    <3> QED BY <2>1, <3>2, <3>3, <3>4 DEF storeVars
  <2> QED BY <1>3, <2>2, <2>3, ResolveOutcome DEF StoreInvs
<1>4. CASE ReadPatterns /\ UNCHANGED <<seen, held>>
  BY <1>4 DEF ReadPatterns, FlowInv
<1>5. CASE ReadExact /\ UNCHANGED <<seen, held>>
  BY <1>5 DEF ReadExact, FlowInv, Busy
<1>6. CASE [StoreNext]_storeVars /\ UNCHANGED addonVars /\ Watch
  <2>1. issued \subseteq issued' /\ \A k \in issued : bound'[k] = bound[k]
    BY <1>6, BoundStep
  <2> QED BY <1>6, <2>1 DEF addonVars
<1>7. CASE Restart BY <1>7 DEF Restart
<1>8. CASE UNCHANGED brokerVars BY <1>8 DEF brokerVars
<1> HIDE EmptyType, NoRequestType, BlockedType, ForwardedType DEF HandleDecides, BrokerTypeOK
<1> QED BY BrokerCases, <1>1, <1>2, <1>3, <1>4, <1>5, <1>6, <1>7, <1>8, Zenon

LEMMA OnOfferStep ==
  ASSUME StoreTypeOK, BrokerTypeOK, FlowInv, OfferInv, InjectedWasOnOffer,
         [BrokerNext]_brokerVars
  PROVE  InjectedWasOnOffer'
<1> USE NoRequestType, BlockedType, ForwardedType, EmptyType
<1> USE DEF InjectedWasOnOffer
<1>0. \A n \in Names : Empty[n] = NoValue BY DEF Empty
<1>1. CASE Running /\ UNCHANGED <<seen, held>> BY <1>1 DEF Running
<1>2. ASSUME NEW q \in Requests, NEW allowed \in BOOLEAN, Arrives(q, allowed)
      PROVE  InjectedWasOnOffer'
  <2>1. outcome'.wire.headers = Empty BY <1>2 DEF Arrives, RequestHeaders
  <2> QED BY <1>0, <2>1
<1>3. CASE ResolveHandle /\ UNCHANGED <<seen, held>>
  <2>1. Offers(req) \subseteq seen BY <1>3 DEF ResolveHandle, OfferInv, Busy
  <2>2. CASE outcome' = Blocked("DENY_SCOPE", req)
    BY <1>0, <2>2 DEF BrokerTypeOK
  <2>3. CASE /\ req.handle \in Handles
             /\ handleRec[req.handle] \in Specs
             /\ InScope(handleRec[req.handle], req)
             /\ handleRec[req.handle].headers \in HeaderMap
             /\ outcome' = Forwarded("INJECT", "handle", handleRec[req.handle].headers)
    <3>1. outcome'.wire.headers = handleRec[req.handle].headers BY <2>3
    <3>2. \A n \in Names : handleRec[req.handle].headers[n] # NoValue =>
             <<n, handleRec[req.handle].headers[n]>> \in Offers(req)
      BY <2>3, StoreAssumption DEF Offers, Pairs, HeaderMap
    <3> QED BY <1>3, <2>1, <3>1, <3>2
  <2> QED BY <1>3, <2>2, <2>3, ResolveOutcome
<1>4. CASE ReadPatterns /\ UNCHANGED <<seen, held>> BY <1>4 DEF ReadPatterns
<1>5. CASE ReadExact /\ UNCHANGED <<seen, held>>
  <2>1. PICK headers \in HeaderMap :
           /\ headers = IF redis = "up" THEN Overlay(merged, hostRec[req.host]) ELSE merged
           /\ outcome' = IF headers = Empty THEN Forwarded("ALLOW", "none", Empty)
                         ELSE Forwarded("INJECT", "host", headers)
    BY <1>5, ExactOutcome
  <2>2. outcome'.wire.headers = headers BY <2>1
  <2>3. /\ Offers(req) \subseteq seen
        /\ \A n \in Names : merged[n] # NoValue => <<n, merged[n]>> \in seen
    BY <1>5 DEF ReadExact, OfferInv, Busy
  <2>4. hostRec[req.host] \in HeaderMap BY DEF StoreTypeOK, BrokerTypeOK, Requests
  <2>5. \A n \in Names : hostRec[req.host][n] # NoValue =>
           <<n, hostRec[req.host][n]>> \in Offers(req)
    BY <2>4 DEF Offers, Pairs, HeaderMap
  <2>6. \A n \in Names : headers[n] \in {merged[n], hostRec[req.host][n]}
    BY <2>1 DEF Overlay
  <2> QED BY <1>5, <2>2, <2>3, <2>5, <2>6
<1>6. CASE [StoreNext]_storeVars /\ UNCHANGED addonVars /\ Watch
  BY <1>6 DEF addonVars, Watch
<1>7. CASE Restart BY <1>0, <1>7 DEF Restart
<1>8. CASE UNCHANGED brokerVars BY <1>8 DEF brokerVars
<1> HIDE EmptyType, NoRequestType, BlockedType, ForwardedType DEF InjectedWasOnOffer
<1> QED BY BrokerCases, <1>1, <1>2, <1>3, <1>4, <1>5, <1>6, <1>7, <1>8, Zenon

LEMMA ExactStep ==
  ASSUME StoreTypeOK, StoredInv, BrokerTypeOK, FlowInv, OfferInv, ExactRecordApplies,
         [BrokerNext]_brokerVars
  PROVE  ExactRecordApplies'
<1> USE NoRequestType, BlockedType, ForwardedType, EmptyType
<1> USE DEF ExactRecordApplies, BrokerTypeOK
<1>0. \A n \in Names : Empty[n] = NoValue BY DEF Empty
<1>1. CASE Running /\ UNCHANGED <<seen, held>> BY <1>1 DEF Running
<1>2. ASSUME NEW q \in Requests, NEW allowed \in BOOLEAN, Arrives(q, allowed)
      PROVE  ExactRecordApplies'
  <2>1. CASE Busy'
    <3>1. outcome'.verdict = "none" BY <1>2, <2>1 DEF Arrives, RequestHeaders, Busy
    <3> QED BY <3>1
  <2>2. CASE ~Busy'
    <3>1. held' = Empty BY <1>2, <2>2 DEF Arrives
    <3> QED BY <1>0, <3>1
  <2> QED BY <2>1, <2>2
<1>3. CASE ResolveHandle /\ UNCHANGED <<seen, held>>
  <2>1. req'.handle # NoHandle BY <1>3 DEF ResolveHandle, FlowInv, Busy
  <2> QED BY <2>1
<1>4. CASE ReadPatterns /\ UNCHANGED <<seen, held>> BY <1>4 DEF ReadPatterns
<1>5. CASE ReadExact /\ UNCHANGED <<seen, held>>
  <2>1. PICK headers \in HeaderMap :
           /\ headers = IF redis = "up" THEN Overlay(merged, hostRec[req.host]) ELSE merged
           /\ outcome' = IF headers = Empty THEN Forwarded("ALLOW", "none", Empty)
                         ELSE Forwarded("INJECT", "host", headers)
    BY <1>5, ExactOutcome
  <2>2. outcome'.wire.headers = headers BY <2>1
  <2>3. \A n \in Names : held[n] # NoValue => held[n] = hostRec[req.host][n]
    BY <1>5 DEF ReadExact, OfferInv, Busy
  <2>4. redis # "up" => \A n \in Names : hostRec[req.host][n] = NoValue
    BY <1>0 DEF StoredInv, Requests
  <2>5. \A n \in Names : held[n] # NoValue => headers[n] = held[n]
    BY <2>1, <2>3, <2>4 DEF Overlay
  <2> QED BY <1>5, <2>2, <2>5
<1>6. CASE [StoreNext]_storeVars /\ UNCHANGED addonVars /\ Watch
  <2>1. CASE Busy
    <3>1. outcome'.verdict = "none" BY <1>6, <2>1 DEF addonVars, FlowInv, Busy
    <3> QED BY <3>1
  <2>2. CASE ~Busy BY <1>6, <2>2 DEF addonVars, Watch
  <2> QED BY <2>1, <2>2
<1>7. CASE Restart BY <1>7 DEF Restart
<1>8. CASE UNCHANGED brokerVars BY <1>8 DEF brokerVars
<1> HIDE EmptyType, NoRequestType, BlockedType, ForwardedType
    DEF ExactRecordApplies, BrokerTypeOK
<1> QED BY BrokerCases, <1>1, <1>2, <1>3, <1>4, <1>5, <1>6, <1>7, <1>8, Zenon

-----------------------------------------------------------------------------
BrokerInv ==
    /\ StoreInvs /\ StoredInv
    /\ BrokerTypeOK /\ FlowInv /\ OfferInv
    /\ WireIsClean /\ HandleDecides /\ InjectedWasOnOffer /\ ExactRecordApplies

LEMMA BrokerInitially == BrokerInit => BrokerInv
<1> SUFFICES ASSUME BrokerInit PROVE BrokerInv OBVIOUS
<1> USE NoRequestType, BlockedType, EmptyType DEF BrokerInit
<1>1. StoreInvs BY StoreInitially DEF StoreInvs
<1>2. StoredInv BY DEF StoredInv, StoreInit
<1>3. BrokerTypeOK BY DEF BrokerTypeOK
<1>4. FlowInv /\ OfferInv BY DEF FlowInv, OfferInv, Busy
<1>5. WireIsClean /\ HandleDecides /\ ExactRecordApplies
  BY DEF WireIsClean, HandleDecides, ExactRecordApplies
<1>6. InjectedWasOnOffer BY DEF InjectedWasOnOffer, Empty
<1> QED BY <1>1, <1>2, <1>3, <1>4, <1>5, <1>6 DEF BrokerInv

\* What the store keeps, what the addon knows of it while a request is in it,
\* and the four properties hold together in every reachable state.
THEOREM BrokerInvariant == BrokerSpec => []BrokerInv
<1>1. ASSUME BrokerInv, [BrokerNext]_brokerVars PROVE BrokerInv'
  <2>1. [StoreNext]_storeVars BY <1>1, StoreOfBroker
  <2>2. StoreTypeOK BY <1>1 DEF BrokerInv, StoreInvs
  <2>3. StoreInvs' /\ StoredInv'
    BY <1>1, <2>1, <2>2, StoreInvsStep, StoredStep DEF BrokerInv
  <2>4. BrokerTypeOK' /\ FlowInv' /\ OfferInv'
    BY <1>1, <2>2, BrokerTypeStep, FlowStep, OfferStep DEF BrokerInv
  <2>5. WireIsClean' /\ HandleDecides'
    BY <1>1, <2>2, CleanStep, HandleDecidesStep DEF BrokerInv
  <2>6. InjectedWasOnOffer' /\ ExactRecordApplies'
    BY <1>1, <2>2, OnOfferStep, ExactStep DEF BrokerInv
  <2> QED BY <2>3, <2>4, <2>5, <2>6 DEF BrokerInv
<1> QED BY BrokerInitially, <1>1, PTL DEF BrokerSpec

\* Every variable of the addon keeps its type.
THEOREM BrokerTypeCorrect == BrokerSpec => []BrokerTypeOK
  BY BrokerInvariant, PTL DEF BrokerInv

\* However the store is written meanwhile: what is injected was on offer to the
\* request while the addon had it.
THEOREM InjectsOnOffer == BrokerSpec => []InjectedWasOnOffer
  BY BrokerInvariant, PTL DEF BrokerInv

\* For any patterns and any order of them: a header that the exact record held as
\* long as the request was in the addon is injected with the record's value.
THEOREM ExactWins == BrokerSpec => []ExactRecordApplies
  BY BrokerInvariant, PTL DEF BrokerInv

\* For any number of handles: one that is presented decides alone, in its scope.
THEOREM HandleAlone == BrokerSpec => []HandleDecides
  BY BrokerInvariant, PTL DEF BrokerInv

\* No request leaves with the handle header, and none over cleartext with an
\* injected one.
THEOREM LeavesClean == BrokerSpec => []WireIsClean
  BY BrokerInvariant, PTL DEF BrokerInv

\* The addon changes nothing in the store: what is proved of the store holds of
\* the two together.
THEOREM BrokerKeepsStore == BrokerSpec => StoreSpec
<1>1. BrokerInit => StoreInit BY DEF BrokerInit
<1> QED BY <1>1, StoreOfBroker, PTL DEF BrokerSpec, StoreSpec
=============================================================================
