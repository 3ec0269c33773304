---------------------------- MODULE LaunchProofs ----------------------------
(***************************************************************************)
(* What the launch of a sandbox relies on: the context window, for any     *)
(* models, servers and windows; the scope guard, for any scope file; the   *)
(* ports, for any number of sandboxes and shells and any range of ports.   *)
(***************************************************************************)
EXTENDS LaunchContext, ScopeGuard, HostPorts, InductionFacts

(* The window that was given by hand.                                      *)

Fields == {"model", "ctx", "explicit"}

\* While a command runs it has the window that was given; at rest up or open has
\* recorded it.
PinInv ==
    /\ DOMAIN sh = Fields /\ DOMAIN saved = Fields
    /\ pin # None /\ ~cut =>
          /\ at = "idle" => saved.explicit /\ saved.ctx = pin
          /\ at # "idle" => sh.explicit /\ sh.ctx = pin
    /\ PinnedIsKept

\* A command begins with the window that it is given or with what is recorded.
LEMMA BeginKeepsPin ==
  ASSUME PinInv, NEW model, NEW ctx, UpBegin(model, ctx) \/ OpenBegin(model, ctx)
  PROVE  PinInv'
<1>1. CASE UpBegin(model, ctx)
  <2> DEFINE m == IF model = None THEN Pick(server, TRUE) ELSE model
  <2>1. CASE m = None BY <1>1, <2>1 DEF UpBegin, Command, PinInv, PinnedIsKept
  <2>2. CASE m # None
    <3>1. /\ at = "idle" /\ at' = "upTrained"
          /\ sh' = [model |-> m, ctx |-> ctx, explicit |-> ctx # None]
          /\ given' = NoChoice /\ pin' = ctx
          /\ UNCHANGED <<saved, cut>>
      BY <1>1, <2>2 DEF UpBegin, Command
    <3> HIDE DEF m
    <3> QED BY <3>1 DEF PinInv, PinnedIsKept, Fields
  <2> QED BY <2>1, <2>2
<1>2. CASE OpenBegin(model, ctx)
  <2> DEFINE m == IF model = None THEN saved.model ELSE model
  <2>1. at = "idle" /\ at' = "openTrained" /\ given' = NoChoice /\ cut' = cut
    BY <1>2 DEF OpenBegin, Command
  <2>2. CASE ctx = None
    <3>1. sh' = [saved EXCEPT !.model = m] /\ UNCHANGED <<saved, pin>>
      BY <1>2, <2>2 DEF OpenBegin
    <3> HIDE DEF m
    <3> QED BY <2>1, <3>1 DEF PinInv, PinnedIsKept, Fields
  <2>3. CASE ctx # None
    <3>1. /\ sh' = [model |-> m, ctx |-> ctx, explicit |-> TRUE]
          /\ saved' = [saved EXCEPT !.explicit = TRUE]
          /\ pin' = ctx
      BY <1>2, <2>3 DEF OpenBegin
    <3> HIDE DEF m
    <3> QED BY <2>1, <3>1 DEF PinInv, PinnedIsKept, Fields
  <2> QED BY <2>2, <2>3
<1> QED BY <1>1, <1>2

\* No measurement changes it.
LEMMA ProbesKeepPin ==
  ASSUME PinInv,
         \/ UpTrained \/ UpServed \/ OpenTrained
         \/ \E probe \in BOOLEAN, tokens \in FillerTokens : UpEffective(probe, tokens)
  PROVE  PinInv'
<1> DEFINE Faithful == /\ DOMAIN sh' = Fields
                       /\ sh'.explicit = sh.explicit
                       /\ sh.explicit => sh'.ctx = sh.ctx
           Quiet    == at # "idle" /\ at' # "idle" /\ UNCHANGED <<saved, given, pin, cut>>
<1>1. CASE UpTrained
  <2>1. Faithful BY <1>1 DEF UpTrained, PinInv, Fields
  <2>2. Quiet BY <1>1 DEF UpTrained, history
  <2> QED BY <2>1, <2>2 DEF PinInv, PinnedIsKept
<1>2. CASE UpServed
  <2>1. Faithful BY <1>2 DEF UpServed, Capped, PinInv, Fields
  <2>2. Quiet BY <1>2 DEF UpServed
  <2> QED BY <2>1, <2>2 DEF PinInv, PinnedIsKept
<1>3. CASE OpenTrained
  <2>1. Faithful BY <1>3 DEF OpenTrained, PinInv, Fields
  <2>2. Quiet BY <1>3 DEF OpenTrained, history
  <2> QED BY <2>1, <2>2 DEF PinInv, PinnedIsKept
<1>4. ASSUME NEW probe \in BOOLEAN, NEW tokens \in FillerTokens, UpEffective(probe, tokens)
      PROVE  PinInv'
  <2>1. Faithful BY <1>4 DEF UpEffective, PinInv, Fields
  <2>2. Quiet BY <1>4 DEF UpEffective
  <2> QED BY <2>1, <2>2 DEF PinInv, PinnedIsKept
<1> QED BY <1>1, <1>2, <1>3, <1>4

\* What is recorded at the end, and handed out, is what the command had.
LEMMA EndsKeepPin ==
  ASSUME PinInv, UpRecord \/ OpenServed \/ Interrupted
  PROVE  PinInv'
<1>1. DOMAIN NoChoice = Fields BY DEF NoChoice, Fields
<1>2. CASE UpRecord BY <1>1, <1>2 DEF UpRecord, history, PinInv, PinnedIsKept
<1>3. CASE OpenServed
  <2>1. /\ DOMAIN Capped(sh) = Fields
        /\ Capped(sh).explicit = sh.explicit
        /\ sh.explicit => Capped(sh).ctx = sh.ctx
    BY DEF Capped, PinInv, Fields
  <2>2. /\ at # "idle" /\ at' = "idle"
        /\ given' = Capped(sh) /\ saved' = Capped(sh) /\ sh' = NoChoice
        /\ UNCHANGED <<pin, cut>>
    BY <1>3 DEF OpenServed, history
  <2> QED BY <1>1, <2>1, <2>2 DEF PinInv, PinnedIsKept
<1>4. CASE Interrupted BY <1>1, <1>4 DEF Interrupted, PinInv, PinnedIsKept
<1> QED BY <1>2, <1>3, <1>4

\* A window given with --model-context to up, or to open, is what every later
\* open starts a harness with, whatever the server answers in between, unless
\* the command it was given to was interrupted.
THEOREM PinnedStays == ContextSpec => []PinnedIsKept
<1>1. ContextInit => PinInv
  BY DEF ContextInit, NoChoice, Fields, PinInv, PinnedIsKept
<1>2. PinInv /\ [ContextNext]_contextVars => PinInv'
  <2> SUFFICES ASSUME PinInv, [ContextNext]_contextVars PROVE PinInv' OBVIOUS
  <2>1. ASSUME NEW model, NEW ctx, UpBegin(model, ctx) \/ OpenBegin(model, ctx)
        PROVE  PinInv'
    BY <2>1, BeginKeepsPin
  <2>2. CASE \/ UpTrained \/ UpServed \/ OpenTrained
             \/ \E probe \in BOOLEAN, tokens \in FillerTokens : UpEffective(probe, tokens)
    BY <2>2, ProbesKeepPin
  <2>3. CASE UpRecord \/ OpenServed \/ Interrupted BY <2>3, EndsKeepPin
  <2>4. ASSUME UNCHANGED <<saved, at, sh, given, pin, cut>> PROVE PinInv'
    BY <2>4 DEF PinInv, PinnedIsKept
  <2>5. CASE Reachable BY <2>4, <2>5 DEF Reachable, history
  <2>6. ASSUME NEW numCtx, Restarts(numCtx) PROVE PinInv' BY <2>4, <2>6 DEF Restarts
  <2>7. ASSUME NEW m, Unloads(m) PROVE PinInv' BY <2>4, <2>7 DEF Unloads
  <2>8. CASE UNCHANGED contextVars BY <2>4, <2>8 DEF contextVars, history
  <2> QED BY <2>1, <2>2, <2>3, <2>5, <2>6, <2>7, <2>8, Zenon DEF ContextNext
<1>3. PinInv => PinnedIsKept BY DEF PinInv
<1> QED BY <1>1, <1>2, <1>3, PTL DEF ContextSpec

-----------------------------------------------------------------------------
(* The window of every launch.                                             *)

\* Of the models that are usable, one comes first by size, or by the list.
LEMMA FirstBySize ==
  ASSUME NEW n \in Nat, NEW size \in [1 .. n -> Nat], NEW larger \in BOOLEAN,
         NEW S \in SUBSET (1 .. n), S # {}
  PROVE  \E i \in S : \A j \in S :
            IF size[i] = size[j] THEN i <= j ELSE larger <=> size[i] > size[j]
<1> DEFINE Before(i, j) == IF size[i] = size[j] THEN i <= j ELSE larger <=> size[i] > size[j]
           Upto(k) == {i \in S : i <= k}
           First(k) == \E i \in Upto(k) : \A j \in Upto(k) : Before(i, j)
           Bad == {k \in 0 .. n : Upto(k) # {} /\ ~First(k)}
<1>0. \A i \in S : i \in 1 .. n OBVIOUS
<1>1. \A i, j \in S : Before(i, j) \/ Before(j, i) BY <1>0
<1>2. \A i, j, k \in S : Before(i, j) /\ Before(j, k) => Before(i, k) BY <1>0
<1>3. \A i \in S : Before(i, i) BY <1>0
<1> HIDE DEF Before
<1>4. Bad = {}
  <2> SUFFICES ASSUME Bad # {} PROVE FALSE OBVIOUS
  <2>1. PICK k \in Bad : \A m \in Bad : k <= m
    <3>1. Bad \in SUBSET Nat BY SMT
    <3> HIDE DEF Bad
    <3> QED BY <3>1, Least
  <2>2. k \in 0 .. n /\ Upto(k) # {} /\ ~First(k) BY <2>1
  <2>3. k # 0
    <3>1. PICK i \in S : i <= k BY <2>2
    <3>2. i \in Nat /\ i >= 1 BY <1>0, <3>1
    <3> QED BY <2>2, <3>1, <3>2
  <2>4. k - 1 \in 0 .. n /\ k - 1 \notin Bad
    <3>1. k - 1 \in 0 .. n /\ ~ (k <= k - 1) BY <2>2, <2>3
    <3> HIDE DEF Bad
    <3> QED BY <2>1, <3>1
  <2>5. Upto(k - 1) = {} \/ First(k - 1)
    <3> HIDE DEF Upto, First
    <3> QED BY <2>4
  <2>6. \A i \in S : i <= k <=> i <= k - 1 \/ i = k BY <1>0, <2>2, <2>3
  <2>7. \A i : i \in Upto(k) <=> i \in Upto(k - 1) \/ (i = k /\ k \in S) BY <2>6, <2>2
  <2>8. \A i \in Upto(k) : i \in S OBVIOUS
  <2> HIDE DEF Upto, Bad
  <2>9. CASE Upto(k - 1) = {} BY <1>3, <2>2, <2>7, <2>8, <2>9
  <2>10. CASE First(k - 1)
    <3>1. PICK i \in Upto(k - 1) : \A j \in Upto(k - 1) : Before(i, j) BY <2>10
    <3>2. i \in Upto(k) /\ i \in S BY <2>7, <2>8, <3>1
    <3>3. CASE k \notin S \/ Before(i, k) BY <2>2, <2>7, <3>1, <3>2, <3>3
    <3>4. CASE k \in S /\ Before(k, i)
      <4>1. \A j \in Upto(k) : Before(k, j) BY <1>2, <1>3, <2>7, <2>8, <3>1, <3>2, <3>4
      <4> QED BY <2>2, <2>7, <3>4, <4>1
    <3> QED BY <1>1, <3>2, <3>3, <3>4
  <2> QED BY <2>5, <2>9, <2>10
<1>5. n \in 0 .. n OBVIOUS
<1>6. Upto(n) = S
  <2>1. \A i \in S : i <= n BY <1>0
  <2> QED BY <2>1
<1>7. First(n)
  <2> HIDE DEF First, Upto
  <2> QED BY <1>4, <1>5, <1>6
<1> QED BY <1>6, <1>7 DEF Before

\* A function on 1..n is a sequence.
LEMMA IsASeq ==
  ASSUME NEW n \in Nat, NEW V, NEW e, e \in [1 .. n -> V]
  PROVE  e \in Seq(V)
OBVIOUS

\* --pick names a model of the server, or none.
LEMMA PickType ==
  ASSUME NEW s \in Servers, NEW larger \in BOOLEAN
  PROVE  Pick(s, larger) \in Models \cup {None}
<1> DEFINE found == Found(s)
           usable == {i \in DOMAIN found : Usable(found[i])}
           Before(i, j) == IF found[i].size = found[j].size THEN i <= j
                           ELSE larger <=> found[i].size > found[j].size
           first == CHOOSE i \in usable : \A j \in usable : Before(i, j)
<1>1. s.tags \in Seq(Listed) BY ProbeAssumption DEF Servers
<1>2. found \in Seq(Listed)
  <2>1. CASE ~s.up BY <2>1 DEF Found
  <2>2. CASE s.up /\ s.ollama BY <1>1, <2>2 DEF Found
  <2>3. CASE s.up /\ ~s.ollama
    <3>1. DOMAIN s.tags = 1 .. Len(s.tags) /\ Len(s.tags) \in Nat BY <1>1
    <3>2. ASSUME NEW t \in Listed PROVE [t EXCEPT !.size = 0, !.caps = {}] \in Listed
      BY DEF Listed
    <3>3. \A i \in 1 .. Len(s.tags) : s.tags[i] \in Listed BY <1>1
    <3>4. found = [i \in 1 .. Len(s.tags) |-> [s.tags[i] EXCEPT !.size = 0, !.caps = {}]]
      BY <2>3, <3>1 DEF Found
    <3>5. \A i \in 1 .. Len(s.tags) : [s.tags[i] EXCEPT !.size = 0, !.caps = {}] \in Listed
      BY <3>2, <3>3
    <3>6. found \in [1 .. Len(s.tags) -> Listed] BY <3>4, <3>5
    <3> HIDE DEF found
    <3> QED BY <3>1, <3>6, IsASeq
  <2> QED BY <2>1, <2>2, <2>3
<1>3. Pick(s, larger) = IF usable = {} THEN None ELSE found[first].id
  BY DEF Pick
<1> HIDE DEF found
<1>4. CASE usable # {}
  <2> DEFINE size == [i \in 1 .. Len(found) |-> found[i].size]
  <2>1. /\ Len(found) \in Nat /\ DOMAIN found = 1 .. Len(found)
        /\ \A i \in DOMAIN found : found[i] \in Listed
    BY <1>2
  <2>2. size \in [1 .. Len(found) -> Nat] BY <2>1 DEF Listed
  <2>3. usable \in SUBSET (1 .. Len(found)) BY <2>1
  <2>4. \E i \in usable : \A j \in usable :
           IF size[i] = size[j] THEN i <= j ELSE larger <=> size[i] > size[j]
    <3> HIDE DEF size, usable
    <3> QED BY <1>4, <2>1, <2>2, <2>3, FirstBySize
  <2>5. \E i \in usable : \A j \in usable : Before(i, j) BY <2>1, <2>4
  <2>6. first \in usable BY <2>5
  <2>7. found[first].id \in Models BY <2>1, <2>6 DEF Listed
  <2> QED BY <1>3, <1>4, <2>7
<1> QED BY <1>3, <1>4

\* What Capped takes off a choice.
LEMMA CappedType ==
  ASSUME server \in Servers, NEW c \in Choice, c.model # None
  PROVE  /\ Capped(c) \in Choice
         /\ Capped(c).model = c.model /\ Capped(c).explicit = c.explicit
         /\ \/ Capped(c) = c
            \/ ServedContext(server, c.model) \in Nat /\ Capped(c).ctx = ServedContext(server, c.model)
<1>1. c.model \in Models BY DEF Choice
<1>2. ServedContext(server, c.model) \in Nat \cup {None}
  BY <1>1, ProbeAssumption DEF ServedContext, Servers
<1> QED BY <1>2 DEF Capped, Smaller, Choice

\* What an Ollama server reports of a loaded model caps the choice of that model.
LEMMA CappedFits ==
  ASSUME server \in Servers, NEW c \in Choice, c.model # None, server.up, server.ollama,
         ~c.explicit, c.ctx # None, server.loaded[c.model] # None
  PROVE  Capped(c).ctx <= server.loaded[c.model]
<1>1. c.model \in Models /\ c.ctx \in Nat BY DEF Choice
<1>2. server.loaded[c.model] \in Nat BY <1>1, ProbeAssumption DEF Servers
<1> QED BY <1>1, <1>2 DEF Capped, Smaller, ServedContext, Choice

\* A server stays one when it loads a model.
LEMMA LoadType ==
  ASSUME server \in Servers, NEW m \in Models
  PROVE  /\ Load(server, m) \in Servers
         /\ Load(server, m).loaded[m] # None /\ Load(server, m).loaded[m] \in Windows
         /\ Load(server, m).ollama = server.ollama /\ Load(server, m).up = server.up
<1>1. server.numCtx # None /\ server.numCtx \in Windows BY ProbeAssumption DEF Servers
<1>2. CASE server.loaded[m] = None BY <1>1, <1>2 DEF Load, Servers
<1>3. CASE server.loaded[m] # None BY <1>3 DEF Load, Servers
<1> QED BY <1>2, <1>3

\* What is counted of a filler is no more than the window it was loaded with.
LEMMA CountedFits ==
  ASSUME server \in Servers, NEW m \in Models, NEW tokens \in FillerTokens
  PROVE  /\ EffectiveContext(server, m, tokens) \in Nat
         /\ EffectiveContext(server, m, tokens) <= Load(server, m).loaded[m]
<1>1. tokens \in Nat /\ Load(server, m).loaded[m] \in Nat BY LoadType, ProbeAssumption
<1> QED BY <1>1 DEF EffectiveContext

\* Every step keeps the types.
LEMMA ContextTypeStep ==
  ASSUME ContextTypeOK, [ContextNext]_contextVars
  PROVE  ContextTypeOK'
<1> USE DEF ContextTypeOK
<1>1. NoChoice \in Choice BY DEF NoChoice, Choice
<1>2. ASSUME NEW model \in Models \cup {None}, NEW ctx \in Pins \cup {None}, UpBegin(model, ctx)
      PROVE  ContextTypeOK'
  <2> DEFINE m == IF model = None THEN Pick(server, TRUE) ELSE model
  <2>1. m \in Models \cup {None} BY PickType
  <2>2. ctx \in Nat \cup {None} BY ContextAssumption
  <2>3. commands' \in 0 .. MaxCommands BY <1>2, ContextAssumption DEF UpBegin, Command
  <2>4. CASE m = None BY <1>2, <2>3, <2>4 DEF UpBegin, Command
  <2>5. CASE m # None
    <3>1. /\ at = "idle" /\ at' = "upTrained"
          /\ sh' = [model |-> m, ctx |-> ctx, explicit |-> ctx # None]
          /\ given' = NoChoice /\ pin' = ctx /\ measured' = None
          /\ UNCHANGED <<server, saved, cut>>
      BY <1>2, <2>5 DEF UpBegin, Command
    <3> HIDE DEF m
    <3>2. sh' \in Choice /\ sh'.model # None BY <2>1, <2>2, <2>5, <3>1 DEF Choice
    <3> QED BY <1>1, <2>3, <3>1, <3>2 DEF CommandStages
  <2> QED BY <2>4, <2>5
<1>3. ASSUME NEW model \in Models \cup {None}, NEW ctx \in Pins \cup {None}, OpenBegin(model, ctx)
      PROVE  ContextTypeOK'
  <2> DEFINE m == IF model = None THEN saved.model ELSE model
  <2>1. m \in Models BY <1>3 DEF OpenBegin, Choice
  <2>2. ctx \in Nat \cup {None} BY ContextAssumption
  <2>3. commands' \in 0 .. MaxCommands BY <1>3, ContextAssumption DEF OpenBegin, Command
  <2>4. m # None BY <2>1, ProbeAssumption
  <2>5. /\ at' = "openTrained" /\ given' = NoChoice /\ measured' \in {measured, None}
        /\ UNCHANGED <<server, cut>>
    BY <1>3 DEF OpenBegin
  <2>6. CASE ctx = None
    <3>1. sh' = [saved EXCEPT !.model = m] /\ UNCHANGED <<saved, pin>>
      BY <1>3, <2>6 DEF OpenBegin
    <3> HIDE DEF m
    <3> QED BY <1>1, <2>1, <2>3, <2>4, <2>5, <3>1 DEF Choice, CommandStages
  <2>7. CASE ctx # None
    <3>1. /\ sh' = [model |-> m, ctx |-> ctx, explicit |-> TRUE]
          /\ saved' = [saved EXCEPT !.explicit = TRUE]
          /\ pin' = ctx
      BY <1>3, <2>7 DEF OpenBegin
    <3> HIDE DEF m
    <3>2. sh' \in Choice /\ sh'.model # None BY <2>1, <2>2, <2>4, <3>1 DEF Choice
    <3>3. saved' \in Choice BY <3>1 DEF Choice
    <3> QED BY <1>1, <2>3, <2>5, <3>1, <3>2, <3>3 DEF CommandStages
  <2> QED BY <2>6, <2>7
<1>4. at # "idle" => sh.model \in Models BY DEF Choice
<1>5. at # "idle" => ContextWindow(server, sh.model) \in Nat \cup {None}
  BY <1>4, ProbeAssumption DEF ContextWindow, Servers
<1>6. CASE UpTrained
  <2>1. sh' \in Choice /\ sh'.model = sh.model BY <1>5, <1>6 DEF UpTrained, Choice
  <2> QED BY <1>6, <2>1 DEF UpTrained, history, CommandStages
<1>7. ASSUME NEW probe \in BOOLEAN, NEW tokens \in FillerTokens, UpEffective(probe, tokens)
      PROVE  ContextTypeOK'
  <2>1. at # "idle" /\ at' \in {"upServed", "upRecord"} /\ UNCHANGED <<saved, commands, given, pin, cut>>
    BY <1>7 DEF UpEffective
  <2>2. CASE probe /\ server.up
    <3>1. server' = Load(server, sh.model) /\ measured' = sh.model
          /\ sh' = [sh EXCEPT !.ctx = IF Truncates(EffectiveContext(server, sh.model, tokens)) /\ ~sh.explicit
                                      THEN EffectiveContext(server, sh.model, tokens) ELSE @]
      BY <1>7, <2>2 DEF UpEffective
    <3>2. server' \in Servers BY <1>4, <2>1, <3>1, LoadType
    <3>3. sh' \in Choice /\ sh'.model = sh.model BY <1>4, <2>1, <3>1, CountedFits DEF Choice
    <3> QED BY <1>4, <2>1, <3>1, <3>2, <3>3 DEF CommandStages
  <2>3. CASE ~(probe /\ server.up)
    <3>1. UNCHANGED <<server, sh, measured>> BY <1>7, <2>3 DEF UpEffective
    <3> QED BY <2>1, <3>1 DEF CommandStages
  <2> QED BY <2>2, <2>3
<1>8. CASE UpServed
  <2>1. at # "idle" /\ sh' = Capped(sh) /\ at' = "upRecord" /\ measured' \in {measured, None}
        /\ UNCHANGED <<server, saved, commands, given, pin, cut>>
    BY <1>8 DEF UpServed
  <2>2. Capped(sh) \in Choice /\ Capped(sh).model # None
    <3>1. server \in Servers /\ sh \in Choice /\ sh.model # None BY <2>1
    <3> QED BY <3>1, CappedType, Zenon
  <2> HIDE DEF Choice
  <2> QED BY <2>1, <2>2 DEF CommandStages
<1>9. CASE UpRecord BY <1>1, <1>9 DEF UpRecord, history, CommandStages
<1>10. CASE OpenTrained
  <2>1. sh' \in Choice /\ sh'.model = sh.model BY <1>5, <1>10 DEF OpenTrained, Choice
  <2> QED BY <1>10, <2>1 DEF OpenTrained, history, CommandStages
<1>11. CASE OpenServed BY <1>1, <1>11, CappedType DEF OpenServed, history, CommandStages
<1>12. CASE Interrupted BY <1>1, <1>12 DEF Interrupted, CommandStages, Choice
<1>13. CASE Reachable BY <1>13 DEF Reachable, Servers, history
<1>14. ASSUME NEW numCtx \in Windows, Restarts(numCtx) PROVE ContextTypeOK'
  BY <1>14 DEF Restarts, Servers
<1>15. ASSUME NEW m \in Models, Unloads(m) PROVE ContextTypeOK'
  BY <1>15 DEF Unloads, Servers
<1>16. CASE UNCHANGED contextVars BY <1>16 DEF contextVars, history
<1> QED
  BY <1>2, <1>3, <1>6, <1>7, <1>8, <1>9, <1>10, <1>11, <1>12, <1>13, <1>14, <1>15, <1>16, Zenon
  DEF ContextNext

\* ContextTypeOK holds for any models, listings, windows and fillers.
THEOREM ContextTypes == ContextSpec => []ContextTypeOK
<1>1. ContextInit => ContextTypeOK
  <2> SUFFICES ASSUME ContextInit PROVE ContextTypeOK OBVIOUS
  <2>1. NoChoice \in Choice BY DEF NoChoice, Choice
  <2>2. server \in Servers BY DEF ContextInit
  <2>3. commands \in 0 .. MaxCommands BY ContextAssumption DEF ContextInit
  <2> QED BY <2>1, <2>2, <2>3 DEF ContextInit, ContextTypeOK, CommandStages
<1> QED BY <1>1, ContextTypeStep, PTL DEF ContextSpec

\* A window that was not given by hand is no more than the server serves for
\* what up measured; a server that is not Ollama says nothing of windows, so
\* that there the window of another model is passed on with it.
Fits(c) ==
    ~c.explicit /\ c.ctx # None /\ (c.model = measured \/ ~server.ollama) =>
        c.ctx <= server.loaded[measured]

\* Where that must hold: of what is recorded, save while up goes on with a new
\* choice; of the choice, once it has been capped.  open caps it again with what
\* an Ollama server reports, or goes on with what is recorded.
FitsInv ==
    /\ measured # None => server.loaded[measured] # None
    /\ at # "idle" => given = NoChoice
    /\ at \in {"upTrained", "upEffective"} => measured = None
    /\ at \in {"upServed", "upRecord"} => measured \in {None, sh.model}
    /\ at = "upEffective" /\ ~server.ollama /\ ~sh.explicit => sh.ctx = None
    /\ measured # None =>
          /\ at \notin {"upServed", "upRecord"} => Fits(saved)
          /\ at = "upServed" /\ ~server.ollama => Fits(sh)
          /\ at = "upRecord" => Fits(sh)
          /\ at \in {"openTrained", "openServed"} /\ ~server.ollama => Fits(sh)
          /\ Fits(given)

\* The start of a command.
LEMMA BeginKeepsFits ==
  ASSUME ContextTypeOK, FitsInv, NEW model \in Models \cup {None}, NEW ctx \in Pins \cup {None},
         UpBegin(model, ctx) \/ OpenBegin(model, ctx)
  PROVE  FitsInv'
<1>1. ~NoChoice.explicit /\ NoChoice.ctx = None BY DEF NoChoice
<1>2. CASE UpBegin(model, ctx)
  <2> DEFINE m == IF model = None THEN Pick(server, TRUE) ELSE model
  <2>1. CASE m = None BY <1>2, <2>1 DEF UpBegin, Command, FitsInv, Fits
  <2>2. CASE m # None
    <3>1. at' = "upTrained" /\ given' = NoChoice /\ measured' = None
      BY <1>2, <2>2 DEF UpBegin
    <3> QED BY <3>1 DEF FitsInv
  <2> QED BY <2>1, <2>2
<1>3. CASE OpenBegin(model, ctx)
  <2> DEFINE m == IF model = None THEN saved.model ELSE model
  <2>1. /\ at = "idle" /\ at' = "openTrained" /\ given' = NoChoice /\ server' = server
        /\ measured' = measured
    BY <1>3 DEF OpenBegin, Command
  <2>2. saved \in Choice BY DEF ContextTypeOK
  <2>3. CASE ctx = None
    <3>1. sh' = [saved EXCEPT !.model = m] /\ saved' = saved BY <1>3, <2>3 DEF OpenBegin
    <3> HIDE DEF m
    <3>2. sh'.model = m /\ sh'.ctx = saved.ctx /\ sh'.explicit = saved.explicit
      BY <2>2, <3>1 DEF Choice
    <3> QED BY <1>1, <2>1, <3>1, <3>2 DEF FitsInv, Fits
  <2>4. CASE ctx # None
    <3>1. /\ sh' = [model |-> m, ctx |-> ctx, explicit |-> TRUE]
          /\ saved' = [saved EXCEPT !.explicit = TRUE]
      BY <1>3, <2>4 DEF OpenBegin
    <3> HIDE DEF m
    <3>2. sh'.explicit /\ saved'.explicit BY <2>2, <3>1 DEF Choice
    <3> QED BY <1>1, <2>1, <3>1, <3>2 DEF FitsInv, Fits
  <2> QED BY <2>3, <2>4
<1> QED BY <1>2, <1>3

\* The questions.
LEMMA ProbesKeepFits ==
  ASSUME ContextTypeOK, FitsInv,
         \/ UpTrained \/ UpServed \/ OpenTrained
         \/ \E probe \in BOOLEAN, tokens \in FillerTokens : UpEffective(probe, tokens)
  PROVE  FitsInv'
<1>1. ~NoChoice.explicit /\ NoChoice.ctx = None BY DEF NoChoice
<1>2. server \in Servers /\ sh \in Choice /\ (at # "idle" => sh.model # None /\ sh.model \in Models)
  BY DEF ContextTypeOK, Choice
<1>3. at # "idle" => given = NoChoice BY DEF FitsInv
<1>4. CASE UpTrained
  <2>1. sh'.explicit = sh.explicit /\ (~sh.explicit => sh'.ctx = ContextWindow(server, sh.model))
    BY <1>2, <1>4 DEF UpTrained, Choice
  <2>2. /\ at = "upTrained" /\ at' = "upEffective" /\ measured = None
        /\ UNCHANGED <<server, saved, given, measured>>
    BY <1>4 DEF UpTrained, history, FitsInv
  <2>3. ~server.ollama => ContextWindow(server, sh.model) = None BY DEF ContextWindow
  <2> QED BY <1>3, <2>1, <2>2, <2>3 DEF FitsInv
<1>5. ASSUME NEW probe \in BOOLEAN, NEW tokens \in FillerTokens, UpEffective(probe, tokens)
      PROVE  FitsInv'
  <2>1. /\ at = "upEffective" /\ at' \in {"upServed", "upRecord"} /\ measured = None
        /\ UNCHANGED <<saved, given>>
    BY <1>5 DEF UpEffective, FitsInv
  <2>2. CASE probe /\ server.up
    <3> DEFINE counted == EffectiveContext(server, sh.model, tokens)
    <3>1. /\ server' = Load(server, sh.model) /\ measured' = sh.model /\ at' = "upServed"
          /\ sh' = [sh EXCEPT !.ctx = IF Truncates(counted) /\ ~sh.explicit THEN counted ELSE @]
      BY <1>5, <2>2 DEF UpEffective
    <3>2. counted <= server'.loaded[sh.model] BY <1>2, <2>1, <3>1, CountedFits
    <3>3. server'.loaded[sh.model] # None /\ server'.ollama = server.ollama BY <1>2, <2>1, <3>1, LoadType
    <3> HIDE DEF counted
    <3>4. sh'.explicit = sh.explicit /\ sh'.model = sh.model /\ sh'.ctx \in {sh.ctx, counted}
      BY <1>2, <3>1 DEF Choice
    <3>5. ~server.ollama /\ ~sh.explicit => sh.ctx = None BY <2>1 DEF FitsInv
    <3> QED BY <1>1, <1>3, <2>1, <3>1, <3>2, <3>3, <3>4, <3>5 DEF FitsInv, Fits
  <2>3. CASE ~(probe /\ server.up)
    <3>1. measured' = None BY <1>5, <2>1, <2>3 DEF UpEffective
    <3> QED BY <1>3, <2>1, <3>1 DEF FitsInv
  <2> QED BY <2>2, <2>3
<1>6. CASE UpServed
  <2>1. /\ at = "upServed" /\ at' = "upRecord" /\ sh' = Capped(sh)
        /\ measured' = IF server.up THEN measured ELSE None
        /\ UNCHANGED <<server, saved, given>>
    BY <1>6 DEF UpServed
  <2>2. /\ sh'.model = sh.model /\ sh'.explicit = sh.explicit
    BY <1>2, <2>1, CappedType
  <2>3. ASSUME measured' # None PROVE Fits(sh)'
    <3>1. server.up /\ measured = sh.model /\ measured' = measured BY <2>1, <2>3 DEF FitsInv
    <3>2. CASE server.ollama
      <4>1. server.loaded[sh.model] # None BY <2>3, <3>1 DEF FitsInv
      <4>2. sh'.ctx # None => sh.ctx # None BY <2>1 DEF Capped, Smaller
      <4>3. ~sh.explicit /\ sh'.ctx # None => sh'.ctx <= server.loaded[sh.model]
        BY <1>2, <2>1, <3>1, <3>2, <4>1, <4>2, CappedFits
      <4> QED BY <2>1, <2>2, <3>1, <4>3 DEF Fits
    <3>3. CASE ~server.ollama
      <4>1. ServedContext(server, sh.model) = None BY <3>3 DEF ServedContext
      <4>2. sh' = sh BY <2>1, <4>1 DEF Capped, Smaller
      <4>3. Fits(sh) BY <2>1, <2>3, <3>1, <3>3 DEF FitsInv
      <4> QED BY <2>1, <3>1, <4>2, <4>3 DEF Fits
    <3> QED BY <3>2, <3>3
  <2> QED BY <1>1, <1>3, <2>1, <2>2, <2>3 DEF FitsInv, Fits
<1>7. CASE OpenTrained
  <2>1. /\ at = "openTrained" /\ at' = "openServed"
        /\ UNCHANGED <<server, saved, given, measured>>
    BY <1>7 DEF OpenTrained, history
  <2>2. sh'.explicit = sh.explicit /\ sh'.model = sh.model
        /\ (~(server.up /\ server.ollama) => sh'.ctx = sh.ctx)
    BY <1>2, <1>7 DEF OpenTrained, ContextWindow, Choice
  <2> QED BY <1>1, <1>3, <2>1, <2>2 DEF FitsInv, Fits
<1> QED BY <1>4, <1>5, <1>6, <1>7

\* The ends, and the server's own steps.
LEMMA RestKeepsFits ==
  ASSUME ContextTypeOK, FitsInv,
         \/ UpRecord \/ OpenServed \/ Interrupted \/ Reachable
         \/ \E numCtx \in Windows : Restarts(numCtx)
         \/ \E m \in Models : Unloads(m)
         \/ UNCHANGED contextVars
  PROVE  FitsInv'
<1>1. ~NoChoice.explicit /\ NoChoice.ctx = None BY DEF NoChoice
<1>2. server \in Servers /\ sh \in Choice /\ (at # "idle" => sh.model # None /\ sh.model \in Models)
  BY DEF ContextTypeOK, Choice
<1>3. at # "idle" => given = NoChoice BY DEF FitsInv
<1>4. CASE UpRecord
  <2>1. /\ at = "upRecord" /\ at' = "idle" /\ saved' = sh
        /\ UNCHANGED <<server, given, measured>>
    BY <1>4 DEF UpRecord, history
  <2> QED BY <1>1, <1>3, <2>1 DEF FitsInv, Fits
<1>5. CASE OpenServed
  <2>1. /\ at = "openServed" /\ at' = "idle" /\ given' = Capped(sh) /\ saved' = Capped(sh)
        /\ server' = server
        /\ measured' # None => measured' = measured /\ (server.up \/ sh = saved)
    BY <1>5 DEF OpenServed
  <2>2. ASSUME measured' # None PROVE Fits(Capped(sh))
    <3>1. measured # None /\ server.loaded[measured] # None BY <2>1, <2>2 DEF FitsInv
    <3>2. CASE server.up /\ server.ollama
      BY <1>2, <2>1, <3>1, <3>2, CappedFits, CappedType DEF Fits
    <3>3. CASE ~(server.up /\ server.ollama)
      <4>1. Fits(sh) BY <2>1, <2>2, <3>1, <3>3 DEF FitsInv
      <4>2. Capped(sh) = sh BY <3>3 DEF Capped, Smaller, ServedContext
      <4> QED BY <4>1, <4>2
    <3> QED BY <3>2, <3>3
  <2>3. ASSUME measured' # None PROVE Fits(saved)' /\ Fits(given)'
    BY <2>1, <2>2, <2>3 DEF Fits
  <2>4. measured' # None => server'.loaded[measured'] # None BY <2>1 DEF FitsInv
  <2> QED BY <2>1, <2>3, <2>4 DEF FitsInv
<1>6. CASE Interrupted
  <2>1. /\ at # "idle" /\ at' = "idle" /\ UNCHANGED <<server, saved, given>>
        /\ measured' = IF at \in {"openTrained", "openServed"} THEN measured ELSE None
    BY <1>6 DEF Interrupted
  <2> QED BY <1>1, <1>3, <2>1 DEF FitsInv, Fits
<1>7. CASE Reachable
  <2>1. /\ UNCHANGED <<saved, at, sh, given, measured>>
        /\ server'.loaded = server.loaded /\ server'.ollama = server.ollama
    BY <1>2, <1>7 DEF Reachable, Servers, history
  <2> QED BY <1>3, <2>1 DEF FitsInv, Fits
<1>8. ASSUME NEW numCtx \in Windows, Restarts(numCtx) PROVE FitsInv'
  <2>1. /\ UNCHANGED <<saved, at, sh, given>> /\ measured' = None
        /\ server'.ollama = server.ollama
    BY <1>2, <1>8 DEF Restarts, Servers
  <2> QED BY <1>3, <2>1 DEF FitsInv
<1>9. ASSUME NEW m \in Models, Unloads(m) PROVE FitsInv'
  <2>1. /\ UNCHANGED <<saved, at, sh, given>>
        /\ measured' = IF measured = m THEN None ELSE measured
        /\ server'.ollama = server.ollama /\ server'.up = server.up
        /\ \A k \in Models : k # m => server'.loaded[k] = server.loaded[k]
    BY <1>2, <1>9 DEF Unloads, Servers
  <2>2. measured' # None => measured' = measured /\ measured \in Models
    BY <2>1 DEF ContextTypeOK
  <2> QED BY <1>3, <2>1, <2>2 DEF FitsInv, Fits
<1>10. CASE UNCHANGED contextVars BY <1>10 DEF contextVars, history, FitsInv, Fits
<1> QED BY <1>4, <1>5, <1>6, <1>7, <1>8, <1>9, <1>10

\* As long as the server is as up measured it, open hands a harness no window
\* larger than what that server serves.
THEOREM WindowAlwaysFits == ContextSpec => []WindowFits
<1>1. ContextInit => FitsInv
  BY DEF ContextInit, NoChoice, FitsInv, Fits
<1>2. ContextTypeOK /\ FitsInv /\ [ContextNext]_contextVars => FitsInv'
  BY BeginKeepsFits, ProbesKeepFits, RestKeepsFits, Zenon DEF ContextNext
<1>3. FitsInv => WindowFits BY DEF FitsInv, Fits, WindowFits
<1> QED BY <1>1, <1>2, <1>3, ContextTypes, PTL DEF ContextSpec

-----------------------------------------------------------------------------
(* The scope guard.                                                        *)

\* What is held while a file is read.
Scopes == [enforce : BOOLEAN, in_scope : SUBSET Patterns, out_of_scope : SUBSET Patterns,
           infra_allowlist : SUBSET Patterns, cur : ListKeys \cup {NoKey}]

\* A line makes a scope of a scope.
LEMMA LoadLineType ==
  ASSUME NEW scope \in Scopes, NEW line \in Lines
  PROVE  LoadLine(scope, line) \in Scopes
<1>1. CASE line \in [kind : {"comment"}] BY <1>1 DEF LoadLine
<1>2. CASE line \in [kind : {"item"}, pattern : Patterns]
  <2>1. LoadLine(scope, line) = IF scope.cur = NoKey THEN scope
                                ELSE [scope EXCEPT ![scope.cur] = @ \cup {line.pattern}]
    BY <1>2 DEF LoadLine
  <2>2. CASE scope.cur = NoKey BY <2>1, <2>2
  <2>3. CASE scope.cur = "in_scope" BY <1>2, <2>1, <2>3, ScopeAssumption DEF Scopes, ListKeys
  <2>4. CASE scope.cur = "out_of_scope" BY <1>2, <2>1, <2>4, ScopeAssumption DEF Scopes, ListKeys
  <2>5. CASE scope.cur = "infra_allowlist" BY <1>2, <2>1, <2>5, ScopeAssumption DEF Scopes, ListKeys
  <2> QED BY <2>2, <2>3, <2>4, <2>5 DEF Scopes, ListKeys
<1>3. CASE line \in [kind : {"key"}, key : STRING]
  <2>1. LoadLine(scope, line) = [scope EXCEPT !.cur = IF line.key \in ListKeys THEN line.key ELSE NoKey]
    BY <1>3 DEF LoadLine
  <2> QED BY <2>1 DEF Scopes
<1>4. CASE line \in [kind : {"inline"}, key : ListKeys, patterns : SUBSET Patterns]
  <2>1. LoadLine(scope, line) = [scope EXCEPT !.cur = NoKey, ![line.key] = line.patterns]
    BY <1>4 DEF LoadLine
  <2>2. CASE line.key = "in_scope" BY <1>4, <2>1, <2>2 DEF Scopes
  <2>3. CASE line.key = "out_of_scope" BY <1>4, <2>1, <2>3 DEF Scopes
  <2>4. CASE line.key = "infra_allowlist" BY <1>4, <2>1, <2>4 DEF Scopes
  <2> QED BY <1>4, <2>2, <2>3, <2>4 DEF ListKeys
<1>5. CASE line \in [kind : {"scalar"}, key : STRING \ ListKeys, value : BOOLEAN]
  <2>1. LoadLine(scope, line) = [scope EXCEPT !.cur = NoKey,
                                    !.enforce = IF line.key = "enforce" THEN line.value ELSE @]
    BY <1>5 DEF LoadLine
  <2> QED BY <1>5, <2>1 DEF Scopes
<1> QED BY <1>1, <1>2, <1>3, <1>4, <1>5 DEF Lines

\* The scopes after each line are defined, one by one.
LEMMA LoadingSteps ==
  ASSUME NEW lines \in Seq(Lines)
  PROVE  /\ Loading(lines) \in [0 .. Len(lines) -> Scopes]
         /\ Loading(lines)[0] = Default
         /\ \A i \in 1 .. Len(lines) : Loading(lines)[i] = LoadLine(Loading(lines)[i - 1], lines[i])
<1> DEFINE N == Len(lines)
           step == [i \in 1 .. N |-> [s \in Scopes |-> LoadLine(s, lines[i])]]
           Fix(f) == f = [i \in 0 .. N |-> IF i = 0 THEN Default ELSE LoadLine(f[i - 1], lines[i])]
<1>1. N \in Nat /\ \A i \in 1 .. N : lines[i] \in Lines OBVIOUS
<1>2. Default \in Scopes BY DEF Default, Scopes
<1>3. step \in [1 .. N -> [Scopes -> Scopes]] BY <1>1, LoadLineType
<1>4. PICK s \in [0 .. N -> Scopes] : Iterates(s, N, Default, step)
  <2> HIDE DEF N, step
  <2> QED BY <1>1, <1>2, <1>3, Iteration
<1>5. \A i \in 1 .. N : s[i - 1] \in Scopes /\ s[i] = LoadLine(s[i - 1], lines[i])
  <2> TAKE i \in 1 .. N
  <2>1. i - 1 \in 0 .. N BY <1>1
  <2>2. s[i - 1] \in Scopes BY <2>1
  <2> QED BY <1>4, <2>2 DEF Iterates
<1>6. Fix(s)
  <2>1. s = [i \in 0 .. N |-> s[i]] OBVIOUS
  <2>2. \A i \in 0 .. N : s[i] = IF i = 0 THEN Default ELSE LoadLine(s[i - 1], lines[i])
    BY <1>1, <1>4, <1>5 DEF Iterates
  <2> QED BY <2>1, <2>2
<1>7. Loading(lines) = CHOOSE f : Fix(f) BY DEF Loading
<1>8. Fix(Loading(lines))
  <2> HIDE DEF Fix
  <2> QED BY <1>6, <1>7
<1> HIDE DEF N
<1>9. /\ DOMAIN Loading(lines) = 0 .. N
      /\ \A i \in 0 .. N : Loading(lines)[i] = IF i = 0 THEN Default
                                                ELSE LoadLine(Loading(lines)[i - 1], lines[i])
      /\ Loading(lines) = [i \in 0 .. N |-> Loading(lines)[i]]
  BY <1>8
<1> DEFINE T == {i \in 0 .. N : Loading(lines)[i] \in Scopes}
<1>10. 0 \in T BY <1>1, <1>2, <1>9
<1>11. ASSUME NEW k \in 0 .. N, k \in T, k < N PROVE k + 1 \in T
  <2>1. k + 1 \in 0 .. N /\ k + 1 \in 1 .. N /\ k + 1 # 0 /\ k + 1 - 1 = k BY <1>1, <1>11
  <2>2. Loading(lines)[k + 1] = LoadLine(Loading(lines)[k], lines[k + 1])
    <3>1. \A i \in 0 .. N : i # 0 => Loading(lines)[i] = LoadLine(Loading(lines)[i - 1], lines[i])
      BY <1>9
    <3> HIDE DEF N
    <3> QED BY <2>1, <3>1
  <2> QED BY <1>1, <1>11, <2>1, <2>2, LoadLineType DEF N
<1>12. \A i \in 0 .. N : i \in T
  <2> HIDE DEF T
  <2> QED BY <1>1, <1>10, <1>11, Induction
<1>13. DOMAIN Loading(lines) = 0 .. N /\ \A i \in 0 .. N : Loading(lines)[i] \in Scopes
  BY <1>9, <1>12
<1>14. Loading(lines) \in [0 .. N -> Scopes]
  <2>1. Loading(lines) = [i \in 0 .. N |-> Loading(lines)[i]] BY <1>9
  <2> QED BY <1>13, <2>1
<1>15. 0 \in 0 .. N /\ \A i \in 1 .. N : i \in 0 .. N /\ i # 0 BY <1>1
<1>16. \A i \in 0 .. N : Loading(lines)[i] = IF i = 0 THEN Default
                                               ELSE LoadLine(Loading(lines)[i - 1], lines[i])
  BY <1>9
<1>17. Loading(lines)[0] = Default BY <1>15, <1>16
<1>18. \A i \in 1 .. N : Loading(lines)[i] = LoadLine(Loading(lines)[i - 1], lines[i]) BY <1>15, <1>16
<1> QED BY <1>14, <1>17, <1>18 DEF N

\* A key that stands in the first n lines.
Seen(lines, n, key) ==
    \E i \in 1 .. n : lines[i].kind \in {"key", "inline", "scalar"} /\ lines[i].key = key

\* What lists something, or is about to, has had its key.
SeenWhatIsListed(lines, n) ==
    LET scope == Loading(lines)[n] IN
    /\ scope.in_scope # {} \/ scope.cur = "in_scope" => Seen(lines, n, "in_scope")
    /\ scope.infra_allowlist # {} \/ scope.cur = "infra_allowlist" => Seen(lines, n, "infra_allowlist")
    /\ ~scope.enforce => Seen(lines, n, "enforce")

\* No list of the one has what is not in the other, nor is enforcement off in the
\* one alone.
Below(scope, other) ==
    /\ scope.in_scope \subseteq other.in_scope
    /\ scope.infra_allowlist \subseteq other.infra_allowlist
    /\ ~scope.enforce => ~other.enforce

\* What one line does to the two lists and to enforcement.
LEMMA LoadLineCases ==
  ASSUME NEW s \in Scopes, NEW line \in Lines
  PROVE  LET t == LoadLine(s, line)
             key == IF line.kind \in {"key", "inline", "scalar"} THEN line.key ELSE ""
         IN  /\ key # "in_scope" => s.in_scope \subseteq t.in_scope
             /\ key # "infra_allowlist" => s.infra_allowlist \subseteq t.infra_allowlist
             /\ key # "enforce" => t.enforce = s.enforce
             /\ t.cur = "in_scope" => s.cur = "in_scope" \/ key = "in_scope"
             /\ t.cur = "infra_allowlist" => s.cur = "infra_allowlist" \/ key = "infra_allowlist"
             /\ t.in_scope # {} => s.in_scope # {} \/ s.cur = "in_scope" \/ key = "in_scope"
             /\ t.infra_allowlist # {} =>
                   s.infra_allowlist # {} \/ s.cur = "infra_allowlist" \/ key = "infra_allowlist"
<1>1. CASE line \in [kind : {"comment"}] BY <1>1 DEF LoadLine
<1>2. CASE line \in [kind : {"item"}, pattern : Patterns]
  <2>1. LoadLine(s, line) = IF s.cur = NoKey THEN s
                            ELSE [s EXCEPT ![s.cur] = @ \cup {line.pattern}]
    BY <1>2 DEF LoadLine
  <2>2. CASE s.cur = NoKey BY <1>2, <2>1, <2>2
  <2>3. CASE s.cur = "in_scope" BY <1>2, <2>1, <2>3, ScopeAssumption DEF Scopes, ListKeys
  <2>4. CASE s.cur = "out_of_scope" BY <1>2, <2>1, <2>4, ScopeAssumption DEF Scopes, ListKeys
  <2>5. CASE s.cur = "infra_allowlist" BY <1>2, <2>1, <2>5, ScopeAssumption DEF Scopes, ListKeys
  <2> QED BY <2>2, <2>3, <2>4, <2>5 DEF Scopes, ListKeys
<1>3. CASE line \in [kind : {"key"}, key : STRING]
  <2>1. LoadLine(s, line) = [s EXCEPT !.cur = IF line.key \in ListKeys THEN line.key ELSE NoKey]
    BY <1>3 DEF LoadLine
  <2> QED BY <1>3, <2>1, ScopeAssumption DEF Scopes, ListKeys
<1>4. CASE line \in [kind : {"inline"}, key : ListKeys, patterns : SUBSET Patterns]
  <2>1. LoadLine(s, line) = [s EXCEPT !.cur = NoKey, ![line.key] = line.patterns]
    BY <1>4 DEF LoadLine
  <2>2. CASE line.key = "in_scope" BY <1>4, <2>1, <2>2, ScopeAssumption DEF Scopes, ListKeys
  <2>3. CASE line.key = "out_of_scope" BY <1>4, <2>1, <2>3, ScopeAssumption DEF Scopes, ListKeys
  <2>4. CASE line.key = "infra_allowlist" BY <1>4, <2>1, <2>4, ScopeAssumption DEF Scopes, ListKeys
  <2> QED BY <1>4, <2>2, <2>3, <2>4 DEF ListKeys
<1>5. CASE line \in [kind : {"scalar"}, key : STRING \ ListKeys, value : BOOLEAN]
  <2>1. LoadLine(s, line) = [s EXCEPT !.cur = NoKey,
                                !.enforce = IF line.key = "enforce" THEN line.value ELSE @]
    BY <1>5 DEF LoadLine
  <2> QED BY <1>5, <2>1, ScopeAssumption DEF Scopes, ListKeys
<1> QED BY <1>1, <1>2, <1>3, <1>4, <1>5 DEF Lines

\* With each key once a line takes nothing back.
LEMMA EachLineAdds ==
  ASSUME NEW lines \in Seq(Lines), KeysOnce(lines), NEW n \in 0 .. Len(lines)
  PROVE  /\ SeenWhatIsListed(lines, n)
         /\ n < Len(lines) => Below(Loading(lines)[n], Loading(lines)[n + 1])
<1> DEFINE N == Len(lines)
           L == Loading(lines)
           key(i) == IF lines[i].kind \in {"key", "inline", "scalar"} THEN lines[i].key ELSE ""
           T == {k \in 0 .. N : SeenWhatIsListed(lines, k)}
<1>1. N \in Nat /\ \A i \in 1 .. N : lines[i] \in Lines OBVIOUS
<1>2. \A k \in 0 .. N : L[k] \in Scopes BY LoadingSteps
<1>3. ASSUME NEW k \in 0 .. N, k < N
      PROVE  k + 1 \in 1 .. N /\ L[k + 1] = LoadLine(L[k], lines[k + 1])
  <2>1. k + 1 \in 1 .. N /\ k + 1 - 1 = k BY <1>1, <1>3
  <2>2. L[k + 1] = LoadLine(L[k + 1 - 1], lines[k + 1]) BY <2>1, LoadingSteps
  <2> QED BY <2>1, <2>2
<1>4. ASSUME NEW k \in 0 .. N, k < N, NEW name \in {"in_scope", "infra_allowlist", "enforce"}
      PROVE  /\ Seen(lines, k, name) => Seen(lines, k + 1, name) /\ key(k + 1) # name
             /\ key(k + 1) = name => Seen(lines, k + 1, name)
  <2>1. k \in Nat /\ k + 1 \in 1 .. N BY <1>1, <1>4
  <2>2. \A i \in 1 .. k : i \in 1 .. k + 1 /\ i \in DOMAIN lines /\ i # k + 1 BY <1>1, <1>4, <2>1
  <2>3. k + 1 \in 1 .. k + 1 /\ k + 1 \in DOMAIN lines BY <1>1, <2>1
  <2>4. ASSUME Seen(lines, k, name), key(k + 1) = name PROVE FALSE
    <3>1. PICK i \in 1 .. k : lines[i].kind \in {"key", "inline", "scalar"} /\ lines[i].key = name
      BY <2>4 DEF Seen
    <3>2. lines[k + 1].kind \in {"key", "inline", "scalar"} /\ lines[k + 1].key = name BY <2>4
    <3> QED BY <2>2, <2>3, <3>1, <3>2 DEF KeysOnce
  <2>5. Seen(lines, k, name) => Seen(lines, k + 1, name) BY <2>2 DEF Seen
  <2>6. key(k + 1) = name => Seen(lines, k + 1, name)
    <3> SUFFICES ASSUME key(k + 1) = name PROVE Seen(lines, k + 1, name) OBVIOUS
    <3>1. lines[k + 1].kind \in {"key", "inline", "scalar"} /\ lines[k + 1].key = name OBVIOUS
    <3> QED BY <2>3, <3>1 DEF Seen
  <2> QED BY <2>4, <2>5, <2>6
<1>5. ASSUME NEW k \in 0 .. N, k < N, SeenWhatIsListed(lines, k)
      PROVE  SeenWhatIsListed(lines, k + 1) /\ Below(L[k], L[k + 1])
  <2>1. L[k] \in Scopes /\ lines[k + 1] \in Lines /\ L[k + 1] = LoadLine(L[k], lines[k + 1])
    BY <1>1, <1>2, <1>3, <1>5
  <2> DEFINE s == L[k]
             t == L[k + 1]
             w == key(k + 1)
  <2>2. /\ w # "in_scope" => s.in_scope \subseteq t.in_scope
        /\ w # "infra_allowlist" => s.infra_allowlist \subseteq t.infra_allowlist
        /\ w # "enforce" => t.enforce = s.enforce
        /\ t.cur = "in_scope" => s.cur = "in_scope" \/ w = "in_scope"
        /\ t.cur = "infra_allowlist" => s.cur = "infra_allowlist" \/ w = "infra_allowlist"
        /\ t.in_scope # {} => s.in_scope # {} \/ s.cur = "in_scope" \/ w = "in_scope"
        /\ t.infra_allowlist # {} =>
              s.infra_allowlist # {} \/ s.cur = "infra_allowlist" \/ w = "infra_allowlist"
    BY <2>1, LoadLineCases
  <2>3. /\ s.in_scope # {} \/ s.cur = "in_scope" => Seen(lines, k, "in_scope")
        /\ s.infra_allowlist # {} \/ s.cur = "infra_allowlist" => Seen(lines, k, "infra_allowlist")
        /\ ~s.enforce => Seen(lines, k, "enforce")
    BY <1>5 DEF SeenWhatIsListed
  <2>4. \A name \in {"in_scope", "infra_allowlist", "enforce"} :
           /\ Seen(lines, k, name) => Seen(lines, k + 1, name) /\ w # name
           /\ w = name => Seen(lines, k + 1, name)
    BY <1>4, <1>5
  <2> HIDE DEF s, t, w
  <2>5. /\ t.in_scope # {} \/ t.cur = "in_scope" => Seen(lines, k + 1, "in_scope")
        /\ t.infra_allowlist # {} \/ t.cur = "infra_allowlist" => Seen(lines, k + 1, "infra_allowlist")
        /\ ~t.enforce => Seen(lines, k + 1, "enforce")
    BY <2>2, <2>3, <2>4
  <2>6. Below(s, t) BY <2>2, <2>3, <2>4 DEF Below
  <2> QED BY <2>5, <2>6 DEF SeenWhatIsListed, s, t
<1>6. 0 \in T
  <2>1. L[0] = Default BY LoadingSteps
  <2>2. SeenWhatIsListed(lines, 0) BY <2>1, ScopeAssumption DEF SeenWhatIsListed, Default, ListKeys
  <2> QED BY <1>1, <2>2
<1>7. ASSUME NEW k \in 0 .. N, k \in T, k < N PROVE k + 1 \in T BY <1>1, <1>5, <1>7
<1>8. \A k \in 0 .. N : k \in T
  <2> HIDE DEF T, N
  <2> QED BY <1>1, <1>6, <1>7, Induction
<1> QED BY <1>5, <1>8

\* So the whole lists all that its first lines list.
LEMMA PartBelowWhole ==
  ASSUME NEW lines \in Seq(Lines), KeysOnce(lines), NEW n \in 0 .. Len(lines)
  PROVE  Below(Loading(lines)[n], load_scope(lines))
<1> DEFINE N == Len(lines)
           L == Loading(lines)
           T == {d \in 0 .. N - n : Below(L[n], L[n + d])}
<1>1. N \in Nat /\ N - n \in Nat /\ n \in Nat OBVIOUS
<1>2. 0 \in T
  <2>1. n + 0 = n /\ Below(L[n], L[n]) BY DEF Below
  <2> QED BY <1>1, <2>1
<1>3. ASSUME NEW d \in 0 .. N - n, d \in T, d < N - n PROVE d + 1 \in T
  <2>1. n + d \in 0 .. N /\ n + d < N /\ n + (d + 1) = n + d + 1 /\ d + 1 \in 0 .. N - n BY <1>1, <1>3
  <2>2. Below(L[n + d], L[n + d + 1]) BY <2>1, EachLineAdds
  <2>3. Below(L[n], L[n + d]) BY <1>3
  <2> HIDE DEF L
  <2>4. Below(L[n], L[n + d + 1]) BY <2>2, <2>3 DEF Below
  <2> QED BY <2>1, <2>4
<1>4. \A d \in 0 .. N - n : d \in T
  <2> HIDE DEF T, N
  <2> QED BY <1>1, <1>2, <1>3, Induction
<1>5. N - n \in 0 .. N - n /\ n + (N - n) = N BY <1>1
<1> QED BY <1>4, <1>5 DEF load_scope

\* A part of the file is loaded as the whole file was after as many lines.
LEMMA PartLoadsAlike ==
  ASSUME NEW lines \in Seq(Lines), NEW part \in Seq(Lines), Len(part) <= Len(lines),
         \A i \in 1 .. Len(part) : part[i] = lines[i]
  PROVE  load_scope(part) = Loading(lines)[Len(part)]
<1> DEFINE N == Len(part)
           T == {k \in 0 .. N : Loading(part)[k] = Loading(lines)[k]}
<1>1. N \in Nat /\ Len(lines) \in Nat OBVIOUS
<1>2. 0 \in T BY <1>1, LoadingSteps
<1>3. ASSUME NEW k \in 0 .. N, k \in T, k < N PROVE k + 1 \in T
  <2>1. /\ k + 1 \in 0 .. N /\ k + 1 \in 1 .. N /\ k + 1 \in 1 .. Len(lines)
        /\ k + 1 - 1 = k
    BY <1>1, <1>3
  <2>2. Loading(part)[k + 1] = LoadLine(Loading(part)[k + 1 - 1], part[k + 1])
    BY <2>1, LoadingSteps
  <2>3. Loading(lines)[k + 1] = LoadLine(Loading(lines)[k + 1 - 1], lines[k + 1])
    BY <2>1, LoadingSteps
  <2> QED BY <1>3, <2>1, <2>2, <2>3
<1>4. \A k \in 0 .. N : k \in T
  <2> HIDE DEF T, N
  <2> QED BY <1>1, <1>2, <1>3, Induction
<1>5. N \in 0 .. N BY <1>1
<1> QED BY <1>4, <1>5 DEF load_scope

\* A scope lists nothing that another does not, but for some patterns.
Within(scope, other, patterns) ==
    /\ scope.in_scope \subseteq other.in_scope \cup patterns
    /\ scope.infra_allowlist \subseteq other.infra_allowlist \cup patterns
    /\ ~scope.enforce => ~other.enforce

\* What can come of a line is a line, and turns no enforcement off.
LEMMA CutsAreLines ==
  ASSUME NEW line \in Lines, NEW c \in Cuts(line)
  PROVE  /\ c \in Lines
         /\ c.kind = "scalar" => c.value
<1>1. \A p \in Patterns : Beginnings(p) \subseteq Patterns
  <2> TAKE p \in Patterns
  <2>1. p.wild \in BOOLEAN /\ p.labels \in Seq(STRING) BY DEF Patterns
  <2>2. ASSUME NEW k \in DOMAIN p.labels, NEW l \in STRING
        PROVE  <<l>> \o SubSeq(p.labels, k + 1, Len(p.labels)) \in Seq(STRING)
    <3>1. k \in 1 .. Len(p.labels) /\ Len(p.labels) \in Nat BY <2>1
    <3>2. SubSeq(p.labels, k + 1, Len(p.labels)) \in Seq(STRING) BY <2>1, <3>1
    <3> QED BY <3>2
  <2>3. \A k \in DOMAIN p.labels : p.labels[k] \in STRING BY <2>1
  <2>4. \A t \in Shorter : t[2] \in STRING BY ScopeAssumption
  <2> DEFINE heads(k) == {p.labels[k]} \cup {s[2] : s \in {t \in Shorter : t[1] = p.labels[k]}}
             from(k) == {<<l>> \o SubSeq(p.labels, k + 1, Len(p.labels)) : l \in heads(k)}
             all == UNION {from(k) : k \in DOMAIN p.labels}
  <2>5. \A k \in DOMAIN p.labels : heads(k) \subseteq STRING BY <2>3, <2>4
  <2>6. all \subseteq Seq(STRING)
    <3> HIDE DEF heads
    <3>1. \A k \in DOMAIN p.labels : from(k) \subseteq Seq(STRING) BY <2>2, <2>5
    <3> HIDE DEF from
    <3> QED BY <3>1
  <2>7. Beginnings(p) = {[wild |-> p.wild, labels |-> l] : l \in all}
                        \cup IF p.wild THEN {[wild |-> TRUE, labels |-> <<>>]} ELSE {}
    BY DEF Beginnings
  <2>8. <<>> \in Seq(STRING) OBVIOUS
  <2>9. ASSUME NEW b \in Beginnings(p) PROVE b \in Patterns
    <3> HIDE DEF all
    <3>1. (\E l \in all : b = [wild |-> p.wild, labels |-> l]) \/ b = [wild |-> TRUE, labels |-> <<>>]
      BY <2>7
    <3>2. ASSUME NEW w \in BOOLEAN, NEW l \in Seq(STRING)
          PROVE  [wild |-> w, labels |-> l] \in Patterns
      BY DEF Patterns
    <3> QED BY <2>1, <2>6, <2>8, <3>1, <3>2
  <2> QED BY <2>9
<1>2. CASE c = Comment BY <1>2 DEF Comment, Lines
<1>3. CASE line \in [kind : {"comment"}] \cup [kind : {"key"}, key : STRING]
  BY <1>2, <1>3 DEF Cuts
<1>4. CASE line \in [kind : {"item"}, pattern : Patterns]
  <2>1. Cuts(line) = {Comment} \cup {[line EXCEPT !.pattern = p] : p \in Beginnings(line.pattern)}
    BY <1>4 DEF Cuts
  <2>2. ASSUME NEW p \in Beginnings(line.pattern)
        PROVE  [line EXCEPT !.pattern = p] \in [kind : {"item"}, pattern : Patterns]
    BY <1>1, <1>4
  <2>3. \A d \in [kind : {"item"}, pattern : Patterns] : d.kind = "item" OBVIOUS
  <2> QED BY <1>2, <2>1, <2>2, <2>3 DEF Lines
<1>5. CASE line \in [kind : {"inline"}, key : ListKeys, patterns : SUBSET Patterns]
  <2> DEFINE I == [kind : {"inline"}, key : ListKeys, patterns : SUBSET Patterns]
             single == {p \in line.patterns : line.patterns = {p}}
             begun == UNION {Beginnings(q) : q \in single}
  <2>1. Cuts(line) = {Comment} \cup ({[line EXCEPT !.patterns = {}]}
                                     \cup {[line EXCEPT !.patterns = {p}] : p \in begun})
    BY <1>5 DEF Cuts
  <2>2. begun \subseteq Patterns
    <3>1. single \subseteq Patterns BY <1>5
    <3> HIDE DEF single
    <3> QED BY <1>1, <3>1
  <2>4. [line EXCEPT !.patterns = {}] \in I /\ \A p \in Patterns : [line EXCEPT !.patterns = {p}] \in I
    BY <1>5
  <2>5. \A d \in I : d.kind = "inline" OBVIOUS
  <2> HIDE DEF begun
  <2>7. c = Comment \/ c \in I BY <2>1, <2>2, <2>4
  <2> QED BY <1>2, <2>5, <2>7 DEF Lines
<1>6. CASE line \in [kind : {"scalar"}, key : STRING \ ListKeys, value : BOOLEAN]
  <2>1. Cuts(line) = {Comment} \cup {[line EXCEPT !.value = TRUE]}
    BY <1>6 DEF Cuts
  <2>2. CASE c = [line EXCEPT !.value = TRUE]
    <3>1. c \in [kind : {"scalar"}, key : STRING \ ListKeys, value : BOOLEAN] /\ c.value
      BY <1>6, <2>2
    <3> QED BY <3>1 DEF Lines
  <2> QED BY <1>2, <2>1, <2>2
<1> QED BY <1>3, <1>4, <1>5, <1>6 DEF Lines

\* A line that was cut adds no more than the patterns that it lists.
LEMMA CutAdds ==
  ASSUME NEW s \in Scopes, NEW line \in Lines, NEW c \in Cuts(line)
  PROVE  Within(LoadLine(s, c), s, CutPatterns(<<c>>))
<1>0. c \in Lines /\ (c.kind = "scalar" => c.value) BY CutsAreLines
<1>1. CutPatterns(<<c>>) = CASE c.kind = "item"   -> {c.pattern}
                        [] c.kind = "inline" -> c.patterns
                        [] OTHER             -> {}
  <2>1. DOMAIN <<c>> = {1} /\ <<c>>[1] = c OBVIOUS
  <2> QED BY <2>1 DEF CutPatterns
<1>2. CASE c \in [kind : {"comment"}] BY <1>2 DEF LoadLine, Within
<1>3. CASE c \in [kind : {"item"}, pattern : Patterns]
  <2>1. LoadLine(s, c) = IF s.cur = NoKey THEN s ELSE [s EXCEPT ![s.cur] = @ \cup {c.pattern}]
    BY <1>3 DEF LoadLine
  <2>2. CutPatterns(<<c>>) = {c.pattern} BY <1>1, <1>3
  <2>3. CASE s.cur = NoKey BY <2>1, <2>3 DEF Within
  <2>4. CASE s.cur = "in_scope" BY <2>1, <2>2, <2>4, ScopeAssumption DEF Within, Scopes, ListKeys
  <2>5. CASE s.cur = "out_of_scope" BY <2>1, <2>2, <2>5, ScopeAssumption DEF Within, Scopes, ListKeys
  <2>6. CASE s.cur = "infra_allowlist" BY <2>1, <2>2, <2>6, ScopeAssumption DEF Within, Scopes, ListKeys
  <2> QED BY <2>3, <2>4, <2>5, <2>6 DEF Scopes, ListKeys
<1>4. CASE c \in [kind : {"key"}, key : STRING]
  <2>1. LoadLine(s, c) = [s EXCEPT !.cur = IF c.key \in ListKeys THEN c.key ELSE NoKey]
    BY <1>4 DEF LoadLine
  <2> QED BY <2>1 DEF Within, Scopes
<1>5. CASE c \in [kind : {"inline"}, key : ListKeys, patterns : SUBSET Patterns]
  <2>1. LoadLine(s, c) = [s EXCEPT !.cur = NoKey, ![c.key] = c.patterns] BY <1>5 DEF LoadLine
  <2>2. CutPatterns(<<c>>) = c.patterns BY <1>1, <1>5
  <2>3. CASE c.key = "in_scope" BY <2>1, <2>2, <2>3 DEF Within, Scopes
  <2>4. CASE c.key = "out_of_scope" BY <2>1, <2>2, <2>4 DEF Within, Scopes
  <2>5. CASE c.key = "infra_allowlist" BY <2>1, <2>2, <2>5 DEF Within, Scopes
  <2> QED BY <1>5, <2>3, <2>4, <2>5 DEF ListKeys
<1>6. CASE c \in [kind : {"scalar"}, key : STRING \ ListKeys, value : BOOLEAN]
  <2>1. LoadLine(s, c) = [s EXCEPT !.cur = NoKey,
                              !.enforce = IF c.key = "enforce" THEN c.value ELSE @]
    BY <1>6 DEF LoadLine
  <2>2. c.value = TRUE BY <1>0, <1>6
  <2> QED BY <2>1, <2>2 DEF Within, Scopes
<1> QED BY <1>0, <1>2, <1>3, <1>4, <1>5, <1>6 DEF Lines

\* A part of the file and a line behind it are loaded one after the other.
LEMMA LastLineLoads ==
  ASSUME NEW part \in Seq(Lines), NEW c \in Lines
  PROVE  load_scope(part \o <<c>>) = LoadLine(load_scope(part), c)
<1> DEFINE more == part \o <<c>>
           N == Len(part)
<1>1. /\ more \in Seq(Lines) /\ Len(more) = N + 1 /\ N \in Nat /\ more[N + 1] = c
      /\ \A i \in 1 .. N : part[i] = more[i]
  OBVIOUS
<1>2. load_scope(part) = Loading(more)[N]
  <2>1. Len(part) <= Len(more) BY <1>1
  <2> HIDE DEF more
  <2> QED BY <1>1, <2>1, PartLoadsAlike
<1>3. Loading(more)[N + 1] = LoadLine(Loading(more)[N + 1 - 1], more[N + 1])
  <2>1. N + 1 \in 1 .. Len(more) BY <1>1
  <2> HIDE DEF more, N
  <2> QED BY <1>1, <2>1, LoadingSteps
<1>4. load_scope(more) = Loading(more)[N + 1] BY <1>1 DEF load_scope
<1>5. N + 1 - 1 = N BY <1>1
<1> QED BY <1>1, <1>2, <1>3, <1>4, <1>5

\* What a scope lets through, the other lists, or those patterns match it.
LEMMA AllowedIsListed ==
  ASSUME NEW scope, NEW whole, NEW patterns, Within(scope, whole, patterns), whole.enforce,
         NEW payload, payload.parsed, evaluate(payload, scope),
         NEW h \in extract_hosts(payload.names)
  PROVE  matches_any(h, whole.in_scope \cup whole.infra_allowlist \cup patterns)
<1>1. scope.enforce BY DEF Within
<1>2. matches_any(h, scope.in_scope) \/ matches_any(h, scope.infra_allowlist)
  BY <1>1 DEF evaluate
<1> QED BY <1>2 DEF matches_any, Within

\* The hook has seen the first lines of what the user saves, and judged by them
\* and by a line that was cut.
GuardInv ==
    /\ text \in Seq(Lines) /\ file \in Seq(Lines)
    /\ Len(file) <= Len(text) /\ \A i \in 1 .. Len(file) : file[i] = text[i]
    /\ verdict.allowed =>
          \E n \in 0 .. Len(text), scope \in Scopes :
              /\ evaluate(verdict.payload, scope)
              /\ Within(scope, Loading(text)[n], CutPatterns(verdict.cut))

\* What the hook has read, and what it made of it.
LEMMA HookReads ==
  ASSUME GuardInv, NEW seen \in {<<>>} \cup {<<c>> : c \in NextLine}
  PROVE  /\ load_scope(file \o seen) \in Scopes
         /\ Within(load_scope(file \o seen), Loading(text)[Len(file)], CutPatterns(seen))
<1>1. /\ text \in Seq(Lines) /\ file \in Seq(Lines) /\ Len(file) \in Nat /\ Len(text) \in Nat
      /\ Len(file) \in 0 .. Len(text)
      /\ \A i \in 1 .. Len(file) : file[i] = text[i]
  BY DEF GuardInv
<1>2. load_scope(file) = Loading(text)[Len(file)] BY <1>1, PartLoadsAlike
<1>3. Loading(text)[Len(file)] \in Scopes BY <1>1, LoadingSteps
<1>4. CASE seen = <<>>
  <2>1. file \o seen = file BY <1>1, <1>4
  <2> QED BY <1>2, <1>3, <2>1 DEF Within
<1>5. CASE seen # <<>>
  <2>1. PICK c \in NextLine : seen = <<c>> BY <1>5
  <2>2. Len(file) < Len(text) /\ c \in Cuts(text[Len(file) + 1]) BY <2>1 DEF NextLine
  <2>3. text[Len(file) + 1] \in Lines
    <3>1. Len(file) + 1 \in 1 .. Len(text) BY <1>1, <2>2
    <3> QED BY <1>1, <3>1
  <2>4. c \in Lines BY <2>2, <2>3, CutsAreLines
  <2>5. load_scope(file \o <<c>>) = LoadLine(Loading(text)[Len(file)], c)
    BY <1>1, <1>2, <2>4, LastLineLoads
  <2>6. LoadLine(Loading(text)[Len(file)], c) \in Scopes BY <1>3, <2>4, LoadLineType
  <2> QED BY <1>3, <2>1, <2>2, <2>3, <2>5, <2>6, CutAdds
<1> QED BY <1>4, <1>5

\* A call of the hook lets a host through only if the whole file lists it or
\* turns enforcement off, whatever part of the file had been written by then, or
\* if the read ended inside a pattern and what had come of it matches the host.
THEOREM GuardFailsSafe == GuardSpec => []FailsSafe
<1>1. GuardInit => GuardInv
  BY DEF GuardInit, GuardInv, NoVerdict
<1>2. GuardInv /\ [GuardNext]_guardVars => GuardInv'
  <2> SUFFICES ASSUME GuardInv, [GuardNext]_guardVars PROVE GuardInv' OBVIOUS
  <2>1. ASSUME NEW lines \in ScopeFiles, Save(lines) PROVE GuardInv'
    <3>1. lines \in Seq(Lines) /\ Len(lines) \in Nat BY ScopeAssumption
    <3> QED BY <2>1, <3>1 DEF Save, GuardInv, NoVerdict
  <2>2. CASE WriteLine
    <3>1. /\ Len(file) < Len(text) /\ file' = Append(file, text[Len(file) + 1])
          /\ UNCHANGED <<text, verdict>>
      BY <2>2 DEF WriteLine
    <3>2. Len(file) \in Nat /\ Len(text) \in Nat /\ file \in Seq(Lines) /\ text \in Seq(Lines)
      BY DEF GuardInv
    <3>3. Len(file) + 1 \in 1 .. Len(text) /\ text[Len(file) + 1] \in Lines BY <3>1, <3>2
    <3>4. /\ file' \in Seq(Lines) /\ Len(file') = Len(file) + 1
          /\ file'[Len(file) + 1] = text[Len(file) + 1]
          /\ \A i \in 1 .. Len(file) : file'[i] = file[i]
      BY <3>1, <3>2, <3>3
    <3>5. \A i \in 1 .. Len(file') : i \in 1 .. Len(file) \/ i = Len(file) + 1 BY <3>2, <3>4
    <3>6. \A i \in 1 .. Len(file') : file'[i] = text[i] BY <3>4, <3>5 DEF GuardInv
    <3>7. Len(file') <= Len(text) BY <3>2, <3>3, <3>4
    <3> QED BY <3>1, <3>4, <3>6, <3>7 DEF GuardInv
  <2>3. ASSUME NEW payload \in Payloads, NEW seen \in {<<>>} \cup {<<c>> : c \in NextLine},
               Hook(payload, seen)
        PROVE  GuardInv'
    <3> DEFINE scope == load_scope(file \o seen)
    <3>1. /\ verdict' = [payload |-> payload, cut |-> seen, allowed |-> evaluate(payload, scope)]
          /\ UNCHANGED <<text, file>>
      BY <2>3 DEF Hook
    <3>2. scope \in Scopes /\ Within(scope, Loading(text)[Len(file)], CutPatterns(seen)) BY HookReads
    <3> HIDE DEF scope
    <3>3. Len(file) \in 0 .. Len(text) BY DEF GuardInv
    <3>4. /\ verdict'.payload = payload /\ verdict'.cut = seen
          /\ verdict'.allowed <=> evaluate(payload, scope)
      BY <3>1 DEF evaluate
    <3> QED BY <3>1, <3>2, <3>3, <3>4 DEF GuardInv
  <2>4. CASE UNCHANGED guardVars BY <2>4 DEF guardVars, GuardInv
  <2> QED BY <2>1, <2>2, <2>3, <2>4 DEF GuardNext
<1>3. GuardInv => FailsSafe
  <2> SUFFICES ASSUME GuardInv, KeysOnce(text), verdict.allowed, verdict.payload.parsed,
                      load_scope(text).enforce, NEW h \in extract_hosts(verdict.payload.names)
               PROVE  matches_any(h, load_scope(text).in_scope \cup load_scope(text).infra_allowlist
                                     \cup CutPatterns(verdict.cut))
    BY DEF FailsSafe
  <2>1. PICK n \in 0 .. Len(text), scope \in Scopes :
           /\ evaluate(verdict.payload, scope)
           /\ Within(scope, Loading(text)[n], CutPatterns(verdict.cut))
    BY DEF GuardInv
  <2>2. Below(Loading(text)[n], load_scope(text)) BY PartBelowWhole DEF GuardInv
  <2>3. Within(scope, load_scope(text), CutPatterns(verdict.cut)) BY <2>1, <2>2 DEF Within, Below
  <2> QED BY <2>1, <2>3, AllowedIsListed
<1> QED BY <1>1, <1>2, <1>3, PTL DEF GuardSpec

-----------------------------------------------------------------------------
(* The ports.                                                              *)

\* How far a shell is in a command, and what it knows.
Stages == {"idle", "scan", "stop", "record", "look", "spawn"}

PortCommand == [kind : Kinds, box : Sandboxes, port : Ports \cup {NoPort},
            used : SUBSET (Ports \cup {NoPort})]

\* A command that goes on to record a port has chosen one.
PortsTypeOK ==
    /\ port \in [Sandboxes -> Ports \cup {NoPort}]
    /\ todo \in [Shells -> Stages]
    /\ job \in [Shells -> PortCommand \cup {Resting}]
    /\ \A c \in Shells : todo[c] # "idle" => job[c] \in PortCommand
    /\ \A c \in Shells : todo[c] \in {"record", "look", "spawn"} => Starts(job[c].kind)

\* Two sandboxes: neither was given its port by hand, nor were there commands choosing for
\* both at once.
Strangers(s, t) == s # t /\ s \notin pinned /\ t \notin pinned /\ {s, t} \notin met

\* A command on one sandbox has read, or avoids, what a stranger has recorded,
\* and whoever else is at work is on the same sandbox or has met it.
HaveMet ==
    \A c, d \in Shells :
        Choosing(c) /\ Choosing(d) =>
            job[c].box = job[d].box \/ {job[c].box, job[d].box} \in met

Avoids(c, t) ==
    /\ todo[c] = "scan" => port[t] \in job[c].used
    /\ todo[c] # "scan" => port[t] # job[c].port

Avoiding ==
    \A c \in Shells, t \in Sandboxes :
        Choosing(c) /\ Strangers(job[c].box, t) /\ port[t] # NoPort => Avoids(c, t)

\* The inductive invariant of the ports.
PortsInv == PortsTypeOK /\ HaveMet /\ Avoiding /\ PortsApart

\* A command that begins meets whoever is choosing, and has seen the other claims.
LEMMA BeginStep ==
  ASSUME PortsInv, NEW c \in Shells, NEW s \in Sandboxes, NEW kind \in Kinds,
         NEW number \in ByHand \cup {NoPort}, BeginWith(c, s, kind, number)
  PROVE  PortsInv'
<1> DEFINE own   == IF number # NoPort THEN number ELSE port[s]
           scans == own = NoPort /\ kind # "down"
           cmd   == [kind |-> kind, box |-> s, port |-> own,
                     used |-> IF scans THEN Claimed(s) ELSE {}]
<1>1. todo[c] = "idle" /\ port' = port BY DEF BeginWith
<1>2. job' = [job EXCEPT ![c] = cmd] BY DEF BeginWith
<1>3. todo' = [todo EXCEPT ![c] = IF scans THEN "scan" ELSE After(kind)] BY DEF BeginWith
<1>4. met' = IF ~Starts(kind) THEN met
             ELSE met \cup {{s, job[d].box} : d \in {d \in Shells : Choosing(d)}}
  BY DEF BeginWith
<1>5. pinned' = IF number # NoPort /\ Starts(kind) THEN pinned \cup {s} ELSE pinned BY DEF BeginWith
<1>6. Claimed(s) \subseteq Ports \cup {NoPort}
      /\ \A t \in Sandboxes : t # s => port[t] \in Claimed(s)
  BY DEF Claimed, PortsInv, PortsTypeOK
<1>7. own \in Ports \cup {NoPort} BY PortsAssumption DEF PortsInv, PortsTypeOK
<1>8. /\ cmd \in PortCommand /\ cmd.box = s /\ cmd.port = own /\ cmd.kind = kind
      /\ scans => cmd.used = Claimed(s)
  BY <1>6, <1>7 DEF PortCommand
<1>9. After(kind) \in {"stop", "record"} /\ (~Starts(kind) => After(kind) = "stop")
  BY DEF After, Starts
<1> HIDE DEF cmd
<1>10. PortsTypeOK' BY <1>1, <1>2, <1>3, <1>8, <1>9 DEF PortsInv, PortsTypeOK, Stages
<1>11. ASSUME NEW k \in Shells, k # c PROVE todo'[k] = todo[k] /\ job'[k] = job[k]
  BY <1>2, <1>3, <1>11 DEF PortsInv, PortsTypeOK
<1>12. todo'[c] # "idle" /\ job'[c] = cmd /\ (todo'[c] = "scan" <=> scans)
       /\ (Choosing(c)' => Starts(kind))
  BY <1>2, <1>3, <1>8, <1>9 DEF PortsInv, PortsTypeOK, Choosing
<1>13. \A k \in Shells : Choosing(k) /\ Starts(kind) => {s, job[k].box} \in met' BY <1>4
<1>14. \A k \in Shells : k # c /\ Choosing(k)' => Choosing(k) BY <1>11 DEF Choosing
<1>15. ASSUME NEW k \in Shells, NEW d \in Shells, Choosing(k)', Choosing(d)'
       PROVE  job'[k].box = job'[d].box \/ {job'[k].box, job'[d].box} \in met'
  <2>1. CASE k # c /\ d # c BY <1>4, <1>11, <1>15, <1>14, <2>1 DEF PortsInv, HaveMet
  <2>2. CASE k = c /\ d = c BY <2>2
  <2>3. CASE k = c /\ d # c BY <1>8, <1>11, <1>12, <1>13, <1>15, <1>14, <2>3
  <2>4. CASE k # c /\ d = c
    <3>1. {s, job[k].box} = {job'[k].box, job'[d].box} BY <1>8, <1>11, <1>12, <2>4
    <3> QED BY <1>11, <1>12, <1>13, <1>15, <1>14, <2>4, <3>1
  <2> QED BY <2>1, <2>2, <2>3, <2>4
<1>16. \A x, y : Strangers(x, y)' => Strangers(x, y) BY <1>4, <1>5 DEF Strangers
<1>17. ASSUME NEW k \in Shells, NEW t \in Sandboxes,
              Choosing(k)', Strangers(job[k].box, t)', port'[t] # NoPort
       PROVE  Avoids(k, t)'
  <2>1. CASE k # c
    <3>1. Strangers(job[k].box, t) BY <1>11, <1>16, <1>17, <2>1 DEF Strangers
    <3> QED BY <1>1, <1>11, <1>17, <1>14, <2>1, <3>1 DEF PortsInv, Avoiding, Avoids
  <2>2. CASE k = c
    <3>1. s # t /\ Strangers(s, t) /\ s \notin pinned'
      BY <1>8, <1>12, <1>16, <1>17, <2>2 DEF Strangers
    <3>2. own = port[s] BY <1>5, <1>12, <1>17, <2>2, <3>1
    <3>3. port[t] \in Claimed(s) BY <1>6, <3>1
    <3>4. port[t] # own BY <1>1, <1>17, <3>1, <3>2 DEF PortsInv, PortsApart, Strangers
    <3> QED BY <1>1, <1>8, <1>12, <2>2, <3>3, <3>4 DEF Avoids
  <2> QED BY <2>1, <2>2
<1>18. PortsApart' BY <1>1, <1>4, <1>5 DEF PortsInv, PortsApart
<1>19. HaveMet' BY <1>15 DEF HaveMet
<1>20. Avoiding' BY <1>17 DEF Avoiding
<1> QED BY <1>10, <1>18, <1>19, <1>20 DEF PortsInv

\* A shell that goes on, or ends, and records nothing.
LEMMA GoesStep ==
  ASSUME PortsInv, NEW c \in Shells, NEW stage, Goes(c, stage),
         \/ stage = "idle"
         \/ stage = "record" /\ todo[c] = "stop" /\ job[c].kind = "web"
         \/ stage = "spawn" /\ todo[c] = "look",
         UNCHANGED <<port, met, pinned>>
  PROVE  PortsInv'
<1>1. PortsTypeOK' BY DEF Goes, PortsInv, PortsTypeOK, Stages, Starts
<1>2. ASSUME NEW k \in Shells, Choosing(k)'
      PROVE  Choosing(k) /\ job'[k] = job[k] /\ (todo'[k] = "scan" <=> todo[k] = "scan")
  BY <1>2 DEF Goes, PortsInv, PortsTypeOK, Choosing
<1>3. HaveMet'
  <2> SUFFICES ASSUME NEW k \in Shells, NEW d \in Shells, Choosing(k)', Choosing(d)'
               PROVE  job'[k].box = job'[d].box \/ {job'[k].box, job'[d].box} \in met'
    BY DEF HaveMet
  <2>1. job[k].box = job[d].box \/ {job[k].box, job[d].box} \in met
    BY <1>2 DEF PortsInv, HaveMet
  <2>2. job'[k] = job[k] /\ job'[d] = job[d] BY <1>2
  <2> QED BY <2>1, <2>2
<1>4. Avoiding'
  <2> SUFFICES ASSUME NEW k \in Shells, NEW t \in Sandboxes,
                      Choosing(k)', Strangers(job[k].box, t)', port'[t] # NoPort
               PROVE  Avoids(k, t)'
    BY DEF Avoiding
  <2>1. job'[k] = job[k] BY <1>2
  <2>2. Strangers(job[k].box, t) BY <2>1 DEF Strangers
  <2>3. Avoids(k, t) BY <1>2, <2>2 DEF PortsInv, Avoiding
  <2> QED BY <1>2, <2>1, <2>3 DEF Avoids
<1>5. PortsApart' BY DEF PortsInv, PortsApart
<1> QED BY <1>1, <1>3, <1>4, <1>5 DEF PortsInv

\* What it chooses is none of the claims that it has seen.
LEMMA ScanStep ==
  ASSUME PortsInv, NEW c \in Shells, NEW others \in SUBSET Ports, Scan(c, others)
  PROVE  PortsInv'
<1> DEFINE free == Ports \ (job[c].used \cup listening \cup others)
<1>1. CASE Goes(c, "idle") BY <1>1, GoesStep DEF Scan, Stages
<1>2. ASSUME NEW p \in free,
             job' = [job EXCEPT ![c].port = p, ![c].used = {}],
             todo' = [todo EXCEPT ![c] = After(job[c].kind)]
      PROVE  PortsInv'
  <2>1. todo[c] = "scan" /\ job[c] \in PortCommand /\ UNCHANGED <<port, met, pinned>>
    BY DEF Scan, PortsInv, PortsTypeOK
  <2>2. /\ job'[c] \in PortCommand /\ job'[c].box = job[c].box /\ job'[c].port = p
        /\ job'[c].kind = job[c].kind
        /\ \A k \in Shells : k # c => job'[k] = job[k]
        /\ job' \in [Shells -> PortCommand \cup {Resting}]
    BY <1>2, <2>1 DEF PortCommand, PortsInv, PortsTypeOK
  <2>3. /\ todo'[c] \in {"stop", "record"} /\ (~Starts(job[c].kind) => todo'[c] = "stop")
        /\ \A k \in Shells : k # c => todo'[k] = todo[k]
        /\ todo' \in [Shells -> Stages]
    BY <1>2 DEF After, Starts, PortsInv, PortsTypeOK, Stages
  <2>4. PortsTypeOK' BY <2>1, <2>2, <2>3 DEF PortsInv, PortsTypeOK
  <2>5. \A k \in Shells : Choosing(k)' => Choosing(k) /\ job'[k].box = job[k].box
    BY <2>1, <2>2, <2>3 DEF Choosing, PortsInv, PortsTypeOK
  <2>6. ASSUME NEW k \in Shells, NEW t \in Sandboxes,
               Choosing(k)', Strangers(job[k].box, t)', port'[t] # NoPort
        PROVE  Avoids(k, t)'
    <3>1. Strangers(job[k].box, t) BY <2>1, <2>5, <2>6 DEF Strangers
    <3>2. CASE k # c BY <2>1, <2>2, <2>3, <2>5, <2>6, <3>1, <3>2 DEF PortsInv, Avoiding, Avoids
    <3>3. CASE k = c
      <4>1. port[t] \in job[c].used BY <2>1, <2>5, <2>6, <3>1, <3>3 DEF PortsInv, Avoiding, Avoids
      <4> QED BY <2>1, <2>2, <2>3, <3>3, <4>1 DEF Avoids
    <3> QED BY <3>2, <3>3
  <2>7. PortsApart' BY <2>1 DEF PortsInv, PortsApart
  <2>8. HaveMet' BY <2>1, <2>5 DEF PortsInv, HaveMet
  <2>9. Avoiding' BY <2>6 DEF Avoiding
  <2> QED BY <2>4, <2>7, <2>8, <2>9 DEF PortsInv
<1> QED BY <1>1, <1>2 DEF Scan

\* What it records is no stranger's, and nobody who is choosing for a stranger
\* is there to miss it.
LEMMA RecordStep ==
  ASSUME PortsInv, NEW c \in Shells, RecordPort(c)
  PROVE  PortsInv'
<1> DEFINE s == job[c].box
<1>1. todo[c] = "record" /\ s \in Sandboxes /\ job[c] \in PortCommand /\ UNCHANGED <<job, met, pinned>>
  BY DEF RecordPort, Goes, PortsInv, PortsTypeOK, PortCommand
<1>2. port' = [port EXCEPT ![s] = job[c].port] /\ todo' = [todo EXCEPT ![c] = "look"]
  BY DEF RecordPort, Goes
<1>3. PortsTypeOK' BY <1>1, <1>2 DEF PortsInv, PortsTypeOK, Stages, PortCommand
<1>4. \A k \in Shells : Choosing(k)' => Choosing(k) /\ (todo'[k] = "scan" <=> todo[k] = "scan")
  BY <1>1, <1>2 DEF PortsInv, PortsTypeOK, Choosing
<1>5. Choosing(c) BY <1>1 DEF PortsInv, PortsTypeOK, Choosing
<1>6. port'[s] = job[c].port /\ \A t \in Sandboxes : t # s => port'[t] = port[t]
  BY <1>1, <1>2 DEF PortsInv, PortsTypeOK
<1> HIDE DEF s
<1>7. ASSUME NEW k \in Shells, NEW t \in Sandboxes,
             Choosing(k)', Strangers(job[k].box, t)', port'[t] # NoPort
      PROVE  Avoids(k, t)'
  <2>1. Strangers(job[k].box, t) BY <1>1, <1>7 DEF Strangers
  <2>2. t # s BY <1>1, <1>4, <1>7, <1>5, <2>1 DEF PortsInv, HaveMet, Strangers, s
  <2> QED BY <1>1, <1>4, <1>6, <1>7, <2>1, <2>2 DEF PortsInv, Avoiding, Avoids
<1>8. ASSUME NEW x \in Sandboxes, NEW y \in Sandboxes, Strangers(x, y),
             port'[x] # NoPort, port'[x] = port'[y]
      PROVE  FALSE
  <2>1. CASE x = s
    <3>1. port[y] # job[c].port BY <1>1, <1>5, <1>6, <1>8, <2>1 DEF PortsInv, Avoiding, Avoids, Strangers, s
    <3> QED BY <1>6, <1>8, <2>1, <3>1 DEF Strangers
  <2>2. CASE y = s
    <3>1. Strangers(s, x)
      <4>1. {s, x} = {x, y} BY <2>2
      <4> QED BY <1>8, <2>2, <4>1 DEF Strangers
    <3>2. port[x] # job[c].port BY <1>1, <1>5, <1>6, <1>8, <2>2, <3>1 DEF PortsInv, Avoiding, Avoids, Strangers, s
    <3> QED BY <1>6, <1>8, <2>2, <3>1, <3>2 DEF Strangers
  <2>3. CASE x # s /\ y # s BY <1>6, <1>8, <2>3 DEF PortsInv, PortsApart, Strangers
  <2> QED BY <2>1, <2>2, <2>3
<1>9. PortsApart' BY <1>1, <1>8 DEF PortsApart, Strangers
<1>10. HaveMet' BY <1>1, <1>4 DEF PortsInv, HaveMet
<1>11. Avoiding' BY <1>7 DEF Avoiding
<1> QED BY <1>3, <1>9, <1>10, <1>11 DEF PortsInv

\* Of two sandboxes that never had commands at work at one time, and were given
\* no port by hand, each has recorded a port of its own, whatever is stopped,
\* killed or rebooted and whatever ports other programs hold.
THEOREM PortsStayApart == PortsSpec => []PortsApart
<1>1. PortsInit => PortsInv
  BY DEF PortsInit, PortsInv, PortsTypeOK, HaveMet, Avoiding, PortsApart, Choosing, Stages
<1>2. PortsInv /\ [PortsNext]_portVars => PortsInv'
  <2> SUFFICES ASSUME PortsInv, [PortsNext]_portVars PROVE PortsInv' OBVIOUS
  <2>1. ASSUME NEW c \in Shells, NEW s \in Sandboxes, NEW kind \in Kinds,
               NEW number \in ByHand \cup {NoPort}, BeginWith(c, s, kind, number)
        PROVE  PortsInv'
    BY <2>1, BeginStep
  <2>2. ASSUME NEW c \in Shells, NEW others \in SUBSET Ports, Scan(c, others) PROVE PortsInv'
    BY <2>2, ScanStep
  <2>3. ASSUME NEW c \in Shells, NEW others \in SUBSET Ports, Spawn(c, others) PROVE PortsInv'
    BY <2>3, GoesStep DEF Spawn, Stages
  <2>4. ASSUME NEW c \in Shells, Stop(c) PROVE PortsInv'
    <3>1. CASE job[c].kind = "web" BY <2>4, <3>1, GoesStep DEF Stop, Stages
    <3>2. CASE job[c].kind # "web" BY <2>4, <3>2, GoesStep DEF Stop, Stages
    <3> QED BY <3>1, <3>2
  <2>5. ASSUME NEW c \in Shells, RecordPort(c) PROVE PortsInv' BY <2>5, RecordStep
  <2>6. ASSUME NEW c \in Shells, LookForUi(c) PROVE PortsInv'
    <3>1. CASE pid[job[c].box] # NoPort BY <2>6, <3>1, GoesStep DEF LookForUi, Stages
    <3>2. CASE pid[job[c].box] = NoPort BY <2>6, <3>2, GoesStep DEF LookForUi, Stages
    <3> QED BY <3>1, <3>2
  <2>7. ASSUME NEW c \in Shells, Killed(c) PROVE PortsInv'
    BY <2>7, GoesStep DEF Killed, Stages
  <2>8. CASE Reboot
    BY <2>8 DEF Reboot, PortsInv, PortsTypeOK, HaveMet, Avoiding, PortsApart, Choosing, Stages
  <2>9. CASE UNCHANGED portVars
    BY <2>9
    DEF portVars, PortsInv, PortsTypeOK, HaveMet, Avoiding, Avoids, PortsApart, Strangers, Choosing
  <2> QED BY <2>1, <2>2, <2>3, <2>4, <2>5, <2>6, <2>7, <2>8, <2>9, Zenon DEF PortsNext
<1>3. PortsInv => PortsApart BY DEF PortsInv
<1> QED BY <1>1, <1>2, <1>3, PTL DEF PortsSpec
=============================================================================
