--------------------------- MODULE MCHarnessLaunch ---------------------------
(* What a launch gives a sandbox: the harness's model file, its context       *)
(* window, the hook on its tool calls, and a port of the host.  They share no *)
(* state: a behaviour runs one of them.                                       *)
EXTENDS ModelsConfig, LaunchContext, ScopeGuard, HostPorts, TLC

CONSTANTS m1, m2, n1, n2, b1
VARIABLE focus

Entry(m, size, caps) == [id |-> m, size |-> size, caps |-> caps]
MCListings  == {<<Entry(m1, 1, {"tools"}), Entry(m2, 2, {"vision"})>>,
                <<Entry(m1, 1, {"tools", "vision"}), Entry(m2, 2, {})>>}
MCTrainings == {[m \in Models |-> 8], [m \in Models |-> IF m = m1 THEN 8 ELSE None]}
MCTexts     == {Broken, Whole([Nothing EXCEPT ![n2] = b1])}

Wild(labels)  == [kind |-> "item", pattern |-> [wild |-> TRUE, labels |-> labels]]
Plain(labels) == [kind |-> "item", pattern |-> [wild |-> FALSE, labels |-> labels]]
Key(key)      == [kind |-> "key", key |-> key]
MCScopeFiles ==
    {<<[kind |-> "scalar", key |-> "enforce", value |-> TRUE], Key("in_scope"), Wild(<<"com", "a">>),
       Key("out_of_scope"), Plain(<<"com", "a", "x">>), Key("notes"), Plain(<<"org", "b">>)>>,
     <<[kind |-> "inline", key |-> "in_scope", patterns |-> {}], [kind |-> "comment"],
       Key("infra_allowlist"), Plain(<<"org", "b">>)>>,
     <<[kind |-> "scalar", key |-> "program", value |-> TRUE],
       [kind |-> "scalar", key |-> "enforce", value |-> FALSE]>>,
     <<Key("in_scope"), Wild(<<"org", "b">>),
       [kind |-> "inline", key |-> "in_scope", patterns |-> {}]>>,
     <<[kind |-> "inline", key |-> "in_scope", patterns |-> {Plain(<<"org", "b">>).pattern}],
       [kind |-> "inline", key |-> "infra_allowlist",
        patterns |-> {Wild(<<"com", "a">>).pattern, Plain(<<"net", "c">>).pattern}]>>}
MCShorter == {<<"com", "co">>, <<"org", "or">>}
Payload(names)  == [parsed |-> TRUE, names |-> names]
MCPayloads ==
    {Payload({}), Payload({<<"com", "a", "x">>, <<"org", "b">>}), Payload({<<"com", "a">>}),
     Payload({<<"net", "c">>}), Payload({<<"co", "a">>}), Payload({<<"sh", "d">>, <<"localhost">>, <<"org", "b">>}),
     [Payload({<<"net", "c">>}) EXCEPT !.parsed = FALSE]}

AtRest ==
    /\ focus # "config" => format = "json" /\ live = Absent
    /\ focus # "context" =>
         server = CHOOSE s \in Servers : s.up /\ \A m \in Models : s.loaded[m] = None

MCInit ==
    /\ focus \in {"config", "context", "guard", "ports"}
    /\ ConfigInit /\ ContextInit /\ GuardInit /\ PortsInit
    /\ AtRest

MCNext ==
    /\ UNCHANGED focus
    /\ IF focus = "config" THEN ConfigNext ELSE UNCHANGED configVars
    /\ IF focus = "context" THEN ContextNext ELSE UNCHANGED contextVars
    /\ IF focus = "guard" THEN GuardNext ELSE UNCHANGED guardVars
    /\ IF focus = "ports" THEN PortsNext ELSE UNCHANGED portVars

MCSpec == MCInit /\ [][MCNext]_<<configVars, contextVars, guardVars, portVars, focus>>
MCSymmetry == Permutations(Launches)
=============================================================================
