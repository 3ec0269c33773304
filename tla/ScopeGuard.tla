----------------------------- MODULE ScopeGuard -----------------------------
(***************************************************************************)
(* scope-guard.py: the hook that stops a tool call that names a host out   *)
(* of the authorized scope.  It reads recon/active-scope.yaml at every     *)
(* call, while the user may be saving it: a save empties the file and      *)
(* writes it again, and the hook may see any part of it: the first lines   *)
(* and what has come of the next one.                                      *)
(*                                                                         *)
(* A host is the sequence of its labels, the last one first.  A value that *)
(* is not a list is a word for true or one for false.                      *)
(***************************************************************************)
EXTENDS Naturals, Sequences, SequencesExt

CONSTANTS
    ScopeFiles, \* what the user may save: sequences of Lines
    Payloads,   \* what the hook may be called with
    FileExts,   \* last labels that mean a file name
    Shorter,    \* pairs of a label and one that it begins with
    NoKey       \* Python's None

Patterns == [wild : BOOLEAN, labels : Seq(STRING)]
ListKeys == {"in_scope", "out_of_scope", "infra_allowlist"}
Lines    == [kind : {"comment"}]
            \cup [kind : {"item"}, pattern : Patterns]
            \cup [kind : {"key"}, key : STRING]
            \cup [kind : {"inline"}, key : ListKeys, patterns : SUBSET Patterns]
            \cup [kind : {"scalar"}, key : STRING \ ListKeys, value : BOOLEAN]

ASSUME ScopeAssumption ==
    /\ ScopeFiles \subseteq Seq(Lines)
    /\ Payloads \subseteq [parsed : BOOLEAN, names : SUBSET Seq(STRING)]
    /\ Shorter \subseteq STRING \X STRING
    /\ NoKey \notin ListKeys

VARIABLES
    text,   \* what the user saves
    file,   \* the lines of it that are in the file
    verdict \* history: the hook's last call, since the user began to save

guardVars == <<text, file, verdict>>

-----------------------------------------------------------------------------
(* The scope file.                                                         *)

\* A variant without enforcement unless the file asks for it, for FailsSafe.
DefaultLax == [enforce |-> FALSE, in_scope |-> {}, out_of_scope |-> {}, infra_allowlist |-> {},
               cur |-> NoKey]

Default == [enforce |-> TRUE, in_scope |-> {}, out_of_scope |-> {}, infra_allowlist |-> {},
            cur |-> NoKey]

\* An item belongs to the list whose key came last, if that is a known one.
LoadLine(scope, line) ==
    CASE line.kind = "comment" -> scope
      [] line.kind = "item"    -> IF scope.cur = NoKey THEN scope
                                  ELSE [scope EXCEPT ![scope.cur] = @ \cup {line.pattern}]
      [] line.kind = "key"     -> [scope EXCEPT !.cur = IF line.key \in ListKeys THEN line.key
                                                        ELSE NoKey]
      [] line.kind = "inline"  -> [scope EXCEPT !.cur = NoKey, ![line.key] = line.patterns]
      [] line.kind = "scalar"  -> [scope EXCEPT !.cur = NoKey,
                                       !.enforce = IF line.key = "enforce" THEN line.value ELSE @]

\* The scope after each of the lines.
Loading(lines) ==
    LET scope[i \in 0 .. Len(lines)] ==
            IF i = 0 THEN Default ELSE LoadLine(scope[i - 1], lines[i])
    IN  scope

load_scope(lines) == Loading(lines)[Len(lines)]

-----------------------------------------------------------------------------
(* A line of which only the beginning has come.                            *)

\* It may end after any label of a pattern, or inside one.
Beginnings(p) ==
    LET from(k) == {<<l>> \o SubSeq(p.labels, k + 1, Len(p.labels)) :
                       l \in {p.labels[k]} \cup {s[2] : s \in {t \in Shorter : t[1] = p.labels[k]}}}
    IN  {[wild |-> p.wild, labels |-> l] : l \in UNION {from(k) : k \in DOMAIN p.labels}}
        \cup IF p.wild THEN {[wild |-> TRUE, labels |-> <<>>]} ELSE {}

Comment == [kind |-> "comment"]

\* A key with nothing behind it counts for no more than a comment, and a pattern
\* with but one of its two quotes or brackets matches nothing; a single pattern may
\* stand without them.
Cuts(line) ==
    LET single == {p \in line.patterns : line.patterns = {p}}
    IN  {Comment} \cup
        CASE line.kind = "item"   -> {[line EXCEPT !.pattern = p] : p \in Beginnings(line.pattern)}
          [] line.kind = "inline" ->
               {[line EXCEPT !.patterns = {}]}
               \cup {[line EXCEPT !.patterns = {p}] : p \in UNION {Beginnings(q) : q \in single}}
          [] line.kind = "scalar" -> {[line EXCEPT !.value = TRUE]}
          [] OTHER                -> {}

\* What a line that was cut lists.
CutPatterns(cut) ==
    UNION {CASE cut[i].kind = "item"   -> {cut[i].pattern}
             [] cut[i].kind = "inline" -> cut[i].patterns
             [] OTHER                  -> {} : i \in DOMAIN cut}

-----------------------------------------------------------------------------
(* The verdict.                                                            *)

\* "*.example.com" is the domain and all below it.
host_matches(host, p) == IF p.wild THEN IsPrefix(p.labels, host) ELSE host = p.labels

matches_any(host, patterns) == \E p \in patterns : host_matches(host, p)

\* Of the names in a command or URL, what looks like a file does not count.
extract_hosts(names) == {h \in names : h # <<"localhost">> /\ h[1] \notin FileExts}

\* A payload that is not JSON is let through.
evaluate(payload, scope) ==
    LET targets == {h \in extract_hosts(payload.names) : ~matches_any(h, scope.infra_allowlist)}
    IN  \/ ~payload.parsed
        \/ ~scope.enforce
        \/ \A h \in targets :
              matches_any(h, scope.in_scope) /\ ~matches_any(h, scope.out_of_scope)

-----------------------------------------------------------------------------
NoVerdict == [payload |-> NoKey, cut |-> <<>>, allowed |-> FALSE]

\* Without a file the scope is empty.
GuardInit == text = <<>> /\ file = <<>> /\ verdict = NoVerdict

Save(lines) ==
    /\ text' = lines
    /\ file' = <<>>
    /\ verdict' = NoVerdict

WriteLine ==
    /\ Len(file) < Len(text)
    /\ file' = Append(file, text[Len(file) + 1])
    /\ UNCHANGED <<text, verdict>>

\* The one read gives whole lines, and what has come of the next: cut.
Hook(payload, cut) ==
    /\ verdict' = [payload |-> payload, cut |-> cut,
                    allowed |-> evaluate(payload, load_scope(file \o cut))]
    /\ UNCHANGED <<text, file>>

NextLine == IF Len(file) < Len(text) THEN Cuts(text[Len(file) + 1]) ELSE {}

GuardNext ==
    \/ \E lines \in ScopeFiles : Save(lines)
    \/ WriteLine
    \/ \E payload \in Payloads, cut \in {<<>>} \cup {<<c>> : c \in NextLine} : Hook(payload, cut)

GuardSpec == GuardInit /\ [][GuardNext]_guardVars

-----------------------------------------------------------------------------
(* Properties.                                                             *)

\* Every key of the file stands there once, as YAML has it.
KeysOnce(lines) ==
    \A i, j \in DOMAIN lines :
        i # j /\ {lines[i].kind, lines[j].kind} \subseteq {"key", "inline", "scalar"} =>
            lines[i].key # lines[j].key

\* "fail-safe": whatever part of the file the hook sees, it lets no host through
\* that the whole file does not list, unless the file turns enforcement off or the
\* read ended inside the very pattern that lets the host through ("*.example.com"
\* cut to "*" lets any).  (A key that comes again may take back what the first
\* lines listed.)
FailsSafe ==
    LET whole == load_scope(text) IN
    KeysOnce(text) /\ verdict.allowed /\ verdict.payload.parsed /\ whole.enforce =>
        \A h \in extract_hosts(verdict.payload.names) :
            matches_any(h, whole.in_scope \cup whole.infra_allowlist \cup CutPatterns(verdict.cut))
=============================================================================
