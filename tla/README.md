# A TLA+ model of the sandbox

`sandbox` runs an autonomous agent in a container whose only way out is a
gateway container. The gateway keeps an egress allowlist, decrypts what it lets
through and adds the operator's credentials to it, so that the agent never holds
them. These modules model the parts of that system whose correctness depends on
the order in which things happen, check them with TLC on small instances and
prove their safety properties with TLAPS for every instance.

## 1. The system

| Part | Source | State it keeps | Operations |
|---|---|---|---|
| Credential store | `gateway/entrypoint.sh` (redis), `gateway/control_server.py` | redis keys `broker:host:*`, `broker:hostpats`, `broker:handle:*` with expiry; one thread per connection | `host_set`, `host_del`, `hostpat_set`, `hostpat_del`, `handle_mint`, `handle_revoke`, two listings |
| Broker addon | `gateway/broker_addon.py` | allowlist and its mtime, redis client or None, splice DNS cache, Caido address, request log | mitmproxy hooks `running`, `tls_clienthello`, `requestheaders`, `request` |
| Web UI | `broker/webui.py` | session cookie; otherwise a client of the control socket | login, the store's operations, `host-set-many`, log tail |
| Command line | `sandbox` | a state directory per sandbox (started-at, ttl, ports, context), a shared allowlist | `up`, `spawn`, `reap`, `allow`, `web`, `down`, `open`, `run`, `ls` |
| Flywheel capture | `gateway/flywheel_addon.py` | capture files, current size | `response` (record, rotate, prune) |
| Flywheel tools | `broker/flywheel.py`, `broker/fill.py` | none | batch programs; `load` and `tail` beside a gateway that writes |
| FUSE filter | `fusefilter/*.go`, `mount.sh`, `unmount.sh` | gitignore cache | `Hidden`, `Lookup`, `Readdir` |
| Boot and firewall | `entrypoint.sh`, `firewall-netns.sh`, `firewall-router.sh`, `dnsmasq-router.sh`, `compose.yaml` | packet filter rules, CA bundle, marker files | boot steps, healthcheck |
| Harness registry | `harness/lib.sh`, `models_config.py` | model file, its backup and temporary file, ownership marker, skills in a home that sandboxes share | generate, take over, sync |
| Model probe | `harness/probe_models.py` | none; what `up` and `open` read with it is in the state directory | `--pick`, `--context`, `--served-context`, `--effective-context` |
| Scope guard | `tooling/scope-guard.py` | none; it reads a scope file that the user edits | `load_scope`, `evaluate` |

How they interact. The command line composes the containers, writes their
environment and starts the web UI on the host. The web UI, one thread per
request, talks to the control server over a Unix socket in a directory that the
gateway mounts, waiting at most five seconds. The control server, one thread per
connection, issues redis commands. The broker addon reads redis from mitmproxy's
event loop. The addon rereads the allowlist, which the command line edits, by
its mtime. `reap` is run by a timer beside whatever the operator types.

What is hard: redis commands of several operations interleave with each other
and with a request's; any of redis, the control server, mitmproxy, the command
line can stop between two of its commands; a caller gives up on an operation
that still happens; files are read and written by several processes without
locks; caches outlive what they were filled from.

What makes each part correct:

* store: a record is what the last write to it said; a handle that was handed
  out expires; an operation that was accepted is answered;
* addon: what it injects applied to that request when it was decided; the exact
  record wins over patterns; a handle is confined to its host, path and methods;
  neither a handle nor a credential leaves on the wrong connection; an allowlist
  edit takes effect;
* command line: a sandbox is torn down after its lifetime and not before it;
  ports are distinct; an interrupted migration can be finished;
* flywheel: the capture directory stays under its budget, no record is written
  or read twice, a streamed completion becomes what it would be as JSON;
* web UI: a reply says of every host whether it was set;
* FUSE filter: a hidden path cannot be looked up or listed;
* boot: the workload starts after the firewall is up, and the two firewalls let
  the same traffic out;
* harness: a file the user wrote is never lost; a harness is not told of a
  window larger than the server's; the scope guard errs on the strict side.

The hazards found on the way are in `PROJECT.json`, each at the line where it
bites, with the properties that watch it.

## 2. Modules

| Module | Models | Status |
|---|---|---|
| `CredentialStore` | redis and the control server's threads | checked, proved |
| `CredentialBroker` | the addon's injection, composed with `CredentialStore` | checked, proved |
| `EgressGate` | the addon's allowlist and splice check against edits, DNS and restarts | checked, proved |
| `RequestLog` | the addon's request log and its trimming | checked, proved |
| `SandboxLifecycle` | `up`, `down` and `reap` on the state directory, the view and the containers | checked, proved |
| `HostPorts` | the port and process of each sandbox's web UI | checked, proved |
| `ModelProbe` | what `probe_models.py` reads off a model server | operators |
| `LaunchContext` | the context window from `up` to `open`, over `ModelProbe` | checked, proved |
| `ModelsConfig` | `models_config.py` on the model file | checked, proved |
| `ScopeGuard` | the hook, on a scope file that is being saved | checked, proved |
| `FlywheelCapture` | the capture directory | checked, proved |
| `CaptureReader` | `load` and `tail`, composed with `FlywheelCapture` | checked, proved |
| `StreamAssembly` | streamed completions put together | checked, proved |
| `WebUi` | `host-set-many` | checked, proved |
| `RecordLog` | abstract: what the two logs promise | refined by `FlywheelCapture` and `RequestLog`, proved |
| `CredentialProofs` | the theorems of `CredentialStore` and `CredentialBroker` | |
| `SandboxLifecycleProofs`, `EgressGateProofs`, `ModelsConfigProofs` | those of the module in the name | |
| `LaunchProofs` | those of `LaunchContext`, `ScopeGuard` and `HostPorts` | |
| `GatewayLogProofs` | those of `FlywheelCapture`, `CaptureReader` and `RequestLog` | |
| `HostViewProofs` | those of `WebUi` and `StreamAssembly` | |
| `InductionFacts` | induction over the naturals, in the form that the others cite | proved |

`CredentialBroker` extends `CredentialStore` and interleaves with it,
`CaptureReader` does the same with `FlywheelCapture`, `LaunchContext` asks the
server of `ModelProbe`. The others stand alone, as what they model shares no
state: the lifecycle, the ports and the context window are different files of a
state directory, the allowlist is a file, and the logs are only read by others.
The `MC` modules give the constants their values; a `.cfg` of theirs is one run.

Variables that the code does not have are called history variables where they
are declared. No action of a program is guarded by one; they record what a
property needs to say: who was at work at the same time, what has been asked or
promised, what has been read or written since.

### CredentialStore

One redis command is one step. `HostSetDelete` and `HostSetWrite` are the two
commands of `op_host_set`; `HandleMintSet`, `HandleMintExpire` and
`HandleMintReply` those of `op_handle_mint` and the reply that shows the token.
`pc[w]` says what a connection thread does next and `job[w]` what it holds in
local variables. Redis keeps nothing on disk, so `RedisDies` and
`GatewayRestarts` empty it; nothing inside the container restarts a dead redis
or control server. `OpFails` is the `except` of `Handler.handle`: it answers
whatever command failed. `HandleMintReply` chooses whether the caller still
waits, which is `control_call`'s timeout. A JSON ttl of zero is falsy, so it is
granted the default (`GrantedTTL`).

`issued` is the set of handles the operator was shown whole; the listing of the
web UI shows the first ten characters. `bound`, `lastSet` and `overlapped` are
history variables: no guard reads them except the freshness of a token
(`secrets.token_urlsafe`), for which `bound` is the memory.

Header mappings are functions from names to values or `NoValue`. The path
prefix and methods of a handle are the set of targets it reaches. Host and
header validation (`_need_host`, `_need_headers`) is in the types of the inputs.
The listings change nothing and are not actions.

### CredentialBroker

mitmproxy runs hooks on one event loop and the redis client is synchronous, so
at most one request is in the addon; the store's threads run between its
commands. `RequestHeaders` is `requestheaders` and `_inject` up to the first
redis command, `ResolveHandle`, `ReadPatterns` and `ReadExact` one command each
with what follows it. `Running` pings redis once: `connected` never changes
afterwards. Patterns are merged in every order, since a redis hash promises
none. Allowlist matching is an input of the request, `_pat_match` a constant
relation. `seen` collects what was on offer while the request was in the addon,
`held` what the exact record kept during that time; no action reads them.

Header names are canonical here. The code merges them case-sensitively into a
case-insensitive request, which belongs to the planned `HeaderMerge`.

### SandboxLifecycle

A process of `Commands` is a shell that runs `up` or `down`, one of `Reapers` a
`reap`; `pc`, `at` and `mem` are where it is, on which sandbox, and its shell
variables. A step is one write or one external program: `UpBegin` ends with the env
file, `UpStamp` and `UpLease` write the two files of the lifetime, `UpMount` is
`mount.sh`, which keeps what is mounted at the path already; which source a view
shows is not modelled. `UpCompose` and `UpFails` are `compose up` under `set -e`.
`ComposeDown`, `DownFails` (which may have removed the containers before it failed)
and `Unmount` are `down`, which `reap` runs as a command of its own. `ReapVisit`
reads `started-at`, `ReapDecide` `ttl-minutes`; the time is the one `reap` took when
it began (`ReapBegin`). `Killed` interrupts any command anywhere. Minutes stand for
seconds.

`asked` remembers the lifetime `up` last recorded, `raced` the sandboxes on
which an `up` was at work at the same time as a `down` or a `reap`. Nothing
prevents that and no guard reads `raced`; the properties say what is left of
them there. Two `up`s on one sandbox may overlap too: `asked` is then what either
wrote last, as the files are.

### EgressGate

`hook` is the hook that mitmproxy's event loop is in. `Stat` and `Read` are the two
system calls of `_load`, and `ReadFails` is an exception from the second: `_mtime`
is set by then. `Decide` is everything in memory, `Lookup` is `getaddrinfo`. `file`
is the list at the sandbox's path, `mounted` the one the gateway has: compose mounts
the file itself, so `Replace` (an editor that renames) parts them until `Restart`.
The clock counts ticks of file timestamps, so two writes in one tick have one time;
`Rewrite` may also bring an older time. A line is a pattern with or without `!` in
front and a note behind; glob and suffix matching is the relation `Covers`. `since`
is what DNS says, and since when; `gone` is when a host last gave an address up,
since the gateway started. What mitmproxy does with a flow whose hook raised is not
modelled: the verdict is then "raised". Names are never absent: a connection without
SNI matches no pattern but a bare `*`.

`quiet` says that nobody edited the list since the hook began to load it,
`missed` that the version last read was edited without changing its time, or
could not be read.

### RequestLog, FlywheelCapture, RecordLog

Both logs count a line or record as 1, whatever its length. A record is "whole",
"cut" before its end or "torn" inside: behind a line without an end the next one
cannot be parsed either. A decision is "lost" when the log cannot be opened. A
capture file has the numbers of the records that can be read, and what became of the
line written last. `Decide` and `Write` are an append. `Trim` reads the recent half
and empties the file, `Rewrite` writes it back, and a kill in between loses it.
`TrimFails` is an error that `_trim` swallows before it has emptied the file, which
then stays as long as it is. `setbacks` counts those and the restarts. `_append` of
the flywheel is `Rotate`, `Prune` (one file a step) and `Write`; `PruneFails` and
`AppendFails` are their exception handlers, `Restart` a gateway that stops and
starts, with a usable directory or not. A rotated file is called after the second,
and a second rotation in it replaces the first (`overlap`). `Learns` is what
`response` accepts of an exchange. `Space` is what the files take, as a set, so that
`_prune`'s sum is a cardinality.

`RecordLog` is the promise: a log is a set of records and their order (`before`).
Records come in at the end, some are missed, a block of neighbours may go, nothing
comes back. Both modules instantiate it with what can be read from their files
(`FlywheelIsALog`, `RequestLogIsALog`). The mapping is the interesting part. The
flywheel's log is `Captured`, ordered by `CapturedBefore`: a record is before
another one that stands further down in its file or in a file that was written
later. The request log's is `Told`, the file, or what `_trim` has in memory while
the file is empty.

### CaptureReader

`List` is the directory listing of `load`, `ReadFile` one file, the first by name of
those that are left (`NameBefore`, the order of the names as strings): the gateway
may rename or remove one in between, and then `load` raises.

### StreamAssembly

`Assembled` is `_collect_anthropic_stream` and `_collect_openai_stream` on the
events that have come so far: `Added` is what one event adds, `Collected` the loop
over them, a recursive function. The server is external: it sends the pieces of
one message in every order that the two dialects allow and may stop after any of
them. The arguments of a call are JSON: a piece of them says something, and is
written in one of the ways that JSON has for it. A stream keeps the text that was
sent, `{"cmd":"ls"}` in the addon's own test (`gateway/flywheel_addon_test.py:82`);
of Anthropic's JSON, where they are an object, `json.dumps` makes a text of its own,
`{"cmd": "ls"}` (`flywheel_addon.py:137`). `Dumped` is that text, and the two forms
of a message are equal in Anthropic's dialect up to it (`Meant`), in OpenAI's to the
letter. Calls of tools have an index and their input has a piece at least; a server
that leaves the index out, or calls without input, gets another result in one of
the two forms, and is not modelled.

### WebUi

A POST is a thread that makes one control call per host. `ControlCall` sends it,
`Serve` carries it out, for a client that may have timed out (`TimesOut`);
`GatewayStops` loses what is under way. `Items` is the parsing of the pasted
lines down to the hosts, each once; `Listing` is its loop and `WithLine` what a line
adds. `Refusal` has the checks in their order.

### HostPorts

A shell runs `up`, `web`, `web --stop` or `down`. `BeginWith` reads what the other
sandboxes have recorded (`web --stop` chooses a port before it stops the UI), `Scan`
chooses the first port that none of them claims and that can be bound (`others` are
ports that other programs have), `RecordPort`, `LookForUi` and `Spawn` are
`webui_start`, `Stop` is `webui_stop`. `pid` is the port of the process that the pid
file names: one that could not bind has ended, which is `NoPort` although its pid is
recorded. That a pid may be used again for another process after a reboot is left
out. `met` are the pairs of sandboxes on which commands chose at one time, `pinned`
those that were given a port by hand.

### ModelProbe and LaunchContext

A server is a record of what it would answer. `Pick`, `ContextWindow`,
`ServedContext`, `EffectiveContext` and `Truncates` are the script's options;
every one is a request of its own, between which the server may be restarted
with another window, unload a model or be out of reach (`Restarts`, `Unloads`,
`Reachable`). `LaunchContext` has a step for each question of `up` and `open` and
for what they record. `measured` is the model whose window on the server is still
the one `up` has measured: a restart of the server, an unloading and an interrupted
`up` end that, and so does an `open` whose last question is not answered when its
choice is not the recorded one. That the server is out of reach for a while does not.
`pin` the window given by hand, `cut` that a command
that was given one was interrupted.

### ModelsConfig

A launch is a process with one step per system call: `Look`, `Aside` (the
backup), `Read`, `OpenTmp`, `WriteTmp`, `Replace`, `Mark`. An open file keeps its
identity when another launch renames it (`fd`, `Moved`), so a text can reach the
model file or the backup by that way. `UserWrites` and `TakeOver` are the user,
`Crash` an interruption. `raced` is that two launches were at work at one time,
`quiet` who has not been disturbed since it looked, `entrusted` the file that a
launch must not destroy: the user's, as long as there is no backup yet.

### ScopeGuard

`Save` empties the file and `WriteLine` brings back a line at a time; `Hook` may
come at any moment, and what it reads may end inside the next line. `Cuts` says
what such a line is taken for: the beginning of a pattern is a pattern
(`Beginnings`), which may end behind any label or, for the labels in `Shorter`, inside
one; a value whose word is cut is a word for true; one half of a pair of quotes or
brackets makes a pattern that matches nothing. `LoadLine` is what `load_scope` does
with a line, `Loading` its loop, `evaluate` the verdict. A host is its labels, the
last one first, so that `*.domain` is a prefix; other fnmatch patterns are left out.

## 3. Runs

| Run | Instance | Shows |
|---|---|---|
| `credential_store` | 2 threads, 1 host, records without a common header, 2 handles, lifetimes 0, 1, 3 of at most 2, clock to 3 | types; `SetReplacesRecord`; `IssuedHandleExpires`; `OperationsAnswered` |
| `credential_broker` | 1 thread, 2 hosts, 1 pattern over one of them, 1 header, 2 values, 1 handle, clock to 1 | types; `InjectedWasOnOffer`; `ExactRecordApplies`; `HandleDecides`; `WireIsClean`; `RequestDecided` |
| `sandbox_lifecycle` | 1 sandbox, 2 shells, 1 reaper, lifetimes 1 or none, clock to 2, 1 interruption | types; `LeaseKept`; `ViewUnderContainers`; `ReapsOnlyExpired`; `OverdueEnds` |
| `egress_gate` | 1 host, 1 pattern plain and with `!`, 2 addresses, `DnsTTL` 1, clock to 2, 2 edits | types; `DecidedByList`; `SplicedWasHeld`; `HeldIsSpliced` |
| `harness_launch` | model file: 2 launches, 2 providers, 1 block, 1 crash, 2 edits; context: 2 models, windows 2, 4, 8, filler of 5 counted as 3 or 5, 3 commands, window 6 by hand; guard: 5 scope files, 7 payloads, 2 labels that may be cut; ports: 2 sandboxes, 2 shells, 2 ports, one of them given by hand | types; `LiveIsWhole`; `UserFileKept`; `BackupIsTheUsers`; `SettledHasText`; `LaunchMerges`; `WindowFits`; `PinnedIsKept`; `FailsSafe`; `PortsApart` |
| `host_view` | capture: files of 1, budget 3, days of 2 seconds, clock to 3, 5 records; request log: limit 4, a look every 2 lines, 9 decisions, 1 setback; 2 messages in 2 dialects; 2 POSTs, 3 hosts, one refused | types; `BudgetHolds`; `OldestGoFirst`; `FlywheelIsALog`; `ReadOnce`; `SizeBounded`; `RequestLogIsALog`; `AssembledIsMessage`; `OkIsFinal`; `EveryHostNamed` |
| `tail_recent` | as `host_view` | a violation of `TailIsRecent` |
| `reap_races_up` | 1 sandbox, 1 shell, 1 reaper | a violation of `FullLifetime` |
| `stale_splice` | as `egress_gate`, without edits, clock to 3 | a violation of `SplicedIsRecent` |
| `list_replaced`, `noted_line` | as `egress_gate`; the second with a noted line | violations of `HotReloaded` and `ListedIsAllowed` |
| `host_set_overlap` | as `credential_store` without handles | a violation of `ReplacedWholesale`, see below |

Why the bounds are enough. Two threads are what an overlap needs, and threads
are alike. Two records without a common header tell a replacement from a
mixture. Two handles let one be minted while another is revoked, expires or is
left without expiry by a failure; the clock passes the longest lifetime, and the
asked lifetimes are the default, an accepted and a refused one. In the broker one
writer thread suffices, because what a request can observe is a sequence of
redis states, and a second writer adds no state of a record that one could not
write; two values tell an old record from a new one; the second host is there
for the handle that is presented to it.

Two shells and a reaper are what `up`, `down` and `reap` need to meet on one
sandbox; sandboxes share nothing in these commands. The clock passes the
lifetime, and the default lifetime of `reap --all`. In the gate hosts do not
interact, so one is enough; two addresses let the host rotate to another while
the connection goes to the first; two edits are a version read and a version
missed or rewritten with the old time, and the clock passes the cache's expiry. In
`stale_splice` it passes the age that two answers can have.

`harness_launch` and `host_view` each hold four parts that share no state. A
behaviour runs one of them, `focus`, and the others stay as they began, so the
states add up and do not multiply. In `harness_launch` two launches are what a
race on the temporary file needs; two edits are a file of the user's own and a
take-over of the marker; two providers tell a merge from a fresh start. Window 2
lies below the filler's estimate with its slack, 4 between that and the filler, 8
above both, and a filler that is really 3 tokens looks truncated without being so;
three commands are an `up` and two `open`s, the least for what the second reads
back. Of the scope files one turns enforcement off in its last line, one has a
key twice, which is the case that `FailsSafe` leaves out, and one has lists in a line,
of one pattern and of two; the payloads name hosts that only a pattern cut short lets
through. Two ports for two
sandboxes are few enough to run out. In `host_view` five records rotate the file
twice and take the directory over its budget, and the clock passes a day; nine
decisions trim the log, go on writing to it and trim it again, although a restart or
a trim that failed came in between; two tools with two pieces each let
the calls of a message interleave; two POSTs share a host. These runs do not look
for deadlock, because commands, edits, records and POSTs are bounded and every
part may end.

Fairness. `StoreFairness` is weak fairness of a thread that has begun an
operation: the operating system runs it, and a redis call returns or raises.
`BrokerLiveSpec` adds that mitmproxy's event loop finishes the hook it is in.
Nothing is assumed of operators, of redis staying alive or of the clock.
`LifeFairness` says that the timer starts `reap` again and again, that a `reap`
which runs goes on, and that docker does not refuse for ever to take a sandbox
down; `up` and `down` may stop anywhere. No other module assumes fairness or
states a liveness property.

Where the code departs from its comment. `op_host_set` says it replaces a record
wholesale so that removed headers do not linger. Two overlapping calls can both
delete before either writes, and the record becomes the union of both. The run
`host_set_overlap` shows it; `SetReplacesRecord` states the guarantee that is
left, for hosts whose calls did not overlap, and is what is proved.

`reap` compares a start time it has read and does not look again before it runs
`down`: an `up` in between loses its containers at the start of its lifetime
(`reap_races_up`), or keeps them and loses the lifetime, so that no later pass
finds them. `ReapsOnlyExpired`, `LeaseKept` and `ViewUnderContainers` are what
holds for sandboxes on which the two did not meet.

The addon's splice cache only grows: an address that a host gave up any time ago is
spliced as long as the gateway runs (`stale_splice`). `_sni_matches_dst` says
"unioned across recent lookups" (`broker_addon.py:201`) and SECURITY.md that the
address "resolves from the client's SNI host" (`SECURITY.md:61`). `SplicedIsRecent`
is the most that the words allow of a lookup that was answered, an address which was
the host's within the life of two answers; `SplicedWasHeld` is what is left, an
address the host has or had while this gateway ran.

The list of allowed domains puts notes behind two hosts, and `_load` takes the
whole line for the pattern: both are denied (`noted_line`). A list that is
renamed into place is not hot-reloaded (`list_replaced`). Two more exceptions
stand in `DecidedByList` itself: an edit that leaves the modification time as it
was, and a read that failed after the time was recorded.

`flywheel.py tail` promises the most recent calls, but a day's current file comes
before its rotated ones in the order of their names, so that the last records it
reads are older ones (`tail_recent`).

What the properties leave open, because the code does not promise it or promises
it with these exceptions:

* model file: two launches at one time may overwrite the backup or mix their
  texts (`raced`); a launch that is interrupted between putting the file in place
  (`models_config.py:150`) and marking it (151) leaves a file that the next one
  takes for the user's; a foreign file is overwritten once there is a backup; a
  YAML file is generated anew each time, without the providers it had;
* context window: `open` caps the window by what the server reports for a loaded
  model, so with the model unloaded the trained window is back
  (`sandbox:1176`-`1181`); with another `--model` and a server out of reach it
  goes on with the window of the model before; that a window was given is
  recorded before the window is (`sandbox:1167`), which an interruption parts;
* ports: two commands at one time may choose the same one; one given by hand is
  not compared with the others; with a UI already running, `up --web-port`
  records a port on which nothing listens;
* capture: without a rotation nothing is pruned, so that daily files below the
  limit pile up until the next one; two rotations in a second lose a file; a
  reader raises when a file is renamed under it; a torn line takes the next
  record with it; a request over `BODY_MAX` is dropped, as what is left of it does
  not parse, while `flywheel_addon.py:34` speaks of truncation;
* request log: no size caps it for good, although `docs/SANDBOX-PLAN.md:664` calls it
  a "Size-capped ring": gateways that restart before their 200th decision never look
  at it, and a trim that fails leaves it as it is for 200 more. `SizeBounded` says by
  how much each of these may raise the bound, and no more than that is proved;
* view: `mount.sh` keeps whatever is mounted at the path, so that `up` with another
  source shows the old tree (`mount.sh:67`);
* web UI: a call that was reported as failed may still be carried out;
* scope guard: where the hook reads a file that is half saved, it may miss an
  `out_of_scope` entry under an `in_scope` wildcard; where the read ends inside a
  pattern, what is there of it may match more, up to `*` for `*.example.com`, so
  that the hook lets through what the file refuses. `FailsSafe` says that it is no
  more than this one pattern: any other host that is let through is on a list of the
  whole file. Where a key comes again, which YAML does not allow but
  `load_scope` does, an inline list takes back what the lines before it listed
  (`scope-guard.py:90`), so that `FailsSafe` is stated for files with each key once
  (`KeysOnce`). An entry of the infrastructure list wins over `out_of_scope`; names
  whose last label is also a file suffix (`.sh`, `.zip`) are not looked at.

Every property has a mutant of the code that breaks it; the variants stand in
the modules in front of the definitions they change.

## 4. Proofs

Every safety property that a passing run checks, action properties and
refinements included, is proved here for every value of the constants.

`CredentialProofs` proves of `CredentialStore`, for any number of threads, hosts,
handles, any lifetimes and any clock bound, from `StoreAssumption` alone:

* `StoreTypeCorrect`: `StoreSpec => []StoreTypeOK`;
* `SetReplaces`: `StoreSpec => []SetReplacesRecord`;
* `ShownHandlesExpire`: `StoreSpec => []IssuedHandleExpires`.

None of the last two is inductive. A handle without expiry exists between SET
and EXPIRE, and for ever if the thread dies there; that it was never shown
follows only if threads mint distinct handles (`MintingInv`), and a handle
without an expiry is neither issued nor about to be (`HandleInv`). That HSET
leaves exactly the new headers needs that the record is empty until then, hence
that no other thread is between DEL and HSET on that host (`SetInv`).
`StoreInvariant` proves the conjunction; `TypeStep`, `MintingStep`, `HandleStep`
and `SetStep` have one step for each action of `StoreCases`.

`SandboxLifecycleProofs` proves, from `LifecycleAssumption`, for any number of
sandboxes, shells and reapers:

* `LifeTypeCorrect`: `LifeSpec => []LifeTypeOK`;
* `LeaseIsKept`: `LifeSpec => []LeaseKept`;
* `ViewIsKept`: `LifeSpec => []ViewUnderContainers`;
* `ReapedWasExpired`: `LifeSpec => ReapsOnlyExpired`.

`ApartInv` is the heart of it: on a sandbox that is not in `raced`, nobody is at
work while `up` is. So what `up` has written is still there when it starts
containers (`RecordedInv`), whoever is past `compose down` is past it for good
(`StoppedInv`), and what a reaper read before it decided is still so when it acts
(`ReadInv`). `ReapedWasExpired` then follows as `reap`'s clock is never ahead.

`EgressGateProofs` proves, from `GateAssumption`, for any list, hosts and
addresses:

* `GateTypeCorrect`: `GateSpec => []GateTypeOK`;
* `DecidesByList`: `GateSpec => DecidedByList`;
* `SplicesHeld`: `GateSpec => SplicedWasHeld`;
* `HeldSpliced`: `GateSpec => HeldIsSpliced`.

`ListInv` says that the lists are those of the mounted file whenever its time is
the recorded one and nothing was missed, and that they are once a quiet hook has
loaded. `CacheInv` says that an entry holds every address that its host will
have had for `DnsTTL` when the entry expires, and none that the host neither has nor
gave up since the gateway started (`Known`). How old one may be is not bounded.

`CredentialProofs` proves of `CredentialBroker`, from `StoreAssumption` and
`BrokerAssumption` (which has the patterns be finitely many), for any hosts,
patterns, secrets and handles:

* `BrokerTypeCorrect`, `InjectsOnOffer`, `ExactWins`, `HandleAlone`,
  `LeavesClean`: `BrokerTypeOK`, `InjectedWasOnOffer`, `ExactRecordApplies`,
  `HandleDecides`, `WireIsClean`;
* `BrokerKeepsStore`: `BrokerSpec => StoreSpec`.

`ExactWins` is about the headers that the exact record has: the other ones of a
request may still come from patterns. `LeavesClean` is about the wire: the request log,
which has names of headers and no values, is not part of this composition.

Every step of the composition is one of the store's or leaves it alone, so the
store's invariant is used and not proved again. `FlowInv` says what is decided at
each stage of a hook, `OfferInv` that what has been merged was on offer while the
request was under way and agrees with the exact record, `StoredInv` that redis
has of a handle what it was minted for and, once dead, nothing of a host.

`ModelsConfigProofs` proves, from `ConfigAssumption`, for any launches, providers,
texts, crashes and edits:

* `ConfigTypeCorrect`, `NeverHalfWritten`, `UserFileSurvives`, `BackupIsOriginal`,
  `LaunchesLeaveText`: `ConfigTypeOK`, `LiveIsWhole`, `UserFileKept`,
  `BackupIsTheUsers`, `SettledHasText`;
* `MergesOnlyItsBlock`: `ConfigSpec => LaunchMerges`.

`SoloInv` describes the files around the one launch that is at work, stage by
stage. `KeptInv` says where the user's file is at each of them. `TextInv` is about
launches that overlap: whoever has a file open is still going to write it, so
that an empty model file always has a writer. `QuietInv` says that an undisturbed
launch has in memory what is in the file.

`LaunchProofs` proves, for any models, servers, commands and windows, from
`ProbeAssumption` and `ContextAssumption`:

* `ContextTypes`: `ContextSpec => []ContextTypeOK`;
* `WindowAlwaysFits`: `ContextSpec => []WindowFits`;
* `PinnedStays`: `ContextSpec => []PinnedIsKept`.

The types need that `Pick` chooses a model that the server lists, which
`FirstBySize` says of the largest of a filtered listing. What each command has
recorded of the given window is `PinInv`. `FitsInv` says at which stage of `up` and
`open` the recorded or the chosen window must fit what the server serves for the
model that `up` has measured (`Fits`): not while `up` goes on with a new choice, and
not in `open` before it has asked an Ollama server again.

`GuardFailsSafe`, `GuardSpec => []FailsSafe`, rests on `ScopeAssumption`. `GuardInv`
says that the hook has judged by some first lines of what the user saves, and by what
had come of the next one. `EachLineAdds` says that a line takes nothing off the lists
and does not turn enforcement on again, if each key comes once; `PartBelowWhole` takes
that to the end of the file. `CutAdds` says that a line which was cut adds to the lines
before it no more than what it lists itself (`CutPatterns`).

`PortsStayApart`, `PortsSpec => []PortsApart`, rests on `PortsAssumption` and holds
for any sandboxes, shells and ports. `Avoiding` says that a shell which has chosen
has avoided what was recorded when it looked, or has met who recorded it since; for
that, shells which choose at one time have met (`HaveMet`).

`GatewayLogProofs` proves, from `CaptureAssumption`, for any exchanges and limits:

* `CaptureTypes`, `BudgetKept`: `CaptureTypeOK`, `BudgetHolds`;
* `OldestFirst`: `CaptureSpec => OldestGoFirst`;
* `CaptureImplementsLog`: `CaptureSpec => FlywheelIsALog`;
* `RecordsReadOnce`: `ReaderSpec => []ReadOnce`.

`CaptureInv` adds to the types what counts up (`Counted`) and that the files are in
order (`InOrder`): a file that was written last before another one has the earlier
records, and is not written again. From it follows `BeforeIsLess`: the order in
which the records stand is that of their numbers. The refinement is then about
sets of numbers: a rotation loses nothing, or the file it replaces, which is a
block of neighbours; a prune loses the oldest file; a torn line the last record.
`SpaceInv` says that pruning has left the directory under the budget, plus what was
written since. `ReadInv` says of the reader that the files it has still to read
share no record with what it has read, whichever way they are renamed.

From `RequestLogAssumption`:

* `LogSizeBounded`: `RequestLogSpec => []SizeBounded`;
* `RequestLogImplementsLog`: `RequestLogSpec => RequestLogIsALog`.

`SizeInv` says that what `_trim` has in memory is never longer than the limit, and
that the file has no more lines than the limit, the setbacks (`Allowed`) and the writes
since the last look (`Since`) account for; `TextInv`
that the numbers in the file, or in memory while it is empty, go up.
`ToldBeforeIsLess` is `BeforeIsLess` for this log.

`HostViewProofs` proves, from `WebUiAssumption`, for any POSTs and hosts,
`OkStaysFinal` and `NamesEveryHost`: `OkIsFinal` and `EveryHostNamed`. `PostInv`
says that the results are those of the first hosts of the list, that the host
whose turn it is is the only one a call is waiting for, and that calls under way
are for hosts with a result or for that one. `ItemsListOnce` says that the list
has each host that was pasted, once.

It proves `AssemblesMessage`, `StreamSpec => []AssembledIsMessage`, from
`StreamAssumption`, for any message and both dialects. `SoFar` is what has been told
of a message, `StreamInv` that collecting the events yields it (`CollectsTo`).
`CollectsMore` says that one more event adds what `Added` adds; each action of the
server then has a lemma. `DumpedSaysTheSame` says that arguments which `json.dumps`
has written are what it would write of them again. `ToolsAreCalls` says that in the
end the calls are in the order of their indices, as the message has them.

Loops of the code are recursive functions here (`Loading`, `Collected`, `Listing`).
`InductionFacts` states induction for sets of naturals, which the provers can use
where they cannot use induction for operators: `Iteration` says that a start and
steps make a function, so that the recursive definition has the value it is
written to have, and `Induction` what holds of each of its values.

Only model-checked: `OperationsAnswered`, `RequestDecided` and `OverdueEnds`, since
liveness under fairness is out of the prover's reach.

## 5. Plan

What is left, in this order:

1. `Migration`: the legacy state, moved file by file and interrupted
   (`sandbox:176`): once the control directory has moved, the next run does not
   look for the rest.
2. `FuseFilter`: lookup and listing agree, hidden stays hidden, the cache.
3. `GatewayBoot`: boot order against the healthcheck; the two firewalls as one
   policy.
4. `HeaderMerge`: patterns and records merged case-sensitively into a
   case-insensitive request.
5. The ports of the app and of Caido in `HostPorts`; the re-pointing of allowed
   requests to Caido in `EgressGate`.
6. An abstract lifecycle (up, running, ended) that `SandboxLifecycle` implements.

Theorems worth proving: what is left of a migration; that a hidden path stays
hidden; the abstract lifecycle.

## 6. Not modelled

Dockerfiles, compose overlays, installers, systemd units and documentation have
no behaviour of their own here. The FUSE filter and
the gateway's boot are planned. In the modelled parts these are left out:
`flywheel.py`'s statistics, filters and exports, which compute over what `load`
yields; `fill.py`, a batch client of the control socket; the web UI's login, pages
and log tail; `spawn`, `run` and `ls` of the command line, which call
what is modelled or only read; the registry of harnesses and the skills in
`lib.sh`; `probe_models.py --input` and its listing, which print. HTML,
formatting, masking and logging are left out everywhere. TLS, DNS and iptables
are outside the code; where the code relies on them they become inputs or
external definitions.
