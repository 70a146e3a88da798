# SideDNS in TLA+

SideDNS is a daemon that maps domain names to local services: an IPC server
changes a rule store, a DNS server and a proxy answer from it through a cache,
a manager keeps the system's resolver in step with it, and a watch saves it.
These modules model that core, TLC checks it on small instances, and TLAPS
proves the results listed below for every instance.

Run a check with `tlc -config X.cfg MCModule`, a proof with
`tlapm X_proof.tla`. `PROJECT.json` lists the runs, the source lines behind
every definition, the hazards and the findings.

## The system

| Part | State | Operations | Interacts through |
| ---- | ----- | ---------- | ----------------- |
| Rules (`core/src/rule.rs`, `lib.rs`) | none | `matches`, `validate_domain` | called everywhere |
| `InnerRuleStore` (`store.rs`) | two maps, two vectors | add, remove, ephemeral variants, resolve, enumerate | value behind the `ArcSwap` |
| `RuleStore` (`store.rs`) | the `ArcSwap` | the same, through `rcu` | shared by all tasks |
| `AppState` and the IPC handler (`state.rs`, `ipc/handler.rs`) | store, event channel, cancellation token | Add, Remove, AddEphemeral, RemoveEphemeral, List, Resolve, Status, Stop | changes the store, then sends an event |
| Event channel (tokio `broadcast`, 64 messages) | one queue per receiver | send, subscribe, receive, lag | handler to watch, manager, subscribers |
| `DomainResolver` (`dns/resolver.rs`) | rule cache, certificate cache | `resolve_domain`, TLS handshake, `invalidate` | read by DNS server and proxy, evicted by the watch |
| Rules watch and `run` (`runner.rs`) | the rules file | evict, save, start, stop, join | events, token, signals |
| System DNS manager (`dns/sys`) | drop-in file or an entry per domain, resolver's routes | apply, revert | events, token; `sidedns clean` from outside |
| IPC server, client (`ipc/server.rs`, `client.rs`) | socket, streams | accept, handle, subscribe | processes on the machine |
| `sidedns run` (`cli/src/commands/run.rs`) | its command, its ephemeral rule | launch, add, follow the stream, remove | IPC |
| `sidedns daemon start/stop` (`cli`) | PID file, socket | probe, start, stop | IPC, processes |
| DNS server (`dns/server.rs`, `dns/mod.rs`) | queries | answer, forward, stop | resolver, token; clients' caches |
| Proxy (`proxy/server.rs`) | connections | accept, handshake, serve, dial, tunnel, stop | resolver, token; clients and targets |
| Certificates (`certs`, `commands/cert.rs`) | CA files, trust stores | install, uninstall, trust, untrust | files, external tools, the daemon's start |

What is hard here: several tasks read and write the store without a lock;
the handler's change and its event are two steps; every follower learns of
changes only from a channel that may drop messages, from before it subscribed
or after the token was cancelled; the cache is filled by lookups that race
with evictions; files and routes outlive a process that may crash between any
two steps; sessions outlive daemons; answers, connections and redirects that
clients keep outlive the rules they came from; a CA is two files and three
stores, each changed in a step that may fail.

What makes each part correct: the store is an atomic object with the
documented priority; the caches and the file agree with it or are about to;
the routes agree with it and are gone when the daemon is; a session's rule is
there while its command runs and not afterwards; a reply is what the rule in
force says; what a user is told of the CA is true; a stop ends everything.

## Modules

| Module | Models | State and actions |
| ------ | ------ | ----------------- |
| `DnsRule` | `rule.rs`, `validate_domain` | operators on domains as label sequences |
| `InnerRuleStore` | `InnerRuleStore` | operators; the code's four collections are two layers of a map and a vector |
| `AtomicObject` | what callers may assume | abstract specification: a call is one step |
| `RuleStore` | `RuleStore` over arc-swap | `Invoke`, `Load`, `Closure`, `Swap`, `SwapFails` per caller |
| `Broadcast` | tokio's broadcast channel (external) | operators on receivers |
| `AppState` | `state.rs`, `handler.rs` | `Mutate`, `Stop`, `Publish`, `CancelToken` per connection |
| `Resolver` | `dns/resolver.rs` | `CacheMiss`, `CacheHit`, `ReadStore`, `Fill`, `Sign` per lookup, `Invalidate` |
| `Daemon` | `runner.rs`, `save`, `load_rules` | composes `AppState` and `Resolver` with the watch, start, stop, crash |
| `SystemDns` | `dns/sys/mod.rs`, `systemd.rs`, `macos.rs`, `windows.rs`, `clean.rs` | composes `AppState` with the manager, its configurator on each platform, and `clean` |
| `RunCommand` | `commands/run.rs`, `handle_subscribe`, `IpcClient` | composes `AppState` with sessions and their streams |
| `Lifecycle` | `daemon start`/`stop`, `run_daemon`, `IpcServer::serve`, what processes share | several daemon processes, each with its IPC, server and manager tasks, and the commands that start and stop them |
| `DnsServer` | `DnsHandler`, `run_dns_server` | a client's queries and answers by type: `Resolve`, `Forward`, `QueryFails`, `Expire`, `StopDns`, `DnsEnds` |
| `Proxy` | `ProxyServer`, `serve_http`, `serve_https` | connections as descriptors: `Accept`, `Handshake`, `Serve`, `Connect`, `Answer`, `Close`, `Cancelled` |
| `Traffic` | clients between the two, `run_proxy_server` | composes `DnsServer` and `Proxy` with clients, changes of the rule and the stop |
| `Certificates` | `ca.rs`, `certs/trust`, `commands/cert.rs`, the CA in `runner.rs` and `proxy` | commands as processes over two files, a system store, browser profiles and a Java keystore; the daemon's two reads |
| `MC*` | | constants of the runs |
| `*_proof` | | theorems |

`RuleStore` shows that a call of the store is one atomic step, so `AppState`
and all that builds on it make it one step. The two processes that follow the
events, the watch (`Daemon`) and the manager (`SystemDns`), never touch each
other's state and are checked apart, each with its own restarts. `Traffic`
takes from them what `resolve_domain` answers for one name, as `rule`, and
lets it change at any moment; what that answer may be is `Daemon`'s `Coherent`.

Abstractions worth knowing: a domain is a sequence of labels in lower case. A
`HashMap` enumerates in some fixed order. A receiver's queue holds the
messages it has yet to see. Requests that change nothing (List, Resolve,
Status, refused ones) are operators and take no step. Cache evictions for all
matching names are one step. A crash may leave the rules file old, new or
torn. The drop-in file is the set of its routes. `boots`, `faults`, `served`
and their like are bounds, named `Max...` in the configurations. In `Traffic`
headers and bodies are left out, a WebSocket is a choice of client and target
together, and requests to the site outside SideDNS are one step. In
`Certificates` a CA is its number, distributions that work alike are one
platform, and commands that end for want of privileges do not begin.

Variables that only record history: `excuse` and `lost` (`Daemon`) collect the
accident that made a name outdated or the file differ, and are emptied when
the difference is gone; `tampered` and `unreverted` (`SystemDns`) say that
`clean` removed something since the last apply began, or an old entry could
not be read, and that the last revert left something: it failed, or, on macOS,
passed over a file it could not read and reported success (`macos.rs:29`);
`crashed`, `failed` and `shared` (`Lifecycle`) name the processes that crashed,
the tasks that met an error and the processes that were up beside another;
`seen` (`Proxy`) holds the rules in force since a
request began; `overlapped` (`Certificates`) says that two commands ran at
once, `daemon.raced` that the certificate's file changed between the daemon's
read of it and that of the key. In `RunCommand` a session ends as "cut" when a
call to the daemon failed, and as "killed" when it was.

Errors of the code's calls are steps of their own, counted by `MaxFaults`,
wherever a `?` or a logged error follows: in `RunCommand` any connection may
fail although the daemon lives, a read may, and one error of `accept()` ends
the accept loop while the daemon goes on (`ipc/server.rs:153`; `listening`). In
`Lifecycle` every task may fail by itself: the removal of the path, the bind of
each socket, `accept()`, the upstream resolver, an apply, which ends the manager
without the revert, and a revert, which is logged. In `Traffic` the DNS server
may not start or may end (`dns/mod.rs:47`), and the daemon has loaded a CA or
none (`ca`), apart from whether the proxy serves HTTPS. In `Certificates` the
daemon's load is two reads, and each command finds its own tools, by its `PATH`
and `JAVA_HOME`.

## Runs

| Run | Shows |
| --- | ----- |
| `store` | 2 threads, 4 calls out of 7 requests on 4 domains (a wildcard above a wildcard, an exact name below, one apart), both layers: rcu refines `AtomicObject`, and every call returns; `resolve` is the first match of the documented order, adding is local to the names the rule matches, vectors hold a domain once, save and load give the persistent layer back in order |
| `store_overlap` | violation: removing a wildcard is not local, because of `swap_remove` |
| `daemon_cache` | 2 clients on an exact rule and overlapping wildcards, 1 lookup, channel of 1: what the caches hold agrees with the store, or the eviction is coming, or one of the accidents lag, unheard, stop, race, reorder is on record; otherwise nothing stays outdated |
| `daemon_disk` | 2 starts, 1 fault: the file holds the persistent rules, or the save is coming, or one of lag, unheard, stop, save is on record; every change is saved otherwise; a daemon starts with exactly the persistent rules of the last one, in their order, unless one of these is on record or a save was still to come; a stop ends the daemon |
| `daemon_stop_loses` | violation: a graceful stop loses an acknowledged change, without any request after the stop |
| `dns_sync` | 3 platforms, 2 clients, channel of 1, 2 starts, a fault or crash, a `clean`: a waiting manager has loaded the store's routes or an event is on its way; those routes cover every rule; routes follow the rules; a stop ends and leaves neither file nor routes unless apply or revert failed |
| `dns_residue` | violation, on systemd: the first apply is loaded, the write of the next one fails and ends the manager; after the stop the file, cut short, and the loaded routes are still there |
| `run_sessions` | a session, a client that changes other rules and stops the daemon, 2 starts, a crash, a kill, a failed connection or the end of the accept loop: the session has its rule while it runs, no ephemeral rule is left without a session that has yet to remove it, unless that was killed or cut off or the daemon is stopping, and the session ends with its command and with its daemon |
| `run_shared` | violation: of two sessions of one domain, the first to end removes the other's rule |
| `two_daemons` | 2 commands of any kind, 2 daemon processes, a crash or a failed task, signals: a daemon that no other ran beside has its socket, ports and routes, but for the task that failed; path and routes hold nothing of a daemon that exited, however they overlapped, unless the task that should remove it failed; a daemon told to stop can always go on until it is gone |
| `certs` | 2 commands on 4 machines (Debian or Fedora, Arch, macOS or Windows, no supported store; on the last they overlap, and one does not find keytool), 2 CAs, 2 failures or crashes, a daemon: one failure leaves no certificate beside another's key; "Trusted" is true of the CA on disk; without a failure, and with the same tools, no store keeps a CA that is gone; a daemon on HTTPS has a pair the stores trust, unless the CA was replaced between its two reads |
| `traffic` | 1 client, 2 descriptors, no rule, a plain and an https one with different targets, a change, a failure, the stop: with a CA loaded or none: each reply fits a rule in force during the request; the client ends up with what the last rule says; it is not left without replies, unless descriptors ran out, its target hangs or the DNS server ended; the stop ends the three servers |

Each violation run contradicts a sentence of the README or a comment, quoted
under `findings`. More differences were met and have no run: `daemon stop`
answers "Daemon stopped" once the socket is closed, before the routes are reverted
(`commands/daemon.rs:47`; README: "graceful shutdown + revert DNS config"), so
that the old daemon may revert the routes and remove the socket file of the
next, which is why `AloneIsWhole` speaks only of daemons that no other ran
beside; `stop` does not use the PID file (`commands/daemon.rs:32` says it
does); a lookup that read the store before a change may insert its answer after
the eviction, and the cache stays outdated (`resolver.rs:38`, the accident
"race" of `Coherent`; README: "instantly"); `cert install --force` does not
"re-generate" (`cli.rs:56`, `cert.rs:14`): `load_or_generate` loads what is
there, and the theorem `CaAlwaysStable` says that no install ever replaces a
whole CA; a daemon that reads the certificate before an uninstall and the key
after the next install serves HTTPS with two halves (`ca.rs:97`; README:
"Browsers see a valid certificate"), which `BrowsersAccept` excludes; an
uninstall that does not find keytool or certutil reports success and leaves the
CA trusted (`java.rs:76`), which `NoOrphans` excludes; a session whose
`subscribe` or `RemoveEphemeral` cannot connect leaves its rule in force
(`commands/run.rs:117`, `151`), which `EphemeralOwned` excludes; on
Arch `uninstall` leaves the CA trusted (`system.rs:163`), which `NoOrphans`
excludes; a connection that ended well keeps its descriptor until the stop
(`proxy/server.rs:100`), which is why `KeepsReplying` speaks of clients that
still find one; the permanent redirect outlives the rule
(`proxy/server.rs:179`), as `AsRuled` says; `List` answers
with the persistent rules only (`handler.rs:74`; README: "persistent and
ephemeral"), and after a crash the routes stay until the next start or
`sidedns clean` (README: "No broken DNS after a crash").

**Bounds.** A channel of one or two messages stands for 64: lag needs more
events than fit, which two clients reach with two requests: one waits on the
channel while the other is in a handler. Each accident `Coherent` and `Durable`
name does occur within these bounds. Two starts let the second
find what the first left. Two wildcards above one name and a third apart are
what `swap_remove` needs to reorder. One lookup is enough to race with the
watch: lookups of one name write the same or an older answer. Other
clients of `run_sessions` stand for a second session of another domain; two
sessions of one domain are `run_shared`. Two commands and two processes give
two starts at once, a start beside a stop, and a start after a signal or a
crash; two probes stand for ten, and one server for three, since they share
nothing. Processes and commands are symmetric: a command takes any process that
was not used before. One crash or failed task is enough there: the next daemon
finds what it left. Two failures are what it takes to break
`PairMatches`, which claims one, and two CAs to leave an old one behind; the
machines differ in what the commands can be asked on them, so that pairs of
commands meet where stores are few and single ones where they are many. Two
descriptors let a plain and a TLS connection of one client coexist, and run
out; a client's own connections outlive its rules, so that one is enough.
Every condition of the properties is needed: without it TLC finds a violation
within these bounds. The theorems do not depend on these numbers.

**Deadlock** is not checked: every instance ends when its bounds are used up,
and a daemon that is down with no one to start it is a legal end.

**Fairness.** Weak fairness for tasks the runtime schedules: the threads
inside `rcu`, handlers that have begun, the watch, the manager, the streams,
`run` at its select and join, a session's own steps and a `clean` under way. A
lookup that has begun ends, since it has no await. In `Traffic` also for the
servers' steps, for targets, which answer unless one of the counted failures
hung them, and, as strong fairness, for clients that go on asking and answers
that expire; not for closing connections, ending tunnels or giving up, so that
the stop completes without them. Nothing makes users send
requests, start, stop or press Ctrl-C, commands end, or anything fail.

## Proofs

Every invariant and action property that a run checks is also a theorem, for
every value of the constants, and so is the refinement; `StopGoesOn` is the
one exception. The inductive invariants below were developed against TLC on
the instances of the runs.

`InnerRuleStore_proof`: every operation keeps a store well typed, well formed
and finite (`ApplyLemma`, `ApplyFinite`); a removal that finds nothing leaves
it unchanged (`NoneLeavesStore`); an add changes the answer only for names the
rule matches (`AddLocal`); `resolve` is the first match of `all_rules`
(`ResolveFirst`); loading a saved layer gives it back (`RoundTrip`); adding and
removing change the listed rules of one domain only (`AddToRules`,
`RemoveFromRules`). Well-formedness is needed because `swap_remove` and
`retain` act on one position only if a domain occurs once. Where an argument is
an induction along a list, it takes the least element of the set of
counterexamples (`Smallest`) or is given a set instead of a predicate (`UpTo`),
since the provers cannot instantiate the library's induction theorems.

`RuleStore_proof`: the inductive invariant `IInv` is `TypeOK`, well-formedness
of the store and of every value a writer holds, and `RcuInv`. Equal pointers
stand for equal values, so a swap that succeeds replaces exactly the value its
closure was given. From it: `TypeCorrect`, `StoreAlwaysWellFormed`,
`RcuCorrect`, and `RcuLinearizable`, the refinement of `AtomicObject`:
`Invoke` maps to `Invoke`, `Swap` to `Do`, everything else to a stutter. With
the lemmas above: `AddsAlwaysLocal`, `AlwaysFirstMatch` and `AlwaysRoundTrips`.
The last two need that maps are finite, which is an invariant and no
assumption: a store is built from the empty one, a rule at a time.

`Daemon_proof`: `TypeCorrect`, `AlwaysCoherent`, `AlwaysDurable`. `Coherent` and
`Durable` are inductive once it is known what the tasks hold (`Wired`: a
receiver that is gone has no queue, the watch does not take events before it
subscribed, whoever publishes or evicts has an event) and that the file, and
what a save is about to write there, load with all their exact rules (`Files`).
`TrackKeeps` is the step all actions share: an event that leaves the way
between handler and watch either is dealt with or is put on record. The proof
needs that the first file has no domain twice (`SavedAssumption`), as every
file the daemon writes; for one edited by hand, `runner.rs` may sign for a rule
that the store then drops. `RestartsKeepRules` says what a restart gives back.
`Durable` speaks of a living daemon, so its proof first carries `Durable`
through exit and crash (`AtRest`: while no daemon is there the file holds what
the last one's store held, or an accident or a save cut short explains it), and
then reads the start off it.

`SystemDns_proof`: `RoutesAlwaysCurrent`. `RoutesCurrent` says nothing of a
manager between snapshot and reload, so `Inv` adds that the snapshot is the
store's or a rule event is coming, that what was written is the snapshot and
what was loaded is what was written, that while entries are added exactly
those of the snapshot that are not to come are there, and in force at once,
that the receiver exists from the
subscription on, and that `DaemonStopped` is on the channel only while a stop
is under way, since a full channel drops the oldest message for it. The step
that matters is `Publish`: whatever the channel drops, the new event is in the
queue (`DeliverLemma`), and one event is enough because each apply takes the
whole store. `StopAlwaysReverts` adds that nobody writes a file between the
last revert and the next start (`Reverted`); `RulesAlwaysRouted` is about the
routes alone: their forms cover what exact rules and wildcards match
(`RouteCovers`). `TypeCorrect` has the rest of the types.

`RunCommand_proof`: `TypeCorrect`, and `AlwaysInForce` and `NeverLeftBehind`
for sessions that are `Apart`: no other session and no other client asks for
ephemeral rules of the domain. The code does not see to that (`run_shared`),
so it is a hypothesis of the two theorems, which the instance of
`run_sessions` meets. `Row` says of a session which life holds its rule and
whether it is in force at each point, that its subscription is to that life or
a later one, and that a pipe with `DaemonStopped` in it, or a stream closed
while the session was waiting, means that the life it came from is ending;
`Announced` says the same of the channel. The event is sent before the token is
cancelled, so the handler itself counts as a stop under way. `NeverLeftBehind`
and `EveryRuleHasAnOwner` allow any number of failed connections and accepts,
and say nothing of the sessions that were cut off by one: those do leave their
rules. `EveryRuleHasAnOwner` needs no hypothesis, and says what is left of the
promise when sessions share a domain: the other's rule may be taken away, but
none stays without an owner. The promises in `Row` are therefore guarded by
`Apart` and the rest of it is not. The argument follows a rule back to the add
that put it there: a session enters a rule only while it waits for the reply,
leaves the points where it is in charge only by the reply to its own removal or
by a stop, and that removal takes the rule of the domain away whoever added
it. TLC agrees on two sessions of one domain, with the constants of
`run_shared`.

`Lifecycle_proof`: `TypeCorrect`, `AloneAlwaysWhole`, `NothingEverLeft`. `Inv`
adds that processes up together are on record (`Together`), what a process that
was always alone can rely on between two steps, such as that the path is free
between the removal and the bind (`Whole`), that whoever holds socket or routes
has a task left that takes them away, or that failed (`HoldersAct`), and that
the crashed stay gone. Any number of tasks may fail; the two theorems excuse
only the task concerned, so they also say that no error spreads: a failed
server leaves the socket and the routes alone, a failed manager the ports.

`Traffic_proof`: `TypeCorrect`, `RepliesAlwaysFit`. `Remembers` says that a
connection under way has seen the rule in force, and goes by a rule it has
seen, on TLS if the rule asks for it. A certificate is needed for no reply, so that
`ca` plays no part in it.

`Certificates_proof`: `TypeCorrect`, `PairsAlwaysMatch`, `TrustedAlwaysTrue`,
`NeverOrphans`, `BrowsersAlwaysAccept`, `CaAlwaysStable`. `Inv` says what a
command knows whatever the others do (`Local`) and what it knows while it is
alone (`Knows`: what `load_or_generate` found, the first file it wrote, the
stores uninstall has been to), that the key goes last and comes last
(`KeyLast`), what the daemon holds between its two reads and after them
(`LoadedPair`), and which places are clean while nothing has failed and the
tools are the same (`Clean`). `KeyLast` is why a load whose certificate did not
change before its second read has a pair: the key on disk beside a certificate
is its own unless an uninstall or a save is between its two files.

Assumptions: the named `ASSUME`s of the modules, all evaluated by TLC on every
run. They say that requests are operations, `None` is no rule or process, the
capacity is positive, saved rules are ones a daemon saved, the watch, the
manager and the sessions have their receivers, profiles and stores have
different names, and bounds are numbers.

What the proofs changed: `NssNothingToDo` had two overlapping guards, so that
which one applied was a free choice; it now follows the order of the early
returns in `nss.rs`. `AddAll` is a recursive function instead of a fold, and
`Visit` lists the remaining stores without a filter, since neither could be
reasoned about; both compute what they did.

Only model-checked: what must eventually happen (`CallsReturn`,
`EventuallyFresh`, `EventuallySaved`, `RoutesFollow`, `SessionEnds`,
`EventuallyAsRuled`, `KeepsReplying`, the three `StopCompletes`), which rests
on fairness, and `StopGoesOn` of `Lifecycle`, which speaks of ENABLED: both out
of the provers' reach.

## Not modelled

The no-op configurator, which changes nothing, and on macOS a resolver file of
the user's own for a name that gets a rule: `apply` replaces it, and the revert
removes it. The proxy's header rewriting and the DNS server's other record types, which keep
no state. The printing commands, argument parsing, logging. `Daemon` and
`Lifecycle` take it that the DNS and proxy tasks end when the token is
cancelled, which `StopCompletes` of `Traffic` shows.

## Plan

1. Done: store, shared state, cached resolver, daemon, system DNS on the three
   platforms, sessions, the life of daemon processes, DNS and proxy traffic,
   certificates.
2. Done: every safety property of every run as a theorem.
3. Done: what liveness rests on and could be stated as safety: a restart gives
   the rules back, a rule has its owner.
4. Open: liveness and `StopGoesOn` as theorems, which need another prover.
