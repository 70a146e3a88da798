------------------------------- MODULE Daemon -------------------------------
(***************************************************************************)
(* The daemon process (core/src/runner.rs): it loads the saved rules,      *)
(* spawns the IPC server, the lookups and the rules watch, and shuts down. *)
(* The rules watch is the only task that evicts cached answers and the     *)
(* only one that saves the persistent rules; it learns of changes from the *)
(* event channel alone.                                                    *)
(*                                                                         *)
(* Two history variables say why something may have gone wrong, so that    *)
(* the invariants can say that nothing else ever does:                     *)
(*   excuse[n]  why the resolver may be outdated about the name n          *)
(*   lost       why the file may differ from the persistent rules          *)
(***************************************************************************)
EXTENDS Resolver

CONSTANTS Saved,      \* the rules on disk before the first start
          MaxBoots,   \* bound: starts of the daemon
          MaxFaults   \* bound: crashes and failed saves

ASSUME BoundsAssumption == MaxBoots \in Nat /\ MaxFaults \in Nat
ASSUME WatchAssumption == "watch" \in Receiver

(* The file is one the daemon wrote: no two rules of one domain. *)
ASSUME SavedAssumption == Saved \in Seq(Rule) /\ UniqueDomains(Saved)

VARIABLES main,     \* where run is: down, spawned, running, joining, exited
          watch,    \* the rules watch task
          disk,     \* the rules file
          boots, faults,
          excuse, lost

daemonVars == <<main, watch, disk, boots, faults>>
vars == <<appVars, resolverVars, daemonVars, excuse, lost>>

(* The rules file.  confy::load fails on one that a write left half done,  *)
(* and load_rules goes on with no rules.                                   *)
File(rules) == [intact |-> TRUE, rules |-> rules]
Torn == [intact |-> FALSE, rules |-> << >>]

Loaded(file) == IF file.intact THEN file.rules ELSE << >>

NoWatch == [pc |-> "none", event |-> None, rules |-> << >>]

Init ==
  /\ AppInit(EmptyStore)
  /\ ResolverInit(<< >>)
  /\ main = "down"
  /\ watch = NoWatch
  /\ disk = File(Saved)
  /\ boots = 0
  /\ faults = 0
  /\ excuse = [n \in Name |-> {}]
  /\ lost = {}

Alive == main \in {"spawned", "running", "joining"}

-----------------------------------------------------------------------------
(* History. *)

(* The file does not hold the persistent rules, or a save under way is     *)
(* about to write others.                                                  *)
Holds(rules) == AddAll(EmptyStore, rules).persistent = store.persistent
Unsaved == ~Holds(Loaded(disk)) \/ (watch.pc = "store" /\ ~Holds(watch.rules))

(* A step in which the watch misses the events E for the reason why. *)
Track(E, why) ==
  /\ excuse' = [n \in Name |->
       IF ~Outdated(n)' THEN {}
       ELSE excuse[n] \cup
            {why : e \in {x \in E : IsRuleEvent(x) /\ Matches(x.rule, n)}}]
  /\ lost' = IF ~Unsaved' THEN {}
             ELSE lost \cup {why : e \in {x \in E : IsPersistentEvent(x)}}

Missed(e) ==
  Track(MissedBySend(bus["watch"], e),
        IF bus["watch"].subscribed THEN "lag" ELSE "unheard")

-----------------------------------------------------------------------------
(* Start. *)

(* Mutant: ephemeral rules are carried over to the next life. *)
BootKeepsEphemeral ==
  LET rules == Loaded(disk) IN
  /\ main \in {"down", "exited"}
  /\ boots < MaxBoots
  /\ boots' = boots + 1
  /\ main' = "spawned"
  /\ store' = [AddAll(EmptyStore, rules) EXCEPT !.ephemeral = store.ephemeral]
  /\ bus' = [r \in Receiver |-> NoReceiver]
  /\ token' = FALSE
  /\ handler' = [c \in Client |-> Idle]
  /\ served' = 0
  /\ cache' = [n \in Name |-> None]
  /\ certs' \in SUBSET Presigned(rules)
  /\ lookup' = [t \in Lookup |-> NoLookup]
  /\ watch' = NoWatch
  /\ excuse' = [n \in Name |-> {}]
  /\ lost' = {}
  /\ UNCHANGED <<disk, faults>>

(* load_rules, pre-signing, and the spawns up to the proxy (runner.rs:13). *)
(* Signing may fail, and nothing is signed unless the CA is installed.     *)
Boot ==
  LET rules == Loaded(disk) IN
  /\ main \in {"down", "exited"}
  /\ boots < MaxBoots
  /\ boots' = boots + 1
  /\ main' = "spawned"
  /\ store' = AddAll(EmptyStore, rules)
  /\ bus' = [r \in Receiver |-> NoReceiver]
  /\ token' = FALSE
  /\ handler' = [c \in Client |-> Idle]
  /\ served' = 0
  /\ cache' = [n \in Name |-> None]
  /\ certs' \in SUBSET Presigned(rules)
  /\ lookup' = [t \in Lookup |-> NoLookup]
  /\ watch' = NoWatch
  /\ excuse' = [n \in Name |-> {}]
  /\ lost' = {}
  /\ UNCHANGED <<disk, faults>>

(* The watch subscribes when it is spawned, after the IPC server. *)
Subscribe ==
  /\ main = "spawned"
  /\ main' = "running"
  /\ watch' = [watch EXCEPT !.pc = "recv"]
  /\ Receive("watch", NewReceiver)
  /\ UNCHANGED <<store, token, handler, served, resolverVars, disk, boots, faults>>
  /\ Track({}, "none")

-----------------------------------------------------------------------------
(* The rules watch. *)

(* Mutant: the loop does not listen to the token. *)
WatchExitNever == FALSE

(* select! is not biased: with the token cancelled and events waiting it   *)
(* may take either.                                                        *)
WatchExit ==
  /\ watch.pc = "recv"
  /\ token
  /\ watch' = [watch EXCEPT !.pc = "done"]
  /\ Receive("watch", NoReceiver)
  /\ UNCHANGED <<store, token, handler, served, resolverVars,
                 main, disk, boots, faults>>
  /\ Track(ToSet(bus["watch"].queue), "stop")

(* Mutant: a lagged receiver ends the loop. *)
WatchLaggedBreaks ==
  /\ watch.pc = "recv"
  /\ bus["watch"].lagged
  /\ watch' = [watch EXCEPT !.pc = "done"]
  /\ UNCHANGED <<appVars, resolverVars, main, disk, boots, faults>>
  /\ Track({}, "none")

WatchLagged ==
  /\ watch.pc = "recv"
  /\ bus["watch"].lagged
  /\ Receive("watch", TakeLagged(bus["watch"]))
  /\ UNCHANGED <<store, token, handler, served, resolverVars, daemonVars>>
  /\ Track({}, "none")

WatchRecv ==
  LET e == Head(bus["watch"].queue) IN
  /\ watch.pc = "recv"
  /\ HasMessage(bus["watch"])
  /\ Receive("watch", TakeMessage(bus["watch"]))
  /\ watch' = IF IsRuleEvent(e)
              THEN [watch EXCEPT !.pc = "invalidate", !.event = e] ELSE watch
  /\ UNCHANGED <<store, token, handler, served, resolverVars,
                 main, disk, boots, faults>>
  /\ Track({}, "none")

(* Mutant: only persistent events evict. *)
WatchInvalidatePersistent ==
  LET e == watch.event IN
  /\ watch.pc = "invalidate"
  /\ IF IsPersistentEvent(e) THEN Invalidate(e.rule) ELSE UNCHANGED <<cache, certs>>
  /\ watch' = [watch EXCEPT !.pc = IF IsPersistentEvent(e) THEN "save" ELSE "recv",
                            !.event = None]
  /\ UNCHANGED <<appVars, lookup, main, disk, boots, faults>>
  /\ Track({}, "none")

(* Mutant: removals are evicted but not saved. *)
WatchInvalidateSavesAdds ==
  LET e == watch.event IN
  /\ watch.pc = "invalidate"
  /\ Invalidate(e.rule)
  /\ watch' = [watch EXCEPT !.pc = IF e.kind = "RuleAdded" THEN "save" ELSE "recv",
                            !.event = None]
  /\ UNCHANGED <<appVars, lookup, main, disk, boots, faults>>
  /\ Track({}, "none")

WatchInvalidate ==
  LET e == watch.event IN
  /\ watch.pc = "invalidate"
  /\ Invalidate(e.rule)
  /\ watch' = [watch EXCEPT !.pc = IF IsPersistentEvent(e) THEN "save" ELSE "recv",
                            !.event = None]
  /\ UNCHANGED <<appVars, lookup, main, disk, boots, faults, lost>>
  /\ excuse' = [n \in Name |->
       CASE ~Outdated(n)' -> {}
         [] Matches(e.rule, n) /\ HeldOutdated(n)' -> {}
         [] Matches(e.rule, n) /\ ~HeldOutdated(n)' /\ CarriedOutdated(n)' -> {"race"}
         [] OTHER -> excuse[n]]

(* AppState::save takes its snapshot ... *)
WatchSnapshot ==
  /\ watch.pc = "save"
  /\ watch' = [watch EXCEPT !.pc = "store", !.rules = PersistentRules(store)]
  /\ lost' = {}
  /\ UNCHANGED <<appVars, resolverVars, main, disk, boots, faults, excuse>>

(* ... and writes it.  A failure is logged and forgotten, and may leave    *)
(* the old file or half of the new one.                                    *)
WatchStore ==
  /\ watch.pc = "store"
  /\ watch' = [watch EXCEPT !.pc = "recv", !.rules = << >>]
  /\ UNCHANGED <<appVars, resolverVars, main, boots, excuse>>
  /\ \/ /\ disk' = File(watch.rules)
        /\ lost' = IF Unsaved' THEN lost ELSE {}
        /\ UNCHANGED faults
     \/ /\ faults < MaxFaults
        /\ faults' = faults + 1
        /\ disk' \in {disk, Torn}
        /\ lost' = IF Unsaved' THEN lost \cup {"save"} ELSE {}

WatchStep ==
  /\ Alive
  /\ \/ WatchExit \/ WatchLagged \/ WatchRecv
     \/ WatchInvalidate \/ WatchSnapshot \/ WatchStore

-----------------------------------------------------------------------------
(* Shutdown. *)

(* The token was cancelled by a Stop request: one more DaemonStopped. *)
ShutdownRequested ==
  /\ main = "running"
  /\ token
  /\ bus' = Send(bus, DaemonStopped)
  /\ main' = "joining"
  /\ UNCHANGED <<store, token, handler, served, resolverVars,
                 watch, disk, boots, faults>>
  /\ Missed(DaemonStopped)

(* SIGINT or SIGTERM: no event. *)
Signal ==
  /\ main = "running"
  /\ token' = TRUE
  /\ main' = "joining"
  /\ UNCHANGED <<store, bus, handler, served, resolverVars,
                 watch, disk, boots, faults>>
  /\ Track({}, "none")

(* join! and the end of the runtime, which lets handlers and lookups that  *)
(* are running reach their next await.                                     *)
Exit ==
  /\ main = "joining"
  /\ watch.pc = "done"
  /\ \A c \in Client : handler[c].pc = "idle"
  /\ \A t \in Lookup : lookup[t].pc = "idle"
  /\ main' = "exited"
  /\ UNCHANGED <<appVars, resolverVars, watch, disk, boots, faults, excuse, lost>>

(* kill -9, a panic that aborts, a power cut. *)
Crash ==
  /\ Alive
  /\ faults < MaxFaults
  /\ faults' = faults + 1
  /\ main' = "down"
  /\ disk' \in IF watch.pc = "store" THEN {disk, Torn, File(watch.rules)} ELSE {disk}
  /\ UNCHANGED <<appVars, resolverVars, watch, boots, excuse, lost>>

-----------------------------------------------------------------------------
(* Requests, while the process lives. *)

ServeMutate(c, o) ==
  /\ Alive
  /\ Mutate(c, o)
  /\ UNCHANGED <<resolverVars, daemonVars>>
  /\ excuse' = [n \in Name |->
       CASE ~Outdated(n)' -> {}
         [] /\ Outdated(n)'
            /\ o.kind \in {"remove", "remove_ephemeral"} /\ IsWildcard(o.domain)
            /\ Resolve(store, n) # Resolve(store', n)
            /\ ~Matches(handler'[c].event.rule, n) -> excuse[n] \cup {"reorder"}
         [] OTHER -> excuse[n]]
  /\ lost' = IF Unsaved' THEN lost ELSE {}

ServeStop(c) ==
  /\ Alive
  /\ Stop(c)
  /\ UNCHANGED <<resolverVars, daemonVars>>
  /\ Track({}, "none")

ServePublish(c) ==
  /\ Alive
  /\ Publish(c)
  /\ UNCHANGED <<resolverVars, daemonVars>>
  /\ Missed(handler[c].event)

ServeCancel(c) ==
  /\ Alive
  /\ CancelToken(c)
  /\ UNCHANGED <<resolverVars, daemonVars>>
  /\ Track({}, "none")

HandlerStep(c) == ServePublish(c) \/ ServeCancel(c)

ServeLookup(t) ==
  /\ Alive
  /\ LookupStep(t)
  /\ UNCHANGED daemonVars
  /\ Track({}, "none")

Next ==
  \/ Boot \/ Subscribe
  \/ WatchStep
  \/ ShutdownRequested \/ Signal \/ Exit \/ Crash
  \/ \E c \in Client : \/ \E o \in Request : ServeMutate(c, o)
                       \/ ServeStop(c)
                       \/ HandlerStep(c)
  \/ \E t \in Lookup : ServeLookup(t)

Spec == Init /\ [][Next]_vars

(* Spawned tasks and handlers that are running keep running; nothing makes *)
(* clients ask, users start or stop, or machines fail.  A lookup inside    *)
(* resolve_domain has no await and runs to its end.                        *)
Fairness ==
  /\ WF_vars(Subscribe)
  /\ WF_vars(WatchStep)
  /\ WF_vars(ShutdownRequested)
  /\ WF_vars(Exit)
  /\ \A c \in Client : WF_vars(HandlerStep(c))
  /\ \A t \in Lookup : WF_vars(lookup[t].pc # "idle" /\ ServeLookup(t))

FairSpec == Spec /\ Fairness

-----------------------------------------------------------------------------

(* The daemon's state: no receiver holds more than the channel's capacity  *)
(* (state.rs:29), and nothing but the listed causes is ever recorded.      *)
TypeOK ==
  /\ AppTypeOK
  /\ ResolverTypeOK
  /\ main \in {"down", "spawned", "running", "joining", "exited"}
  /\ watch \in [pc : {"none", "recv", "invalidate", "save", "store", "done"},
                event : Event \cup {None}, rules : Seq(Rule)]
  /\ disk \in [intact : BOOLEAN, rules : Seq(Rule)]
  /\ boots \in 0..MaxBoots /\ faults \in 0..MaxFaults
  /\ excuse \in [Name -> SUBSET {"lag", "unheard", "stop", "race", "reorder"}]
  /\ lost \subseteq {"lag", "unheard", "stop", "save"}

(* Events that the watch has yet to act upon. *)
Unhandled ==
  {handler[c].event : c \in {x \in Client : handler[x].pc = "publish"}}
    \cup ToSet(bus["watch"].queue)
    \cup (IF watch.pc = "invalidate" THEN {watch.event} ELSE {})

EvictionComing(n) ==
  \E e \in Unhandled : IsRuleEvent(e) /\ Matches(e.rule, n)

SaveComing ==
  \/ \E e \in Unhandled : IsPersistentEvent(e)
  \/ watch.pc = "save"
  \/ watch.pc = "store" /\ Holds(watch.rules)

(* Whatever the cache, the certificate cache or a lookup in flight holds   *)
(* about a name agrees with the store, or the eviction of the name is on   *)
(* its way (runner.rs:85, resolver.rs:54) - except after one of five       *)
(* accidents: the watch lagged, was not subscribed, stopped with events    *)
(* waiting, evicted the name while a lookup was about to insert an older   *)
(* answer, or a removal reordered wildcards the event does not match.      *)
Coherent ==
  Alive => \A n \in Name : Outdated(n) => excuse[n] # {} \/ EvictionComing(n)

(* The rules file holds the persistent rules, or a save that will write    *)
(* them is on its way (runner.rs:94) - except when the watch lagged, was   *)
(* not subscribed or stopped with the event waiting, or the save failed.   *)
Durable ==
  Alive /\ Unsaved => lost # {} \/ SaveComing

(* Short of those accidents, an outdated answer does not last.             *)
EventuallyFresh ==
  \A n \in Name :
    Alive /\ Outdated(n) ~> ~Outdated(n) \/ excuse[n] # {} \/ ~Alive

(* Short of those accidents, every change of a persistent rule reaches the *)
(* file.                                                                   *)
EventuallySaved ==
  Alive /\ Unsaved ~> ~Unsaved \/ lost # {} \/ ~Alive

(* The next daemon has exactly the persistent rules of the last one, in    *)
(* the order that decides between wildcards, and no ephemeral ones         *)
(* (state.rs:56, 67) - after a graceful stop, a signal or a crash, unless  *)
(* one of the accidents of Durable happened or the crash overtook a save.  *)
RestartKeepsRules ==
  [][/\ main \in {"down", "exited"} /\ main' = "spawned"
     /\ boots > 0 /\ lost = {} /\ ~SaveComing
     => store' = [EmptyStore EXCEPT !.persistent = store.persistent]]_vars

(* Once the token is cancelled the daemon exits: every task it joins       *)
(* (runner.rs:135) ends.                                                   *)
StopCompletes == Alive /\ token ~> ~Alive

(* README: a persistent rule "Survives restart".  A graceful stop loses no *)
(* acknowledged change of the persistent rules (runner.rs:85).             *)
StopKeepsRules ==
  main = "exited" /\ Unsaved => lost \ {"stop"} # {}
=============================================================================
