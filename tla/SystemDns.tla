------------------------------ MODULE SystemDns ------------------------------
(***************************************************************************)
(* The system DNS manager (run_system_dns_manager, core/src/dns/sys/mod.rs)*)
(* with its configurators.  On every rule event it applies all domains of  *)
(* the store; it reverts at start and at stop.                             *)
(*   systemd         one drop-in file, which the resolver reloads when it  *)
(*                   is told to (sys/systemd.rs)                           *)
(*   macos, windows  an entry per domain - a file, a policy rule - that    *)
(*                   the system reads by itself (sys/macos.rs, windows.rs) *)
(*                                                                         *)
(* Both outlive the process.  `sidedns clean` (cli/src/commands/clean.rs)  *)
(* reverts from another process.                                           *)
(***************************************************************************)
EXTENDS AppState

CONSTANTS Platform,   \* the platforms considered
          Saved,      \* the persistent layer before the first start
          MaxBoots,   \* bound: starts of the daemon
          MaxFaults,  \* bound: crashes and failed file or reload operations
          MaxCleans   \* bound: runs of `sidedns clean`

Tables == {"macos", "windows"}

ASSUME PlatformAssumption == Platform \subseteq Tables \cup {"systemd"}
ASSUME SavedAssumption == Saved \in Layer /\ LayerWellFormed(Saved)
ASSUME BoundsAssumption == {MaxBoots, MaxFaults, MaxCleans} \subseteq Nat
ASSUME ManagerAssumption == "manager" \in Receiver

VARIABLES platform,
          process,    \* down, up, joining
          mgr,        \* the manager task: pc, the snapshot it applies and
                      \* the domains of it that have no entry yet
          file,       \* the drop-in file, or the entries
          live,       \* what the system's resolver goes by
          stray,      \* a resolver file is there whose write was cut short:
                      \* it has neither nameserver nor mark
          cleaner,    \* `sidedns clean`: idle, removing or about to reload
          boots, faults, cleans,
          tampered,   \* history: since the last apply began, clean removed
                      \* something, or an old entry could not be read
          unreverted  \* history: the last revert left something: it failed, or
                      \* succeeded but for a file it could not read

sysVars == <<platform, process, mgr, file, live, stray, cleaner, boots, faults,
             cleans, tampered, unreverted>>
vars == <<appVars, sysVars>>

NoFile == [present |-> FALSE, routes |-> {}]

(* A drop-in file is there even without routes. *)
Config(p, routes) == [present |-> p = "systemd" \/ routes # {}, routes |-> routes]

(* Mutant: a wildcard is written as it is, "~*.x.io". *)
RouteOfVerbatim(p, d) == d

(* A domain as apply writes it.  systemd: "~x.io" for "*.x.io", "~a.io."   *)
(* for "a.io"; macOS: the files x.io and a.io; Windows: ".x.io" and        *)
(* "a.io", which keeps the two apart.                                      *)
RouteOf(p, d) == IF IsWildcard(d) /\ p # "windows" THEN Tail(d) ELSE d

Routes(p, domains) == {RouteOf(p, d) : d \in domains}

(* systemd-resolved and macOS route a name and everything below it, the    *)
(* policy table the one name or what is below the suffix.                  *)
Covers(p, f, n) ==
  \E r \in f.routes :
    \/ n = r
    \/ p # "windows" /\ UnderSuffix(r, n)
    \/ p = "windows" /\ IsWildcard(r) /\ UnderSuffix(Tail(r), n)

NoManager == [pc |-> "none", domains |-> {}, todo |-> {}]

Init ==
  /\ AppInit([EmptyStore EXCEPT !.persistent = Saved])
  /\ platform \in Platform
  /\ stray = FALSE
  /\ process = "down"
  /\ mgr = NoManager
  /\ file = NoFile
  /\ live = NoFile
  /\ cleaner = "idle"
  /\ boots = 0 /\ faults = 0 /\ cleans = 0
  /\ tampered = FALSE
  /\ unreverted = FALSE

Fault == faults < MaxFaults /\ faults' = faults + 1
NoFault == UNCHANGED faults

MgrAt(pc) == process # "down" /\ mgr.pc = pc
Goto(pc) == mgr' = [mgr EXCEPT !.pc = pc]

-----------------------------------------------------------------------------
(* The manager.  An operation of the configurator is one step up to each   *)
(* change another process can see.  First the operations on entries, in    *)
(* both reverts and in apply, and then those of systemd.                   *)

(* remove_all_files, remove_all_rules: one entry with SideDNS's mark. *)
RemoveEntry ==
  \E r \in file.routes :
    /\ file' = Config(platform, file.routes \ {r})
    /\ live' = file'

(* In run_system_dns_manager both reverts go on after an error; PowerShell *)
(* may fail with nothing to remove.  On macOS a file, or a directory, that *)
(* cannot be read is passed over and the revert succeeds.  Either way the  *)
(* manager goes on and what was not removed is still there.                *)
RevertEntries(at, after) ==
  /\ MgrAt(at) /\ platform \in Tables
  /\ \/ RemoveEntry /\ NoFault /\ UNCHANGED <<mgr, unreverted>>
     \/ /\ file.routes = {}
        /\ Goto(after)
        /\ unreverted' = FALSE
        /\ NoFault
        /\ UNCHANGED <<file, live>>
     \/ /\ file.routes # {} \/ platform = "windows"
        /\ Fault
        /\ unreverted' = TRUE
        /\ Goto(after)
        /\ UNCHANGED <<file, live>>
  /\ UNCHANGED <<appVars, platform, process, stray, cleaner, boots, cleans,
                 tampered>>

(* apply begins with the removal of the old entries.  On macOS a file that *)
(* cannot be read is passed over.                                          *)
Clear ==
  /\ MgrAt("write") /\ platform \in Tables
  /\ \/ RemoveEntry /\ NoFault /\ UNCHANGED <<mgr, tampered>>
     \/ /\ file.routes = {}
        /\ Goto("fill")
        /\ tampered' = FALSE
        /\ NoFault
        /\ UNCHANGED <<file, live>>
     \/ /\ platform = "macos" /\ file.routes # {} /\ Fault
        /\ Goto("fill")
        /\ tampered' = TRUE
        /\ UNCHANGED <<file, live>>
     \/ Fault /\ Goto("failed") /\ UNCHANGED <<file, live, tampered>>
  /\ UNCHANGED <<appVars, platform, process, stray, cleaner, boots, cleans,
                 unreverted>>

(* fs::write of a resolver file stops before it has written the content. *)
CutShort ==
  platform = "macos" /\ mgr.pc = "fill" /\ mgr.todo # {} /\ stray' = TRUE

(* Then an entry for every domain, one after the other. *)
Fill ==
  /\ MgrAt("fill")
  /\ \/ \E d \in mgr.todo :
          /\ file' = Config(platform, file.routes \cup {RouteOf(platform, d)})
          /\ live' = file'
          /\ mgr' = [mgr EXCEPT !.todo = @ \ {d}]
          /\ NoFault /\ UNCHANGED stray
     \/ mgr.todo = {} /\ Goto("recv") /\ NoFault /\ UNCHANGED <<file, live, stray>>
     \/ /\ mgr.todo # {} /\ Fault
        /\ Goto("failed")
        /\ UNCHANGED stray \/ CutShort
        /\ UNCHANGED <<file, live>>
  /\ UNCHANGED <<appVars, platform, process, cleaner, boots, cleans, tampered,
                 unreverted>>

(* Revert, first half: remove the file if there is one; an error returns   *)
(* before the reload.                                                      *)
RevertRemove(at, reload, after) ==
  /\ MgrAt(at) /\ platform = "systemd"
  /\ \/ file' = NoFile /\ Goto(reload) /\ NoFault /\ UNCHANGED unreverted
     \/ /\ file.present /\ Fault
        /\ unreverted' = TRUE
        /\ Goto(after)
        /\ UNCHANGED file
  /\ UNCHANGED <<appVars, platform, process, live, stray, cleaner, boots, cleans,
                 tampered>>

RevertReload(at, after) ==
  /\ MgrAt(at)
  /\ Goto(after)
  /\ \/ live' = file /\ NoFault /\ unreverted' = FALSE
     \/ Fault /\ unreverted' = TRUE /\ UNCHANGED live
  /\ UNCHANGED <<appVars, platform, process, file, stray, cleaner, boots, cleans,
                 tampered>>

Subscribe ==
  /\ MgrAt("subscribe")
  /\ Receive("manager", NewReceiver)
  /\ Goto("snapshot")
  /\ UNCHANGED <<store, token, handler, served, platform, process, file, live,
                 stray, cleaner, boots, faults, cleans, tampered, unreverted>>

(* apply(&state.snapshot_all_domains()), at start and on every rule event. *)
Snapshot ==
  /\ MgrAt("snapshot")
  /\ LET domains == AllDomains(store) IN
       mgr' = [pc |-> "write", domains |-> domains, todo |-> domains]
  /\ UNCHANGED <<appVars, platform, process, file, live, stray, cleaner, boots,
                 faults, cleans, tampered, unreverted>>

(* An error of apply leaves the manager through `?`, with no revert. *)
Write ==
  /\ MgrAt("write") /\ platform = "systemd"
  /\ \/ /\ file' = Config(platform, Routes(platform, mgr.domains))
        /\ tampered' = FALSE
        /\ Goto("reload")
        /\ NoFault
     \/ /\ Fault
        /\ file' \in {file, Config(platform, {})}
        /\ Goto("failed")
        /\ UNCHANGED tampered
  /\ UNCHANGED <<appVars, platform, process, live, stray, cleaner, boots, cleans,
                 unreverted>>

Reload ==
  /\ MgrAt("reload")
  /\ \/ live' = file /\ Goto("recv") /\ NoFault
     \/ Fault /\ Goto("failed") /\ UNCHANGED live
  /\ UNCHANGED <<appVars, platform, process, file, stray, cleaner, boots, cleans,
                 tampered, unreverted>>

(* Mutant: only added rules are applied. *)
RecvAddsOnly ==
  LET e == Head(bus["manager"].queue) IN
  /\ MgrAt("recv") /\ ~token
  /\ HasMessage(bus["manager"])
  /\ Receive("manager", TakeMessage(bus["manager"]))
  /\ Goto(IF e.kind \in {"RuleAdded", "EphemeralAdded"} THEN "snapshot" ELSE "recv")
  /\ UNCHANGED <<store, token, handler, served, platform, process, file, live,
                 stray, cleaner, boots, faults, cleans, tampered, unreverted>>

(* select! is biased: the token first. *)
Recv ==
  LET e == Head(bus["manager"].queue) IN
  /\ MgrAt("recv") /\ ~token
  /\ HasMessage(bus["manager"])
  /\ Receive("manager", TakeMessage(bus["manager"]))
  /\ Goto(IF IsRuleEvent(e) THEN "snapshot" ELSE "recv")
  /\ UNCHANGED <<store, token, handler, served, platform, process, file, live,
                 stray, cleaner, boots, faults, cleans, tampered, unreverted>>

(* Mutant: a lagged receiver forgets what is still queued. *)
LaggedSkips ==
  /\ MgrAt("recv") /\ ~token
  /\ bus["manager"].lagged
  /\ Receive("manager", NewReceiver)
  /\ UNCHANGED <<store, token, handler, served, sysVars>>

Lagged ==
  /\ MgrAt("recv") /\ ~token
  /\ bus["manager"].lagged
  /\ Receive("manager", TakeLagged(bus["manager"]))
  /\ UNCHANGED <<store, token, handler, served, sysVars>>

(* Mutant: the loop does not watch the token. *)
CancelledNever == FALSE

(* Mutant: the loop ends without the revert. *)
CancelledNoRevert ==
  /\ MgrAt("recv") /\ token
  /\ Goto("done")
  /\ UNCHANGED <<appVars, platform, process, file, live, stray, cleaner, boots,
                 faults, cleans, tampered, unreverted>>

Cancelled ==
  /\ MgrAt("recv") /\ token
  /\ Goto("revert")
  /\ UNCHANGED <<appVars, platform, process, file, live, stray, cleaner, boots,
                 faults, cleans, tampered, unreverted>>

MgrStep ==
  \/ RevertRemove("cleanup", "cleanup_reload", "subscribe")
  \/ RevertReload("cleanup_reload", "subscribe")
  \/ RevertEntries("cleanup", "subscribe")
  \/ Subscribe \/ Snapshot \/ Write \/ Reload \/ Clear \/ Fill
  \/ Recv \/ Lagged \/ Cancelled
  \/ RevertRemove("revert", "revert_reload", "done")
  \/ RevertReload("revert_reload", "done")
  \/ RevertEntries("revert", "done")

-----------------------------------------------------------------------------
(* The process around it (runner.rs). *)

(* A start with the persistent rules of the previous life. *)
Boot ==
  /\ process = "down"
  /\ boots < MaxBoots
  /\ boots' = boots + 1
  /\ process' = "up"
  /\ store' = [EmptyStore EXCEPT !.persistent = store.persistent]
  /\ bus' = [r \in Receiver |-> NoReceiver]
  /\ token' = FALSE
  /\ handler' = [c \in Client |-> Idle]
  /\ served' = 0
  /\ mgr' = [NoManager EXCEPT !.pc = "cleanup"]
  /\ UNCHANGED <<platform, file, live, stray, cleaner, faults, cleans, tampered,
                 unreverted>>

ShutdownRequested ==
  /\ process = "up" /\ token
  /\ process' = "joining"
  /\ bus' = Send(bus, DaemonStopped)
  /\ UNCHANGED <<store, token, handler, served, platform, mgr, file, live, stray,
                 cleaner, boots, faults, cleans, tampered, unreverted>>

Signal ==
  /\ process = "up"
  /\ process' = "joining"
  /\ token' = TRUE
  /\ UNCHANGED <<store, bus, handler, served, platform, mgr, file, live, stray,
                 cleaner, boots, faults, cleans, tampered, unreverted>>

Exit ==
  /\ process = "joining"
  /\ mgr.pc \in {"done", "failed"}
  /\ \A c \in Client : handler[c].pc = "idle"
  /\ process' = "down"
  /\ UNCHANGED <<appVars, platform, mgr, file, live, stray, cleaner, boots,
                 faults, cleans, tampered, unreverted>>

Crash ==
  /\ process # "down"
  /\ Fault
  /\ process' = "down"
  /\ mgr' = [mgr EXCEPT !.pc = "crashed"]
  /\ UNCHANGED stray \/ CutShort
  /\ UNCHANGED <<appVars, platform, file, live, cleaner, boots, cleans, tampered,
                 unreverted>>

(* `sidedns clean`, by another process at any time; its errors are the     *)
(* user's to see.                                                          *)
Clean == cleaner = "idle" /\ cleans < MaxCleans /\ cleans' = cleans + 1

CleanRemove ==
  /\ Clean /\ platform = "systemd"
  /\ cleaner' = "reload"
  /\ file' = NoFile
  /\ tampered' = TRUE
  /\ UNCHANGED <<appVars, platform, process, mgr, live, stray, boots, faults,
                 unreverted>>

CleanReload ==
  /\ cleaner = "reload"
  /\ cleaner' = "idle"
  /\ live' = file
  /\ UNCHANGED <<appVars, platform, process, mgr, file, stray, boots, faults,
                 cleans, tampered, unreverted>>

(* With entries: it lists them and removes what it listed, whatever the    *)
(* manager adds meanwhile.                                                 *)
CleanEntries ==
  /\ platform \in Tables
  /\ \/ /\ Clean /\ cleaner' = "entries"
        /\ UNCHANGED <<file, live, tampered>>
     \/ /\ cleaner = "entries" /\ RemoveEntry
        /\ tampered' = TRUE
        /\ UNCHANGED <<cleaner, cleans>>
     \/ /\ cleaner = "entries" /\ cleaner' = "idle"
        /\ UNCHANGED <<file, live, tampered, cleans>>
  /\ UNCHANGED <<appVars, platform, process, mgr, stray, boots, faults,
                 unreverted>>

ServeStep(c) ==
  /\ process # "down"
  /\ Publish(c) \/ CancelToken(c)
  /\ UNCHANGED sysVars

ServeRequest(c) ==
  /\ process # "down"
  /\ Stop(c) \/ \E o \in Request : Mutate(c, o)
  /\ UNCHANGED sysVars

Next ==
  \/ MgrStep
  \/ Boot \/ ShutdownRequested \/ Signal \/ Exit \/ Crash
  \/ CleanRemove \/ CleanReload \/ CleanEntries
  \/ \E c \in Client : ServeRequest(c) \/ ServeStep(c)

Spec == Init /\ [][Next]_vars

(* Tasks, handlers and a `clean` that runs keep running. *)
FairSpec ==
  /\ Spec
  /\ WF_vars(MgrStep) /\ WF_vars(ShutdownRequested) /\ WF_vars(Exit)
  /\ WF_vars(CleanReload)
  /\ \A c \in Client : WF_vars(ServeStep(c))

-----------------------------------------------------------------------------

MgrPc == {"none", "cleanup", "cleanup_reload", "subscribe", "snapshot", "write",
          "reload", "fill", "recv", "revert", "revert_reload", "done", "failed",
          "crashed"}

(* The daemon's state, the channel within its capacity of 64 (state.rs:29) *)
(* and the two copies of the routes that outlive it.                       *)
TypeOK ==
  /\ AppTypeOK
  /\ process \in {"down", "up", "joining"}
  /\ platform \in Platform
  /\ mgr \in [pc : MgrPc, domains : SUBSET Domain, todo : SUBSET Domain]
  /\ \A f \in {file, live} :
       f.present \in BOOLEAN /\ f.routes \subseteq Routes(platform, Domain)
  /\ cleaner \in {"idle", "entries", "reload"}
  /\ boots \in 0..MaxBoots /\ faults \in 0..MaxFaults /\ cleans \in 0..MaxCleans
  /\ {stray, tampered, unreverted} \subseteq BOOLEAN

(* A rule event the manager has yet to take. *)
ApplyComing ==
  \/ \E c \in Client : handler[c].pc = "publish" /\ IsRuleEvent(handler[c].event)
  \/ \E e \in ToSet(bus["manager"].queue) : IsRuleEvent(e)

(* A stop is under way: DaemonStopped may have pushed the last rule event  *)
(* out of the channel.                                                     *)
Stopping == token \/ \E c \in Client : handler[c].pc = "cancel"

(* While the manager waits for events, what the resolver has loaded is the *)
(* routes of every domain in the store, or an event that makes it apply    *)
(* them again is on its way.  Unlike the rules watch the manager loses     *)
(* nothing when it lags (sys/mod.rs:95) or when an event comes in before   *)
(* it subscribes: each apply takes the whole store.  `sidedns clean` may   *)
(* have removed file or entries meanwhile.                                 *)
RoutesCurrent ==
  MgrAt("recv") /\ ~Stopping /\ ~tampered =>
    /\ live = file
    /\ file = Config(platform, Routes(platform, AllDomains(store))) \/ ApplyComing

(* When the routes are those of the store, every name that some rule       *)
(* answers for reaches SideDNS: the forms of each platform cover what      *)
(* wildcards and exact rules match (systemd.rs:40, macos.rs:55,            *)
(* windows.rs:41, rule.rs:18).                                             *)
RulesAreRouted ==
  MgrAt("recv") /\ live = Config(platform, Routes(platform, AllDomains(store))) =>
    \A n \in Name : Resolve(store, n) # None => Covers(platform, live, n)

(* A graceful stop leaves no file, entry or route, those of a crashed life *)
(* before it included, unless an apply or the last revert failed, or that  *)
(* could not read a file of macOS and passed it over.  A resolver file cut *)
(* short has no mark to know it by, and stays.                             *)
StopReverts ==
  process = "down" /\ mgr.pc = "done" /\ ~unreverted =>
    ~file.present /\ ~live.present

(* Short of a failure, a stop or a `clean`, the system's routes follow the *)
(* rules.                                                                  *)
RoutesFollow ==
  process = "up" ~>
    \/ live = Config(platform, Routes(platform, AllDomains(store)))
    \/ token \/ tampered \/ mgr.pc \in {"failed", "crashed"}

(* A cancelled token ends the manager and the process. *)
StopCompletes == process # "down" /\ token ~> process = "down"

(* README: "sidedns daemon stop # -> everything reverts. no residue."  A   *)
(* graceful stop leaves no route to SideDNS in the system's resolver, even *)
(* if an apply failed before (sys/mod.rs:76, 91), unless a revert failed   *)
(* or passed over a file.                                                  *)
NoResidue ==
  process = "down" /\ mgr.pc \in {"done", "failed"} /\ ~unreverted =>
    live.routes = {}
=============================================================================
