------------------------------ MODULE Lifecycle ------------------------------
(***************************************************************************)
(* Daemon processes and the commands that start and stop them:             *)
(* `sidedns daemon start`, with and without --no-background, and `stop`    *)
(* (cli/src/commands/daemon.rs, cli/src/daemon.rs) over what processes     *)
(* share on a machine: the socket's path (core/src/ipc/server.rs), the PID *)
(* file of daemon_kit, the listening ports (core/src/dns/mod.rs,           *)
(* core/src/proxy/server.rs) and the resolver's routes (core/src/dns/sys). *)
(*                                                                         *)
(* Nothing but the commands' probes keeps two daemons apart.  The store,   *)
(* the events and what a manager writes are in Daemon and SystemDns; here  *)
(* a task is its effect on what is shared, and how it may fail.            *)
(* ensure_running is a start behind one more probe.  What the path, the    *)
(* file and the routes hold is the process that put it there, or None.     *)
(***************************************************************************)
EXTENDS Naturals, FiniteSets

CONSTANTS Process,     \* daemon processes
          Command,     \* invocations of the CLI
          Server,      \* dns, http, and https where a CA is installed
          None,
          MaxTries,    \* 10 probes, one a second (daemon.rs:58, commands/daemon.rs:47)
          MaxFaults    \* bound: crashes and failed tasks

ASSUME NoneAssumption == None \notin Process
ASSUME ServerAssumption == {"ipc", "mgr"} \cap Server = {}
ASSUME BoundsAssumption == MaxTries \in Nat \ {0} /\ MaxFaults \in Nat

VARIABLES proc,      \* each process: stage, token and tasks
          socket,    \* IPC_SOCKET_PATH
          pidfile,
          routes,    \* the drop-in file the resolver has loaded
          cmd,       \* each command
          crashed,   \* history: processes that crashed
          failed,    \* history: the tasks of processes that met an error
          shared     \* history: processes up that were up beside another

machine == <<socket, pidfile, routes>>
vars == <<proc, machine, cmd, crashed, failed, shared>>

Unborn == [stage |-> "none", background |-> FALSE, token |-> FALSE, ipc |-> "none",
           mgr |-> "none", srv |-> [s \in Server |-> "none"]]
NewCommand == [pc |-> "idle", what |-> "none", restart |-> FALSE, ipc |-> FALSE,
               tries |-> 0, child |-> None]

Init ==
  /\ proc = [p \in Process |-> Unborn]
  /\ socket = None
  /\ pidfile = None
  /\ routes = None
  /\ cmd = [c \in Command |-> NewCommand]
  /\ crashed = {}
  /\ failed = {}
  /\ shared = {}

Up(p) == proc[p].stage = "up"

(* IpcClient::is_running: the path leads to an open listener. *)
Reachable == socket # None /\ Up(socket) /\ proc[socket].ipc = "accept"

(* daemon.is_running(): the PID file names a process that lives. *)
PidRunning == pidfile # None /\ Up(pidfile)

Fault == Cardinality(crashed) + Cardinality(failed) < MaxFaults

(* A task of p: the accept loop, the manager or a server. *)
Task == Server \cup {"ipc", "mgr"}
Fails(p, task) == Fault /\ failed' = failed \cup {<<p, task>>}

-----------------------------------------------------------------------------
(* A daemon process. *)

SetProc(p, f, v) == proc' = [proc EXCEPT ![p][f] = v]

Vanish(p) ==
  /\ proc' = [proc EXCEPT ![p] = [Unborn EXCEPT !.stage = "gone"]]
  /\ shared' = shared \ {p}

(* daemon.start, for a process in the background, writes the PID file, or  *)
(* may refuse where that names one that lives; then run spawns its tasks.  *)
Begin(p) ==
  LET others == {q \in Process \ {p} : Up(q)} IN
  /\ proc[p].stage = "spawned"
  /\ \/ /\ proc' = [proc EXCEPT ![p].stage = "up", ![p].ipc = "unlink",
                                ![p].mgr = "cleanup",
                                ![p].srv = [s \in Server |-> "bind"]]
        /\ pidfile' = IF proc[p].background THEN p ELSE pidfile
        /\ shared' = IF others = {} THEN shared ELSE shared \cup others \cup {p}
     \/ /\ proc[p].background /\ PidRunning
        /\ Vanish(p)
        /\ UNCHANGED pidfile
  /\ UNCHANGED <<socket, routes, cmd, crashed, failed>>

(* Mutant: a stale socket file is not removed. *)
IpcUnlinkSkips(p) ==
  /\ Up(p) /\ proc[p].ipc = "unlink"
  /\ SetProc(p, "ipc", "bind")
  /\ UNCHANGED <<machine, cmd, crashed, failed, shared>>

(* Whatever is at the path is removed; an error ends the server. *)
IpcUnlink(p) ==
  /\ Up(p) /\ proc[p].ipc = "unlink"
  /\ \/ SetProc(p, "ipc", "bind") /\ socket' = None /\ UNCHANGED failed
     \/ SetProc(p, "ipc", "drop") /\ Fails(p, "ipc") /\ UNCHANGED socket
  /\ UNCHANGED <<pidfile, routes, cmd, crashed, shared>>

(* create_tokio fails where another process was faster, or by itself. *)
IpcBind(p) ==
  /\ Up(p) /\ proc[p].ipc = "bind"
  /\ \/ /\ socket = None /\ socket' = p
        /\ SetProc(p, "ipc", "accept") /\ UNCHANGED failed
     \/ socket # None /\ SetProc(p, "ipc", "drop") /\ UNCHANGED <<socket, failed>>
     \/ SetProc(p, "ipc", "drop") /\ Fails(p, "ipc") /\ UNCHANGED socket
  /\ UNCHANGED <<pidfile, routes, cmd, crashed, shared>>

(* Mutant: the accept loop does not listen to the token. *)
IpcCloseNever(p) == FALSE

(* The accept loop sees the token and the listener is closed. *)
IpcClose(p) ==
  /\ Up(p) /\ proc[p].ipc = "accept" /\ proc[p].token
  /\ SetProc(p, "ipc", "drop")
  /\ UNCHANGED <<machine, cmd, crashed, failed, shared>>

(* `result?`: an error of accept() ends the loop without the token. *)
AcceptFails(p) ==
  /\ Up(p) /\ proc[p].ipc = "accept"
  /\ SetProc(p, "ipc", "drop") /\ Fails(p, "ipc")
  /\ UNCHANGED <<machine, cmd, crashed, shared>>

(* Drop removes the path on every way out, whosever socket is there, or    *)
(* logs that it could not.  The listener's own removal just before it      *)
(* makes no difference.                                                    *)
IpcDrop(p) ==
  /\ Up(p) /\ proc[p].ipc = "drop"
  /\ SetProc(p, "ipc", "done")
  /\ \/ socket' = None /\ UNCHANGED failed
     \/ socket # None /\ Fails(p, "ipc") /\ UNCHANGED socket
  /\ UNCHANGED <<pidfile, routes, cmd, crashed, shared>>

(* A server whose port is taken, that has no upstream resolver or cannot   *)
(* bind for another reason ends, and the daemon goes on without it.        *)
SrvBind(p, s) ==
  LET taken == \E q \in Process : Up(q) /\ proc[q].srv[s] = "listen"
      Put(v) == proc' = [proc EXCEPT ![p].srv[s] = v] IN
  /\ Up(p) /\ proc[p].srv[s] = "bind"
  /\ \/ ~taken /\ Put("listen") /\ UNCHANGED failed
     \/ taken /\ Put("failed") /\ UNCHANGED failed
     \/ Put("failed") /\ Fails(p, s)
  /\ UNCHANGED <<machine, cmd, crashed, shared>>

(* block_until_done returns by itself; the proxies go on after an error of *)
(* accept().                                                               *)
DnsEnds(p) ==
  /\ Up(p) /\ "dns" \in Server /\ proc[p].srv["dns"] = "listen"
  /\ proc' = [proc EXCEPT ![p].srv["dns"] = "failed"]
  /\ Fails(p, "dns")
  /\ UNCHANGED <<machine, cmd, crashed, shared>>

SrvClose(p, s) ==
  /\ Up(p) /\ proc[p].srv[s] = "listen" /\ proc[p].token
  /\ proc' = [proc EXCEPT ![p].srv[s] = "done"]
  /\ UNCHANGED <<machine, cmd, crashed, failed, shared>>

(* apply returns an error and `?` ends the manager, which reverts nothing: *)
(* the file may be the old one, its own, or already gone.                  *)
ApplyFails(p) ==
  /\ SetProc(p, "mgr", "done") /\ Fails(p, "mgr")
  /\ routes' \in {routes, p, None}

(* run_system_dns_manager: revert, whose failure is logged, apply ... *)
MgrStart(p) ==
  /\ Up(p)
  /\ \/ /\ proc[p].mgr = "cleanup" /\ SetProc(p, "mgr", "apply")
        /\ \/ routes' = None /\ UNCHANGED failed
           \/ Fails(p, "mgr") /\ UNCHANGED routes
     \/ /\ proc[p].mgr = "apply"
        /\ \/ SetProc(p, "mgr", "recv") /\ routes' = p /\ UNCHANGED failed
           \/ ApplyFails(p)
  /\ UNCHANGED <<socket, pidfile, cmd, crashed, shared>>

(* ... apply again at a rule event ... *)
MgrReapply(p) ==
  /\ Up(p) /\ proc[p].mgr = "recv" /\ ~proc[p].token
  /\ \/ routes' = p /\ UNCHANGED <<proc, failed>>
     \/ ApplyFails(p)
  /\ UNCHANGED <<socket, pidfile, cmd, crashed, shared>>

(* Mutant: the manager returns without the revert. *)
MgrRevertSkips(p) ==
  /\ Up(p) /\ proc[p].mgr = "recv" /\ proc[p].token
  /\ SetProc(p, "mgr", "done")
  /\ UNCHANGED <<machine, cmd, crashed, failed, shared>>

(* ... and revert, whosever routes are there; a failure is logged. *)
MgrRevert(p) ==
  /\ Up(p) /\ proc[p].mgr = "recv" /\ proc[p].token
  /\ SetProc(p, "mgr", "done")
  /\ \/ routes' = None /\ UNCHANGED failed
     \/ Fails(p, "mgr") /\ UNCHANGED routes
  /\ UNCHANGED <<socket, pidfile, cmd, crashed, shared>>

(* join! has every task; daemon_kit removes the PID file. *)
Exit(p) ==
  /\ Up(p) /\ proc[p].token
  /\ proc[p].ipc = "done" /\ proc[p].mgr = "done"
  /\ \A s \in Server : proc[p].srv[s] \in {"failed", "done"}
  /\ Vanish(p)
  /\ pidfile' = IF proc[p].background THEN None ELSE pidfile
  /\ UNCHANGED <<socket, routes, cmd, crashed, failed>>

TaskStep(p) ==
  \/ Begin(p) \/ Exit(p)
  \/ IpcUnlink(p) \/ IpcBind(p) \/ IpcClose(p) \/ IpcDrop(p)
  \/ MgrStart(p) \/ MgrRevert(p)
  \/ \E s \in Server : SrvBind(p, s) \/ SrvClose(p, s)

(* SIGINT or SIGTERM. *)
Signal(p) ==
  /\ Up(p) /\ ~proc[p].token
  /\ SetProc(p, "token", TRUE)
  /\ UNCHANGED <<machine, cmd, crashed, failed, shared>>

(* The process is gone, and what it put on the machine is not.  The `?` of *)
(* signal() in run, before the tasks are joined, is one way to this end.   *)
Crash(p) ==
  /\ Up(p)
  /\ Fault
  /\ crashed' = crashed \cup {p}
  /\ Vanish(p)
  /\ UNCHANGED <<machine, cmd, failed>>

-----------------------------------------------------------------------------
(* A command. *)

SetCmd(c, pc) == cmd' = [cmd EXCEPT ![c].pc = pc]

(* The command prints its outcome and exits. *)
Ends(c, outcome) == cmd' = [cmd EXCEPT ![c] = [NewCommand EXCEPT !.pc = outcome]]

Ask(c, what) ==
  /\ cmd[c].pc = "idle"
  /\ cmd' = [cmd EXCEPT ![c].pc = "probe", ![c].what = what]
  /\ UNCHANGED <<proc, machine, crashed, failed, shared>>

(* client.is_running(): a daemon that accepts may be missed all the same,  *)
(* for any error of the connection counts as its absence.                  *)
Found == {FALSE, Reachable}

(* client.is_running() first, daemon.is_running() after it. *)
Probe(c) ==
  /\ cmd[c].pc = "probe"
  /\ \E found \in Found :
       cmd' = [cmd EXCEPT ![c].pc = "decide", ![c].ipc = found]
  /\ UNCHANGED <<proc, machine, crashed, failed, shared>>

Stops(c) == cmd[c].what = "stop" \/ cmd[c].restart

StartDecides(c) ==
  /\ cmd[c].pc = "decide" /\ ~Stops(c)
  /\ \/ cmd[c].ipc /\ Ends(c, "already")
     \/ /\ ~cmd[c].ipc /\ PidRunning
        /\ cmd' = [cmd EXCEPT ![c].pc = "probe", ![c].restart = TRUE]
     \/ ~cmd[c].ipc /\ ~PidRunning /\ SetCmd(c, "run")
  /\ UNCHANGED <<proc, machine, crashed, failed, shared>>

(* stop returns: a restart goes on to run_daemon, whatever stop did. *)
StopReturns(c, outcome) ==
  IF cmd[c].restart THEN SetCmd(c, "run") ELSE Ends(c, outcome)

(* With no IPC, only an installed service is stopped, which may fail; the  *)
(* user is asked to kill any other process, unless it has gone meanwhile.  *)
StopDecides(c) ==
  /\ cmd[c].pc = "decide" /\ Stops(c)
  /\ \/ cmd[c].ipc /\ SetCmd(c, "send") /\ UNCHANGED proc
     \/ ~cmd[c].ipc /\ ~PidRunning /\ StopReturns(c, "not running") /\ UNCHANGED proc
     \/ /\ ~cmd[c].ipc /\ PidRunning
        /\ \/ StopReturns(c, "stopped") /\ SetProc(pidfile, "token", TRUE)
           \/ Ends(c, "failed") /\ UNCHANGED proc
           \/ StopReturns(c, "kill it") /\ UNCHANGED proc
           \/ StopReturns(c, "stopped") /\ UNCHANGED proc
  /\ UNCHANGED <<machine, crashed, failed, shared>>

(* client.send(Stop): the answer may be lost to the end of the process,    *)
(* and the connection may fail or come too late to be accepted.            *)
SendStop(c) ==
  /\ cmd[c].pc = "send"
  /\ \/ Reachable /\ SetProc(socket, "token", TRUE) /\ SetCmd(c, "wait")
     \/ Reachable /\ SetProc(socket, "token", TRUE) /\ Ends(c, "failed")
     \/ UNCHANGED proc /\ Ends(c, "failed")
  /\ UNCHANGED <<machine, crashed, failed, shared>>

(* One second, one probe; after the last, "Daemon stopped" all the same. *)
WaitStop(c) ==
  /\ cmd[c].pc = "wait"
  /\ \E found \in Found :
       IF found /\ cmd[c].tries + 1 < MaxTries
       THEN cmd' = [cmd EXCEPT ![c].tries = @ + 1]
       ELSE StopReturns(c, "stopped")
  /\ UNCHANGED <<proc, machine, crashed, failed, shared>>

(* run_daemon: without privileges, or when the spawn fails, an error.  In  *)
(* the foreground the command is the daemon.                               *)
RunDaemon(c) ==
  LET unborn == {p \in Process : proc[p].stage = "none"}
      child == CHOOSE p \in unborn : TRUE IN
  /\ cmd[c].pc = "run"
  /\ \/ Ends(c, "failed") /\ UNCHANGED proc
     \/ /\ unborn # {}
        /\ proc' = [proc EXCEPT ![child].stage = "spawned",
                                ![child].background = (cmd[c].what = "start")]
        /\ cmd' = [cmd EXCEPT ![c] =
             IF @.what = "start" THEN [NewCommand EXCEPT !.pc = "await"]
             ELSE [NewCommand EXCEPT !.pc = "attached", !.child = child]]
  /\ UNCHANGED <<machine, crashed, failed, shared>>

(* Mutant: one probe too many. *)
AwaitStartOnceMore(c) ==
  /\ cmd[c].pc = "await"
  /\ \E found \in Found :
       \/ found /\ Ends(c, "started")
       \/ /\ ~found /\ cmd[c].tries < MaxTries
          /\ cmd' = [cmd EXCEPT ![c].tries = @ + 1]
       \/ ~found /\ cmd[c].tries = MaxTries /\ Ends(c, "failed")
  /\ UNCHANGED <<proc, machine, crashed, failed, shared>>

(* Any daemon that answers will do. *)
AwaitStart(c) ==
  /\ cmd[c].pc = "await"
  /\ \E found \in Found :
       \/ found /\ Ends(c, "started")
       \/ /\ ~found /\ cmd[c].tries + 1 < MaxTries
          /\ cmd' = [cmd EXCEPT ![c].tries = @ + 1]
       \/ ~found /\ cmd[c].tries + 1 = MaxTries /\ Ends(c, "failed")
  /\ UNCHANGED <<proc, machine, crashed, failed, shared>>

ForegroundEnds(c) ==
  /\ cmd[c].pc = "attached" /\ proc[cmd[c].child].stage = "gone"
  /\ Ends(c, "ended")
  /\ UNCHANGED <<proc, machine, crashed, failed, shared>>

CommandStep(c) ==
  \/ Probe(c) \/ StartDecides(c) \/ StopDecides(c) \/ SendStop(c) \/ WaitStop(c)
  \/ RunDaemon(c) \/ AwaitStart(c) \/ ForegroundEnds(c)

Next ==
  \/ \E p \in Process :
       \/ TaskStep(p) \/ MgrReapply(p) \/ Signal(p)
       \/ AcceptFails(p) \/ DnsEnds(p) \/ Crash(p)
  \/ \E c \in Command :
       \/ \E what \in {"start", "foreground", "stop"} : Ask(c, what)
       \/ CommandStep(c)

Spec == Init /\ [][Next]_vars

-----------------------------------------------------------------------------

Outcome == {"already", "started", "stopped", "not running", "kill it", "failed",
            "ended"}

(* The processes, the commands and what they share; a command makes no     *)
(* more than its ten probes (daemon.rs:58, commands/daemon.rs:47).         *)
TypeOK ==
  /\ proc \in [Process ->
       [stage : {"none", "spawned", "up", "gone"}, background : BOOLEAN,
        token : BOOLEAN, ipc : {"none", "unlink", "bind", "accept", "drop", "done"},
        mgr : {"none", "cleanup", "apply", "recv", "done"},
        srv : [Server -> {"none", "bind", "listen", "failed", "done"}]]]
  /\ {socket, pidfile, routes} \subseteq Process \cup {None}
  /\ cmd \in [Command ->
       [pc : Outcome \cup {"idle", "probe", "decide", "send", "wait", "run",
                           "await", "attached"},
        what : {"none", "start", "foreground", "stop"}, restart : BOOLEAN,
        ipc : BOOLEAN, tries : 0..(MaxTries - 1), child : Process \cup {None}]]
  /\ crashed \subseteq Process /\ shared \subseteq Process
  /\ failed \subseteq Process \X Task

(* A daemon that no other ran beside is whole: it has the socket, every    *)
(* port and the routes, or is about to take them - whatever crashed and    *)
(* failed daemons left behind, and but for the tasks of its own that met   *)
(* an error: one that ends takes none of the others with it (server.rs:86, *)
(* sys/mod.rs:70, runner.rs:40).                                           *)
AloneIsWhole ==
  \A p \in Process \ shared :
    Up(p) /\ ~proc[p].token =>
      /\ \/ proc[p].ipc \in {"unlink", "bind"}
         \/ proc[p].ipc = "accept" /\ socket = p
         \/ <<p, "ipc">> \in failed
      /\ \A s \in Server : proc[p].srv[s] \in {"bind", "listen"} \/ <<p, s>> \in failed
      /\ \/ proc[p].mgr \in {"cleanup", "apply"}
         \/ proc[p].mgr = "recv" /\ routes = p
         \/ <<p, "mgr">> \in failed

(* However daemons overlapped, the socket's path and the routes hold only  *)
(* what a process put there that is up, that crashed, or whose task that   *)
(* should have taken it away met an error: every other graceful exit has   *)
(* cleaned up its own (server.rs:45, sys/mod.rs:101).                      *)
NothingLeft ==
  /\ socket # None => Up(socket) \/ socket \in crashed \/ <<socket, "ipc">> \in failed
  /\ routes # None => Up(routes) \/ routes \in crashed \/ <<routes, "mgr">> \in failed

(* A daemon told to stop is never stuck: until it is gone one of its tasks *)
(* can go on, each a bounded number of times, also when it lost its        *)
(* socket, a port or its routes to another (runner.rs:135).                *)
StopGoesOn ==
  \A p \in Process : Up(p) /\ proc[p].token => ENABLED TaskStep(p)
=============================================================================
