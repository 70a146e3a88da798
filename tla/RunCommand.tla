----------------------------- MODULE RunCommand -----------------------------
(***************************************************************************)
(* `sidedns run` (cli/src/commands/run.rs): a session launches a command,  *)
(* adds an ephemeral rule for it, follows the daemon's event stream, and   *)
(* removes the rule when the command ends.  The stream is handle_subscribe *)
(* of the server (core/src/ipc/server.rs) and the task that pumps it into  *)
(* a channel on the client's side (core/src/ipc/client.rs).                *)
(*                                                                         *)
(* Sessions find the daemon by its socket's path, so one that outlives a   *)
(* daemon talks to the next.  `boots` numbers the daemon's lives; `life`   *)
(* and `conn` say which of them holds the rule and the request in flight.  *)
(* A rule's domain was validated by the CLI, so the daemon never refuses   *)
(* it.  A connection is refused when nobody listens or accepts any more,   *)
(* and it may fail for any other reason, at any of its calls.              *)
(***************************************************************************)
EXTENDS AppState

CONSTANTS Session,       \* the `sidedns run` processes
          RuleOf(_),     \* the rule each asks for
          MaxOthers,     \* bound: no other request after so many in one life
          MaxBoots,      \* bound: starts of the daemon
          MaxFaults      \* bound: crashes of the daemon, killed sessions,
                         \* failed connections and accepts

ASSUME SessionAssumption == Session \subseteq Client /\ Session \subseteq Receiver
ASSUME RuleOfAssumption == \A s \in Session : RuleOf(s) \in Rule
ASSUME BoundsAssumption == {MaxOthers, MaxBoots, MaxFaults} \subseteq Nat

VARIABLES process,   \* the daemon: down, up, joining
          listening, \* its accept loop goes on
          boots, faults,
          sess,      \* each session: pc, its command, life and conn
          stream     \* each session's event stream, both ends

runVars == <<process, listening, boots, faults, sess, stream>>
vars == <<appVars, runVars>>

NewSession == [pc |-> "new", child |-> "none", life |-> 0, conn |-> 0]
NoStream == [state |-> "none", life |-> 0, pipe |-> << >>]

(* "cut": over because a call to the daemon that holds its rule failed. *)
Over == {"exited", "stopped", "failed", "cut", "killed"}

Init ==
  /\ AppInit(EmptyStore)
  /\ process = "down"
  /\ listening = FALSE
  /\ boots = 0
  /\ faults = 0
  /\ sess = [s \in Session |-> NewSession]
  /\ stream = [s \in Session |-> NoStream]

Up == process # "down"
Accepting == Up /\ listening
Refused == ~Accepting \/ token
Lives(life) == Up /\ boots = life

Fault == faults < MaxFaults /\ faults' = faults + 1

(* connect() or the write of the request returns an error: nobody accepts, *)
(* or it failed although the daemon does.                                  *)
ConnectFails == (Refused /\ UNCHANGED faults) \/ Fault

(* The session goes on at pc, its command left alone. *)
Goto(s, pc) == sess' = [sess EXCEPT ![s].pc = pc]
(* child.kill().await, then pc. *)
KillChild(s, pc) == sess' = [sess EXCEPT ![s].pc = pc, ![s].child = "gone"]

-----------------------------------------------------------------------------
(* A session. *)

Launch(s) ==
  /\ sess[s].pc = "new"
  /\ sess' = [sess EXCEPT ![s].pc = "detect", ![s].child = "running"]
  /\ UNCHANGED <<appVars, process, listening, boots, faults, stream>>

(* wait_for_port: the port opened in time, or the command is killed. *)
WaitForPort(s) == Goto(s, "add") \/ KillChild(s, "failed")

(* detect_network_processes: one listener, none, or several, among which   *)
(* the user is asked to choose and may not.                                *)
DetectListeners(s) == Goto(s, "add") \/ KillChild(s, "failed") \/ Goto(s, "failed")

(* With --port, and without it. *)
Detect(s) ==
  /\ sess[s].pc = "detect"
  /\ WaitForPort(s) \/ DetectListeners(s)
  /\ UNCHANGED <<appVars, process, listening, boots, faults, stream>>

SendAdd(s) ==
  /\ sess[s].pc = "add"
  /\ \/ /\ Accepting
        /\ Mutate(s, [kind |-> "add_ephemeral", rule |-> RuleOf(s)])
        /\ sess' = [sess EXCEPT ![s].pc = "adding", ![s].life = boots,
                                ![s].conn = boots]
        /\ UNCHANGED faults
     \/ ConnectFails /\ Goto(s, "failed") /\ UNCHANGED appVars
  /\ UNCHANGED <<process, listening, boots, stream>>

(* The answer is there once the handler is through; a daemon that went     *)
(* away closes the connection instead.                                     *)
AddReply(s) ==
  /\ sess[s].pc = "adding"
  /\ \/ Lives(sess[s].conn) /\ handler[s].pc = "idle" /\ Goto(s, "subscribe")
     \/ ~Lives(sess[s].conn) /\ Goto(s, "failed")
  /\ UNCHANGED <<appVars, process, listening, boots, faults, stream>>

(* An error leaves run() through `?`: the rule stays, and the command too. *)
Subscribe(s) ==
  /\ sess[s].pc = "subscribe"
  /\ \/ /\ Accepting
        /\ Goto(s, "select")
        /\ stream' = [stream EXCEPT ![s].state = "opening", ![s].life = boots]
        /\ UNCHANGED faults
     \/ ConnectFails /\ Goto(s, "cut") /\ UNCHANGED stream
  /\ UNCHANGED <<appVars, process, listening, boots>>

(* Mutant: only DaemonStopped ends the wait, not the end of the stream. *)
StopEventNoEof(s) ==
  LET pipe == stream[s].pipe IN
  /\ sess[s].pc = "select"
  /\ pipe # << >>
  /\ stream' = [stream EXCEPT ![s].pipe = Tail(@)]
  /\ IF IsRuleEvent(Head(pipe)) THEN UNCHANGED sess ELSE KillChild(s, "stopped")
  /\ UNCHANGED <<appVars, process, listening, boots, faults>>

(* stop_event skips rule events and returns at DaemonStopped and at the    *)
(* end of the stream; the rule is left to die with the daemon.             *)
StopEvent(s) ==
  LET pipe == stream[s].pipe IN
  /\ sess[s].pc = "select"
  /\ \/ /\ pipe # << >>
        /\ stream' = [stream EXCEPT ![s].pipe = Tail(@)]
        /\ IF IsRuleEvent(Head(pipe)) THEN UNCHANGED sess ELSE KillChild(s, "stopped")
     \/ /\ pipe = << >> /\ stream[s].state = "closed"
        /\ KillChild(s, "stopped")
        /\ UNCHANGED stream
  /\ UNCHANGED <<appVars, process, listening, boots, faults>>

CtrlC(s) ==
  /\ sess[s].pc = "select"
  /\ KillChild(s, "remove")
  /\ UNCHANGED <<appVars, process, listening, boots, faults, stream>>

(* Mutant: a session whose command ends by itself returns at once. *)
ChildWaitReturns(s) ==
  /\ sess[s].pc = "select"
  /\ sess[s].child = "gone"
  /\ Goto(s, "exited")
  /\ UNCHANGED <<appVars, process, listening, boots, faults, stream>>

ChildWait(s) ==
  /\ sess[s].pc = "select"
  /\ sess[s].child = "gone"
  /\ Goto(s, "remove")
  /\ UNCHANGED <<appVars, process, listening, boots, faults, stream>>

(* An error is only logged. *)
SendRemove(s) ==
  /\ sess[s].pc = "remove"
  /\ \/ /\ Accepting
        /\ Mutate(s, [kind |-> "remove_ephemeral", domain |-> RuleOf(s).domain])
        /\ sess' = [sess EXCEPT ![s].pc = "removing", ![s].conn = boots]
        /\ UNCHANGED faults
     \/ ConnectFails /\ Goto(s, "cut") /\ UNCHANGED appVars
  /\ UNCHANGED <<process, listening, boots, stream>>

RemoveReply(s) ==
  /\ sess[s].pc = "removing"
  /\ Lives(sess[s].conn) => handler[s].pc = "idle"
  /\ Goto(s, "exited")
  /\ UNCHANGED <<appVars, process, listening, boots, faults, stream>>

SessionStep(s) ==
  \/ Detect(s) \/ SendAdd(s) \/ AddReply(s) \/ Subscribe(s) \/ StopEvent(s)
  \/ ChildWait(s) \/ SendRemove(s) \/ RemoveReply(s)

(* A connection breaks after the request was sent: the read of a reply, or *)
(* of the stream, fails.                                                   *)
ReadFails(s) ==
  /\ Fault
  /\ \/ sess[s].pc \in {"adding", "removing"} /\ Goto(s, "cut")
     \/ sess[s].pc = "select" /\ KillChild(s, "cut")
  /\ UNCHANGED <<appVars, process, listening, boots, stream>>

(* The command ends or crashes by itself. *)
ChildExit(s) ==
  /\ sess[s].child = "running"
  /\ sess' = [sess EXCEPT ![s].child = "gone"]
  /\ UNCHANGED <<appVars, process, listening, boots, faults, stream>>

(* A signal the session does not handle: SIGTERM or SIGKILL, and SIGINT    *)
(* before ctrl_c() is first polled.  From the terminal the command gets it *)
(* too.                                                                    *)
Kill(s) ==
  /\ sess[s].pc \notin Over \cup {"new"}
  /\ Fault
  /\ Goto(s, "killed") \/ KillChild(s, "killed")
  /\ UNCHANGED <<appVars, process, listening, boots, stream>>

-----------------------------------------------------------------------------
(* The server's end of the stream. *)

StreamSet(s, st) ==
  /\ stream' = [stream EXCEPT ![s].state = st]
  /\ UNCHANGED <<store, token, handler, served, process, listening, boots, faults, sess>>

StreamOpen(s) ==
  /\ stream[s].state = "opening" /\ Lives(stream[s].life)
  /\ Receive(s, NewReceiver)
  /\ StreamSet(s, "open")

(* The client's task puts the event into the session's channel. *)
Pump(s, event) == stream' = [stream EXCEPT ![s].pipe = Append(@, event)]

(* select! is biased: a cancelled token wins over the events that wait,    *)
(* DaemonStopped included.                                                 *)
StreamForward(s) ==
  /\ stream[s].state = "open" /\ Lives(stream[s].life) /\ ~token
  /\ sess[s].pc \notin Over
  /\ HasMessage(bus[s])
  /\ Receive(s, TakeMessage(bus[s]))
  /\ Pump(s, Head(bus[s].queue))
  /\ UNCHANGED <<store, token, handler, served, process, listening, boots, faults, sess>>

StreamLagged(s) ==
  /\ stream[s].state = "open" /\ Lives(stream[s].life) /\ ~token
  /\ bus[s].lagged
  /\ Receive(s, TakeLagged(bus[s]))
  /\ UNCHANGED <<store, token, handler, served, runVars>>

(* The loop breaks, a write to a session that is over fails, or the        *)
(* process is gone.                                                        *)
StreamEnd(s) ==
  /\ \/ stream[s].state = "open" /\ token
     \/ stream[s].state = "open" /\ HasMessage(bus[s]) /\ sess[s].pc \in Over
     \/ stream[s].state \in {"opening", "open"} /\ ~Lives(stream[s].life)
  /\ Receive(s, NoReceiver)
  /\ StreamSet(s, "closed")

StreamStep(s) ==
  StreamOpen(s) \/ StreamForward(s) \/ StreamLagged(s) \/ StreamEnd(s)

-----------------------------------------------------------------------------
(* The daemon. *)

Stopping == token \/ \E c \in Client :
  handler[c].pc # "idle" /\ handler[c].event = DaemonStopped

(* `sidedns add`, `remove` or another frontend. *)
OtherRequest(c) ==
  /\ Accepting
  /\ served < MaxOthers
  /\ \E o \in Request : Mutate(c, o)
  /\ UNCHANGED runVars

(* `sidedns daemon stop`; a second one would change nothing. *)
StopRequest(c) ==
  /\ Accepting /\ ~Stopping
  /\ Stop(c)
  /\ UNCHANGED runVars

HandlerStep(c) ==
  /\ Up
  /\ Publish(c) \/ CancelToken(c)
  /\ UNCHANGED runVars

(* `result?`: an error of accept() ends the loop and drops the listener;   *)
(* the daemon, its handlers and its streams go on.                         *)
AcceptFails ==
  /\ Accepting
  /\ Fault
  /\ listening' = FALSE
  /\ UNCHANGED <<appVars, process, boots, sess, stream>>

ShutdownRequested ==
  /\ process = "up" /\ token
  /\ process' = "joining"
  /\ bus' = Send(bus, DaemonStopped)
  /\ UNCHANGED <<store, token, handler, served, listening, boots, faults, sess, stream>>

Signal ==
  /\ process = "up"
  /\ process' = "joining"
  /\ token' = TRUE
  /\ UNCHANGED <<store, bus, handler, served, listening, boots, faults, sess, stream>>

Exit ==
  /\ process = "joining"
  /\ \A c \in Client : handler[c].pc = "idle"
  /\ process' = "down"
  /\ UNCHANGED <<appVars, listening, boots, faults, sess, stream>>

Crash ==
  /\ Up
  /\ Fault
  /\ process' = "down"
  /\ UNCHANGED <<appVars, listening, boots, sess, stream>>

(* Ephemeral rules, receivers and handlers do not outlive a daemon. *)
Boot ==
  /\ process = "down"
  /\ boots < MaxBoots
  /\ boots' = boots + 1
  /\ process' = "up"
  /\ listening' = TRUE
  /\ store' = EmptyStore
  /\ bus' = [r \in Receiver |-> NoReceiver]
  /\ token' = FALSE
  /\ handler' = [c \in Client |-> Idle]
  /\ served' = 0
  /\ UNCHANGED <<faults, sess, stream>>

DaemonStep == ShutdownRequested \/ Exit

Next ==
  \/ \E s \in Session :
       \/ Launch(s) \/ SessionStep(s) \/ CtrlC(s) \/ ChildExit(s) \/ Kill(s)
       \/ ReadFails(s) \/ StreamStep(s)
  \/ \E c \in Client \ Session : StopRequest(c) \/ OtherRequest(c)
  \/ \E c \in Client : HandlerStep(c)
  \/ DaemonStep \/ Signal \/ AcceptFails \/ Crash \/ Boot

Spec == Init /\ [][Next]_vars

(* Processes and tasks that run keep running; users, commands and failures *)
(* need not come.                                                          *)
FairSpec ==
  /\ Spec
  /\ \A s \in Session : WF_vars(SessionStep(s)) /\ WF_vars(StreamStep(s))
  /\ \A c \in Client : WF_vars(HandlerStep(c))
  /\ WF_vars(DaemonStep)

-----------------------------------------------------------------------------

(* Sessions and streams have the shapes above, and no stream is of a life  *)
(* the daemon has not reached (client.rs:101).                             *)
TypeOK ==
  /\ AppTypeOK
  /\ process \in {"down", "up", "joining"} /\ listening \in BOOLEAN
  /\ boots \in 0..MaxBoots /\ faults \in 0..MaxFaults
  /\ sess \in [Session ->
       [pc : Over \cup {"new", "detect", "add", "adding", "subscribe", "select",
                        "remove", "removing"},
        child : {"none", "running", "gone"}, life : 0..boots, conn : 0..boots]]
  /\ stream \in [Session ->
       [state : {"none", "opening", "open", "closed"}, life : 0..boots,
        pipe : Seq(Event)]]

InForce(s) == RuleOf(s) \in ToSet(LayerRules(store.ephemeral))

(* A session that is being waited for has its rule in force, as long as    *)
(* the daemon that took it lives (run.rs:94, 127).                         *)
RuleWhileRunning ==
  \A s \in Session :
    sess[s].pc \in {"subscribe", "select"} /\ Lives(sess[s].life) => InForce(s)

(* The session that asked for rule r is still in charge of it, was killed  *)
(* or cut off from the daemon, or is over while that is on its way out.    *)
InCharge == {"adding", "subscribe", "select", "remove", "killed", "cut"}
Answers(s, r) ==
  /\ RuleOf(s) = r /\ sess[s].life = boots
  /\ sess[s].pc \in InCharge \/ Stopping

(* Where sessions share a domain too, every ephemeral rule of the living   *)
(* daemon has a session that will remove it, unless one was killed or one  *)
(* of its calls failed, the daemon is stopping, or another client asked    *)
(* for it: the removal of one session and the add of the other leave no    *)
(* rule without an owner, none passes into the next life of the daemon,    *)
(* and no session that reached the daemon on all its way leaves its rule   *)
(* behind.  The failed calls are a gap of the code, not of the model: a    *)
(* failed subscribe() or RemoveEphemeral leaves the rule in force until    *)
(* the daemon ends (run.rs:94, 117, 147, 151).                             *)
EphemeralOwned ==
  Up => \A r \in ToSet(LayerRules(store.ephemeral)) :
    \/ \E s \in Session : Answers(s, r)
    \/ [kind |-> "add_ephemeral", rule |-> r] \in Request

(* A session whose command or daemon ends also ends, and its command with  *)
(* it, although the stream may drop DaemonStopped (server.rs:206).         *)
SessionEnds ==
  \A s \in Session :
    sess[s].pc = "select" /\ (sess[s].child = "gone" \/ token \/ ~Up) ~>
      sess[s].pc \in Over /\ (sess[s].child = "gone" \/ sess[s].pc = "killed")

(* "Run a command with an ephemeral DNS rule for the duration of its       *)
(* execution." (run.rs:11): while the command runs and is waited for, some *)
(* ephemeral rule is in force for its domain.                              *)
RuleForTheDuration ==
  \A s \in Session :
    sess[s].pc = "select" /\ sess[s].child = "running" /\ Lives(sess[s].life) =>
      \E r \in ToSet(LayerRules(store.ephemeral)) : r.domain = RuleOf(s).domain
=============================================================================
