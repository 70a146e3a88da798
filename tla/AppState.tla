------------------------------ MODULE AppState ------------------------------
(***************************************************************************)
(* The daemon's shared state (core/src/state.rs) and the IPC handler that  *)
(* changes it (core/src/ipc/handler.rs).                                   *)
(*                                                                         *)
(* A handler changes the store and then sends the event: two steps, with   *)
(* other threads between them.  A change of the store is one step because  *)
(* rcu is linearizable (RuleStore_proof).  List, Resolve and Status only   *)
(* read; their answers are the operators ListReply and so on.  A request   *)
(* that fails validate_domain returns before it touches anything, so only  *)
(* valid ones take a step.                                                 *)
(*                                                                         *)
(* The connection of a request may have been accepted before the token was *)
(* cancelled and its line read after, so requests are not tied to token.   *)
(***************************************************************************)
EXTENDS InnerRuleStore, Broadcast

CONSTANTS Client,        \* connections handled at the same time
          Receiver,      \* the tasks that subscribe to events
          Request,       \* the mutations clients ask for
          MaxRequests    \* bound: requests in the life of one daemon

ASSUME RequestAssumption == Request \subseteq Op
ASSUME MaxRequestsAssumption == MaxRequests \in Nat

RuleEvent == [kind : {"RuleAdded", "RuleRemoved",
                      "EphemeralAdded", "EphemeralRemoved"}, rule : Rule]
DaemonStopped == [kind |-> "DaemonStopped"]
Event == RuleEvent \cup {DaemonStopped}

IsRuleEvent(e) == e.kind # "DaemonStopped"
IsPersistentEvent(e) == e.kind \in {"RuleAdded", "RuleRemoved"}

VARIABLES store,     \* the value behind the ArcSwap
          bus,       \* the broadcast channel, receiver by receiver
          token,     \* the CancellationToken
          handler,   \* what each connection's handler still has to do
          served     \* requests so far

appVars == <<store, bus, token, handler, served>>

Idle == [pc |-> "idle", event |-> None]

AppInit(initial) ==
  /\ store = initial
  /\ bus = [r \in Receiver |-> NoReceiver]
  /\ token = FALSE
  /\ handler = [c \in Client |-> Idle]
  /\ served = 0

DomainOf(op) ==
  IF op.kind \in {"add", "add_ephemeral"} THEN op.rule.domain ELSE op.domain

EventKind(op) ==
  CASE op.kind = "add" -> "RuleAdded"
    [] op.kind = "add_ephemeral" -> "EphemeralAdded"
    [] op.kind = "remove" -> "RuleRemoved"
    [] op.kind = "remove_ephemeral" -> "EphemeralRemoved"

(* Add, AddEphemeral, Remove, RemoveEphemeral up to the change of the      *)
(* store; "No rule found" answers without an event.                        *)
Mutate(c, o) ==
  LET done == Apply(o, store) IN
  /\ handler[c].pc = "idle"
  /\ served < MaxRequests
  /\ ValidDomain(DomainOf(o))
  /\ store' = done.store
  /\ handler' = [handler EXCEPT ![c] =
       IF done.result = None THEN Idle
       ELSE [pc |-> "publish",
             event |-> [kind |-> EventKind(o), rule |-> done.result]]]
  /\ served' = served + 1
  /\ UNCHANGED <<bus, token>>

Stop(c) ==
  /\ handler[c].pc = "idle"
  /\ served < MaxRequests
  /\ handler' = [handler EXCEPT ![c] = [pc |-> "publish", event |-> DaemonStopped]]
  /\ served' = served + 1
  /\ UNCHANGED <<store, bus, token>>

(* events.send, and the answer to the client. *)
Publish(c) ==
  /\ handler[c].pc = "publish"
  /\ bus' = Send(bus, handler[c].event)
  /\ handler' = [handler EXCEPT ![c] =
       IF IsRuleEvent(handler[c].event) THEN Idle ELSE [@ EXCEPT !.pc = "cancel"]]
  /\ UNCHANGED <<store, token, served>>

CancelToken(c) ==
  /\ handler[c].pc = "cancel"
  /\ token' = TRUE
  /\ handler' = [handler EXCEPT ![c] = Idle]
  /\ UNCHANGED <<store, bus, served>>

(* A receiver appears, takes or loses its place on the channel. *)
Receive(r, rx) == bus' = [bus EXCEPT ![r] = rx]

ListReply(s) == PersistentRules(s)
ResolveReply(s, d) == Resolve(s, d)
StatusReply(s) == [running |-> TRUE, rule_count |-> Len(AllRules(s))]

(* snapshot_all_domains: every domain of either layer, once. *)
LayerDomains(layer) ==
  {layer.exact[d].domain : d \in {x \in Domain : layer.exact[x] # None}}
    \cup {layer.wildcard[i].domain : i \in 1..Len(layer.wildcard)}

AllDomains(s) == LayerDomains(s.ephemeral) \cup LayerDomains(s.persistent)

AppTypeOK ==
  /\ store \in Store /\ WellFormed(store)
  /\ bus \in [Receiver -> ReceiverOf(Event)]
  /\ \A r \in Receiver : Len(bus[r].queue) <= Capacity
  /\ token \in BOOLEAN
  /\ handler \in [Client -> [pc : {"idle", "publish", "cancel"},
                             event : Event \cup {None}]]
  /\ served \in 0..MaxRequests
=============================================================================
