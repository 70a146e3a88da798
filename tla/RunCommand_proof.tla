-------------------------- MODULE RunCommand_proof --------------------------
(***************************************************************************)
(* Proofs about RunCommand, for any sessions, requests and capacity: its   *)
(* types; that every ephemeral rule in force has an owner; and, for        *)
(* sessions whose domains nobody else changes, that a session waited for   *)
(* has its rule in force, and that one whose calls all succeed leaves none *)
(* behind.                                                                 *)
(***************************************************************************)
EXTENDS RunCommand, InnerRuleStore_proof

(* What the promises of a session need: no other session and no other      *)
(* client asks for an ephemeral rule of its domain.  The daemon does not   *)
(* keep them apart: one ephemeral layer serves all (store.rs:57, 100), and *)
(* RuleForTheDuration fails where two sessions share a domain.             *)
Apart ==
  /\ \A s, t \in Session : s # t => RuleOf(s).domain # RuleOf(t).domain
  /\ \A o \in Request : o.kind \in {"add_ephemeral", "remove_ephemeral"} =>
       \A s \in Session : DomainOf(o) # RuleOf(s).domain

-----------------------------------------------------------------------------
(* The inductive invariant. *)

(* Whoever is about to publish has an event, and the first life is 1. *)
Wired ==
  /\ \A c \in Client : handler[c].pc # "idle" => handler[c].event \in Event
  /\ Up => boots > 0

TypeInv == TypeOK /\ FinitelyMany(store) /\ Wired

(* DaemonStopped is on the channel only once a stop is under way. *)
Announced ==
  \A r \in Receiver : DaemonStopped \in ToSet(bus[r].queue) => Stopping

(* Where a session is, whose daemon holds its rule, and what its stream    *)
(* may say.                                                                *)
Early == {"new", "detect", "add"}
Waiting == {"adding", "subscribe", "select"}

(* What a session is promised when nobody else changes its domain. *)
Promise(s) ==
  /\ sess[s].pc \in Waiting /\ Lives(sess[s].life) => InForce(s)
  /\ sess[s].pc = "removing" /\ Lives(sess[s].life) => ~InForce(s)
  /\ sess[s].pc \in Over \ {"killed", "cut"} /\ Lives(sess[s].life) /\ InForce(s) => Stopping

Row(s) ==
  /\ sess[s].pc \in Early => sess[s].life = 0
  /\ sess[s].pc \in Early \cup {"adding", "subscribe"} => stream[s].state = "none"
  /\ stream[s].state \in {"none", "opening"} => stream[s].pipe = << >>
  /\ sess[s].pc = "adding" => sess[s].conn = sess[s].life
  /\ sess[s].pc = "select" => sess[s].life <= stream[s].life
  /\ Lives(stream[s].life) /\ DaemonStopped \in ToSet(stream[s].pipe) => Stopping
  /\ Lives(stream[s].life) /\ stream[s].state = "closed" =>
       token \/ sess[s].pc \in Over
  /\ Apart => Promise(s)

Inv == TypeInv /\ Announced /\ \A s \in Session : Row(s)

-----------------------------------------------------------------------------
(* TypeInv, component by component. *)

PC == Over \cup {"new", "detect", "add", "adding", "subscribe", "select",
                 "remove", "removing"}

SessionRecord(b) ==
  [pc : PC, child : {"none", "running", "gone"}, life : 0..b, conn : 0..b]

StreamRecord(b) ==
  [state : {"none", "opening", "open", "closed"}, life : 0..b, pipe : Seq(Event)]

Sound(rx) == rx \in ReceiverOf(Event) /\ Len(rx.queue) <= Capacity

Stored == store \in Store /\ WellFormed(store) /\ FinitelyMany(store)

Connected == bus \in [Receiver -> ReceiverOf(Event)] /\ \A r \in Receiver : Sound(bus[r])

HandlerRecord == [pc : {"idle", "publish", "cancel"}, event : Event \cup {None}]

Serving ==
  /\ token \in BOOLEAN
  /\ handler \in [Client -> HandlerRecord]
  /\ \A c \in Client : handler[c].pc # "idle" => handler[c].event \in Event
  /\ served \in 0..MaxRequests

Living ==
  /\ process \in {"down", "up", "joining"} /\ listening \in BOOLEAN
  /\ boots \in 0..MaxBoots /\ faults \in 0..MaxFaults
  /\ process # "down" => boots > 0

Sessions == sess \in [Session -> SessionRecord(boots)]
Streams == stream \in [Session -> StreamRecord(boots)]

Parts == Stored /\ Connected /\ Serving /\ Living /\ Sessions /\ Streams

LEMMA PartsOfInv == TypeInv <=> Parts
<1>1. ASSUME TypeInv PROVE Stored /\ Living
  BY <1>1 DEF TypeInv, TypeOK, AppTypeOK, Wired, Stored, Living, Up
<1>2. ASSUME TypeInv PROVE Connected
  BY <1>2 DEF TypeInv, TypeOK, AppTypeOK, Connected, Sound
<1>3. ASSUME TypeInv PROVE Serving
  BY <1>3 DEF TypeInv, TypeOK, AppTypeOK, Wired, Serving, HandlerRecord
<1>4. ASSUME TypeInv PROVE Sessions /\ Streams
  BY <1>4 DEF TypeInv, TypeOK, Sessions, Streams, SessionRecord, StreamRecord, PC
<1>5. ASSUME Parts PROVE TypeInv
  <2>1. AppTypeOK
    BY <1>5 DEF Parts, AppTypeOK, Connected, Sound, Stored, Serving, HandlerRecord
  <2>2. Wired
    BY <1>5 DEF Parts, Wired, Serving, Living, Up
  <2> QED  BY <1>5, <2>1, <2>2
           DEF Parts, TypeInv, TypeOK, Stored, Living, Sessions, Streams,
               SessionRecord, StreamRecord, PC
<1> QED  BY <1>1, <1>2, <1>3, <1>4, <1>5 DEF Parts

LEMMA FrameStored == Stored /\ UNCHANGED store => Stored'
BY DEF Stored
LEMMA FrameConnected == Connected /\ UNCHANGED bus => Connected'
BY DEF Connected
LEMMA FrameServing == Serving /\ UNCHANGED <<token, handler, served>> => Serving'
BY DEF Serving
LEMMA FrameLiving == Living /\ UNCHANGED <<process, listening, boots, faults>> => Living'
BY DEF Living
LEMMA FrameSessions == Sessions /\ UNCHANGED <<boots, sess>> => Sessions'
BY DEF Sessions
LEMMA FrameStreams == Streams /\ UNCHANGED <<boots, stream>> => Streams'
BY DEF Streams

(* Every event is a RuleEvent or DaemonStopped. *)
LEMMA EventKinds ==
  /\ DaemonStopped \in Event /\ ~IsRuleEvent(DaemonStopped)
  /\ \A e \in Event : ~IsRuleEvent(e) => e = DaemonStopped
  /\ \A e \in RuleEvent : e # DaemonStopped
BY DEF Event, IsRuleEvent, RuleEvent, DaemonStopped

(* Sending keeps a receiver sound and puts nothing but the message on its  *)
(* queue.                                                                  *)
LEMMA DeliverSound ==
  ASSUME NEW rx, Sound(rx), NEW m \in Event
  PROVE  /\ Sound(Deliver(rx, m))
         /\ \A e \in ToSet(Deliver(rx, m).queue) : e = m \/ e \in ToSet(rx.queue)
<1>0. /\ rx.subscribed \in BOOLEAN /\ rx.lagged \in BOOLEAN /\ rx.queue \in Seq(Event)
      /\ Len(rx.queue) \in Nat /\ Len(rx.queue) <= Capacity
      /\ Capacity \in Nat /\ Capacity > 0
  BY CapacityAssumption DEF Sound, ReceiverOf
<1>1. CASE ~rx.subscribed
  BY <1>1 DEF Deliver
<1>2. ASSUME NEW q \in Seq(Event), Len(q) < Capacity, ToSet(q) \subseteq ToSet(rx.queue),
             Deliver(rx, m) = [rx EXCEPT !.lagged = @ \/ Full(rx), !.queue = Append(q, m)]
      PROVE  /\ Sound(Deliver(rx, m))
             /\ \A e \in ToSet(Deliver(rx, m).queue) : e = m \/ e \in ToSet(rx.queue)
  <2> DEFINE out == Append(q, m)
  <2>1. out \in Seq(Event) /\ Len(out) = Len(q) + 1
    BY AppendSet
  <2>2. Len(out) <= Capacity
    BY <1>0, <1>2, <2>1
  <2>3. \A e \in ToSet(out) : e = m \/ e \in ToSet(q)
    <3>1. /\ DOMAIN out = 1..(Len(q) + 1) /\ DOMAIN q = 1..Len(q)
          /\ \A i \in 1..Len(q) : out[i] = q[i]
          /\ out[Len(q) + 1] = m
      BY <2>1
    <3>2. \A i \in 1..(Len(q) + 1) : i \in 1..Len(q) \/ i = Len(q) + 1
      OBVIOUS
    <3> QED  BY <3>1, <3>2 DEF ToSet
  <2> HIDE DEF out
  <2>4. Full(rx) \in BOOLEAN
    BY DEF Full
  <2>5. Deliver(rx, m) = [rx EXCEPT !.lagged = @ \/ Full(rx), !.queue = out]
    BY <1>2 DEF out
  <2>6. Deliver(rx, m) \in ReceiverOf(Event) /\ Deliver(rx, m).queue = out
    BY <1>0, <2>1, <2>4, <2>5 DEF Sound, ReceiverOf
  <2> QED  BY <1>2, <2>2, <2>3, <2>6 DEF Sound
<1>3. CASE rx.subscribed /\ ~Full(rx)
  <2>1. Len(rx.queue) < Capacity
    BY <1>0, <1>3 DEF Full
  <2>2. Deliver(rx, m) = [rx EXCEPT !.lagged = @ \/ Full(rx), !.queue = Append(rx.queue, m)]
    BY <1>3 DEF Deliver
  <2> QED  BY <1>0, <1>2, <2>1, <2>2
<1>4. CASE rx.subscribed /\ Full(rx)
  <2>1. rx.queue # << >>
    BY <1>0, <1>4 DEF Full
  <2>2. /\ Tail(rx.queue) \in Seq(Event) /\ Len(Tail(rx.queue)) = Len(rx.queue) - 1
        /\ ToSet(Tail(rx.queue)) \subseteq ToSet(rx.queue)
    BY <1>0, <2>1, TailSet
  <2>3. Len(Tail(rx.queue)) < Capacity
    BY <1>0, <2>2
  <2>4. Deliver(rx, m) = [rx EXCEPT !.lagged = @ \/ Full(rx),
                                    !.queue = Append(Tail(rx.queue), m)]
    BY <1>4 DEF Deliver
  <2> QED  BY <1>2, <2>2, <2>3, <2>4
<1> QED  BY <1>1, <1>3, <1>4

LEMMA SendConnected ==
  ASSUME Connected, NEW m \in Event, bus' = Send(bus, m)
  PROVE  /\ Connected'
         /\ \A r \in Receiver : \A e \in ToSet(bus'[r].queue) :
              e = m \/ e \in ToSet(bus[r].queue)
<1>1. bus' = [r \in Receiver |-> Deliver(bus[r], m)]
  BY DEF Send, Connected
<1>2. \A r \in Receiver :
        /\ Sound(Deliver(bus[r], m))
        /\ \A e \in ToSet(Deliver(bus[r], m).queue) : e = m \/ e \in ToSet(bus[r].queue)
  BY DeliverSound DEF Connected
<1>3. \A r \in Receiver : Deliver(bus[r], m) \in ReceiverOf(Event)
  BY <1>2 DEF Sound
<1> QED  BY <1>1, <1>2, <1>3 DEF Connected

(* A receiver put in a place of the channel. *)
LEMMA ReceiveConnected ==
  ASSUME Connected, NEW s \in Session, NEW rx, Sound(rx), Receive(s, rx)
  PROVE  Connected' /\ \A r \in Receiver : bus'[r] = IF r = s THEN rx ELSE bus[r]
<1>1. s \in Receiver /\ rx \in ReceiverOf(Event)
  BY SessionAssumption DEF Sound
<1>2. \A r \in Receiver : bus'[r] = IF r = s THEN rx ELSE bus[r]
  BY <1>1 DEF Connected, Receive
<1> QED  BY <1>1, <1>2 DEF Connected, Receive

LEMMA ReceiversSound ==
  /\ Sound(NoReceiver) /\ NoReceiver.queue = << >>
  /\ Sound(NewReceiver) /\ NewReceiver.queue = << >>
<1>1. << >> \in Seq(Event) /\ Len(<< >>) <= Capacity
  BY CapacityAssumption, EmptySet
<1> QED  BY <1>1 DEF Sound, NoReceiver, NewReceiver, ReceiverOf

LEMMA TakeSound ==
  ASSUME NEW rx, Sound(rx)
  PROVE  /\ Sound(TakeLagged(rx)) /\ TakeLagged(rx).queue = rx.queue
         /\ HasMessage(rx) =>
              /\ Sound(TakeMessage(rx)) /\ TakeMessage(rx).queue = Tail(rx.queue)
              /\ Head(rx.queue) \in Event /\ Head(rx.queue) \in ToSet(rx.queue)
              /\ ToSet(Tail(rx.queue)) \subseteq ToSet(rx.queue)
<1>0. /\ rx.subscribed \in BOOLEAN /\ rx.lagged \in BOOLEAN /\ rx.queue \in Seq(Event)
      /\ rx \in ReceiverOf(Event) /\ Len(rx.queue) <= Capacity
  BY DEF Sound, ReceiverOf
<1>1. TakeLagged(rx) \in ReceiverOf(Event) /\ TakeLagged(rx).queue = rx.queue
  BY <1>0 DEF TakeLagged, ReceiverOf
<1>2. ASSUME HasMessage(rx)
      PROVE  /\ Sound(TakeMessage(rx)) /\ TakeMessage(rx).queue = Tail(rx.queue)
             /\ Head(rx.queue) \in Event /\ Head(rx.queue) \in ToSet(rx.queue)
             /\ ToSet(Tail(rx.queue)) \subseteq ToSet(rx.queue)
  <2>1. rx.queue # << >>
    BY <1>2 DEF HasMessage
  <2>2. /\ Head(rx.queue) \in Event /\ Head(rx.queue) \in ToSet(rx.queue)
        /\ Tail(rx.queue) \in Seq(Event) /\ Len(Tail(rx.queue)) = Len(rx.queue) - 1
        /\ ToSet(Tail(rx.queue)) \subseteq ToSet(rx.queue)
    BY <1>0, <2>1, TailSet
  <2>3. TakeMessage(rx) \in ReceiverOf(Event) /\ TakeMessage(rx).queue = Tail(rx.queue)
    BY <1>0, <2>2 DEF TakeMessage, ReceiverOf
  <2>4. Len(Tail(rx.queue)) <= Capacity
    BY <1>0, <2>2, CapacityAssumption
  <2> QED  BY <2>2, <2>3, <2>4 DEF Sound
<1> QED  BY <1>0, <1>1, <1>2 DEF Sound

-----------------------------------------------------------------------------
(* Types are kept. *)

(* A session goes on at pc, and the others stay where they are. *)
Moved(s, pc) ==
  /\ sess'[s].pc = pc /\ sess'[s].life = sess[s].life /\ sess'[s].conn = sess[s].conn
  /\ \A t \in Session : t # s => sess'[t] = sess[t]

LEMMA SessionMoves ==
  ASSUME Sessions, NEW s \in Session, NEW pc \in PC, UNCHANGED boots,
         Goto(s, pc) \/ KillChild(s, pc)
  PROVE  Sessions' /\ Moved(s, pc)
<1>1. sess[s] \in SessionRecord(boots)
  BY DEF Sessions
<1>2. CASE Goto(s, pc)
  <2> DEFINE x == [sess[s] EXCEPT !.pc = pc]
  <2>1. /\ x \in SessionRecord(boots) /\ x.pc = pc
        /\ x.life = sess[s].life /\ x.conn = sess[s].conn
    BY <1>1 DEF SessionRecord
  <2>2. sess' = [sess EXCEPT ![s] = x]
    BY <1>2 DEF Goto
  <2> HIDE DEF x
  <2> QED  BY <2>1, <2>2 DEF Sessions, Moved
<1>3. CASE KillChild(s, pc)
  <2> DEFINE x == [sess[s] EXCEPT !.pc = pc, !.child = "gone"]
  <2>1. /\ x \in SessionRecord(boots) /\ x.pc = pc
        /\ x.life = sess[s].life /\ x.conn = sess[s].conn
    BY <1>1 DEF SessionRecord
  <2>2. sess' = [sess EXCEPT ![s] = x]
    BY <1>3 DEF KillChild, Sessions
  <2> HIDE DEF x
  <2> QED  BY <2>1, <2>2 DEF Sessions, Moved
<1> QED  BY <1>2, <1>3

(* A handler takes up a request, or goes on with the one it has. *)
LEMMA HandlerServing ==
  ASSUME Serving, NEW c \in Client, NEW new \in HandlerRecord,
         new.pc # "idle" => new.event \in Event,
         handler' = [handler EXCEPT ![c] = new],
         token' \in BOOLEAN, served' \in 0..MaxRequests
  PROVE  /\ Serving' /\ handler'[c] = new
         /\ \A x \in Client : x # c => handler'[x] = handler[x]
BY DEF Serving

LEMMA MutateParts ==
  ASSUME Stored, Serving, NEW c \in Client, NEW o \in Op, Mutate(c, o)
  PROVE  /\ Stored' /\ Serving'
         /\ handler[c].pc = "idle" /\ store' = Apply(o, store).store
         /\ UNCHANGED <<bus, token>>
         /\ \A x \in Client : x # c => handler'[x] = handler[x]
<1> DEFINE done == Apply(o, store)
           event == [kind |-> EventKind(o), rule |-> done.result]
           new == IF done.result = None THEN Idle ELSE [pc |-> "publish", event |-> event]
<1>1. /\ done.store \in Store /\ WellFormed(done.store)
      /\ done.result \in Rule \cup {None} /\ FinitelyMany(done.store)
  BY ApplyLemma, ApplyFinite DEF Stored
<1>2. /\ handler[c].pc = "idle" /\ served < MaxRequests /\ store' = done.store
      /\ handler' = [handler EXCEPT ![c] = new]
      /\ served' = served + 1 /\ UNCHANGED <<bus, token>>
  BY DEF Mutate
<1>3. Stored'
  BY <1>1, <1>2 DEF Stored
<1>4. EventKind(o) \in {"RuleAdded", "RuleRemoved", "EphemeralAdded", "EphemeralRemoved"}
  BY DEF Op, EventKind
<1> HIDE DEF done
<1>5. \/ new = Idle
      \/ event \in RuleEvent /\ new = [pc |-> "publish", event |-> event]
  BY <1>1, <1>4 DEF RuleEvent
<1> HIDE DEF event, new
<1>6. new \in HandlerRecord /\ (new.pc # "idle" => new.event \in Event)
  BY <1>5 DEF Idle, Event, HandlerRecord
<1>7. served' \in 0..MaxRequests
  BY <1>2, MaxRequestsAssumption DEF Serving
<1>8. token' \in BOOLEAN
  BY <1>2 DEF Serving
<1> QED  BY <1>2, <1>3, <1>6, <1>7, <1>8, HandlerServing DEF done

(* The requests of a session are operations of the store. *)
LEMMA SessionOps ==
  ASSUME NEW s \in Session
  PROVE  /\ [kind |-> "add_ephemeral", rule |-> RuleOf(s)] \in Op
         /\ [kind |-> "remove_ephemeral", domain |-> RuleOf(s).domain] \in Op
         /\ RuleOf(s) \in Rule /\ RuleOf(s).domain \in Domain
         /\ s \in Client /\ s \in Receiver
BY RuleOfAssumption, SessionAssumption DEF Op, Rule

LEMMA StopParts ==
  ASSUME Serving, NEW c \in Client, Stop(c)
  PROVE  /\ Serving' /\ handler[c].pc = "idle" /\ UNCHANGED <<store, bus, token>>
         /\ \A x \in Client : x # c => handler'[x] = handler[x]
<1> DEFINE new == [pc |-> "publish", event |-> DaemonStopped]
<1>1. new \in HandlerRecord /\ (new.pc # "idle" => new.event \in Event)
  BY EventKinds DEF HandlerRecord
<1>2. /\ handler' = [handler EXCEPT ![c] = new] /\ UNCHANGED <<store, bus, token>>
      /\ handler[c].pc = "idle"
  BY DEF Stop
<1>3. served' \in 0..MaxRequests
  BY MaxRequestsAssumption DEF Stop, Serving
<1>4. token' \in BOOLEAN
  BY <1>2 DEF Serving
<1> HIDE DEF new
<1> QED  BY <1>1, <1>2, <1>3, <1>4, HandlerServing

(* What a handler that publishes is left with. *)
LEMMA PublishParts ==
  ASSUME Serving, Connected, NEW c \in Client, Publish(c)
  PROVE  /\ Serving' /\ Connected' /\ UNCHANGED <<store, token>>
         /\ handler[c].pc = "publish" /\ handler[c].event \in Event
         /\ bus' = Send(bus, handler[c].event)
         /\ handler[c].event = DaemonStopped =>
              handler'[c].pc = "cancel" /\ handler'[c].event = DaemonStopped
         /\ \A x \in Client : x # c => handler'[x] = handler[x]
<1> DEFINE event == handler[c].event
           new == IF IsRuleEvent(event) THEN Idle ELSE [handler[c] EXCEPT !.pc = "cancel"]
<1>1. handler[c].pc = "publish" /\ handler[c] \in HandlerRecord /\ event \in Event
  BY DEF Publish, Serving
<1>2. /\ handler' = [handler EXCEPT ![c] = new] /\ UNCHANGED <<store, token, served>>
      /\ bus' = Send(bus, event)
  BY DEF Publish
<1>3. new \in HandlerRecord /\ (new.pc # "idle" => new.event \in Event)
  BY <1>1 DEF HandlerRecord, Idle
<1>4. event = DaemonStopped => new.pc = "cancel" /\ new.event = DaemonStopped
  BY <1>1, EventKinds DEF HandlerRecord
<1>5. token' \in BOOLEAN /\ served' \in 0..MaxRequests
  BY <1>2 DEF Serving
<1> HIDE DEF new
<1>6. /\ Serving' /\ handler'[c] = new
      /\ \A x \in Client : x # c => handler'[x] = handler[x]
  BY <1>2, <1>3, <1>5, HandlerServing
<1>7. Connected'
  BY <1>1, <1>2, SendConnected
<1> QED  BY <1>1, <1>2, <1>4, <1>6, <1>7

LEMMA CancelParts ==
  ASSUME Serving, NEW c \in Client, CancelToken(c)
  PROVE  Serving' /\ token' = TRUE /\ UNCHANGED <<store, bus>>
<1>1. Idle \in HandlerRecord /\ Idle.pc = "idle"
  BY DEF Idle, HandlerRecord
<1>2. /\ handler' = [handler EXCEPT ![c] = Idle] /\ token' = TRUE
      /\ UNCHANGED <<store, bus, served>>
  BY DEF CancelToken
<1>3. served' \in 0..MaxRequests
  BY <1>2 DEF Serving
<1>4. token' \in BOOLEAN
  BY <1>2
<1> QED  BY <1>1, <1>2, <1>3, <1>4, HandlerServing

LEMMA InitParts == Init => Parts
<1> SUFFICES ASSUME Init PROVE Parts
  OBVIOUS
<1>1. Stored
  BY EmptyStoreLemma, EmptyFinite DEF Init, AppInit, Stored
<1>2. Connected
  BY ReceiversSound DEF Init, AppInit, Connected, Sound
<1>3. Serving
  <2>1. Idle \in HandlerRecord /\ Idle.pc = "idle"
    BY DEF Idle, HandlerRecord
  <2>2. handler \in [Client -> HandlerRecord] /\ \A c \in Client : handler[c].pc = "idle"
    BY <2>1 DEF Init, AppInit
  <2>3. token \in BOOLEAN
    BY DEF Init, AppInit
  <2>4. served \in 0..MaxRequests
    BY MaxRequestsAssumption DEF Init, AppInit
  <2> QED  BY <2>2, <2>3, <2>4 DEF Serving
<1>4. Living
  <2>1. listening \in BOOLEAN
    BY DEF Init
  <2>2. process = "down" /\ boots \in 0..MaxBoots /\ faults \in 0..MaxFaults
    BY BoundsAssumption DEF Init
  <2> QED  BY <2>1, <2>2 DEF Living
<1>5. NewSession \in SessionRecord(0) /\ NoStream \in StreamRecord(0)
  BY EmptySet DEF NewSession, NoStream, SessionRecord, StreamRecord, PC
<1>6. Sessions /\ Streams
  BY <1>5 DEF Init, Sessions, Streams
<1> QED  BY <1>1, <1>2, <1>3, <1>4, <1>6 DEF Parts

(* A step of a session alone. *)
LEMMA QuietParts ==
  ASSUME Parts, Sessions', UNCHANGED <<appVars, process, listening, boots, stream>>,
         faults' \in 0..MaxFaults
  PROVE  Parts'
<1>1. Living'
  BY DEF Parts, Living
<1> QED  BY <1>1, FrameStored, FrameConnected, FrameServing, FrameStreams DEF Parts, appVars

LEMMA StreamMoves ==
  ASSUME Streams, NEW s \in Session, NEW y \in StreamRecord(boots), UNCHANGED boots,
         stream' = [stream EXCEPT ![s] = y]
  PROVE  /\ Streams' /\ stream'[s] = y
         /\ \A t \in Session : t # s => stream'[t] = stream[t]
BY DEF Streams

LEMMA RecordMoves ==
  ASSUME Sessions, NEW s \in Session, NEW x \in SessionRecord(boots), UNCHANGED boots,
         sess' = [sess EXCEPT ![s] = x]
  PROVE  /\ Sessions' /\ sess'[s] = x
         /\ \A t \in Session : t # s => sess'[t] = sess[t]
BY DEF Sessions

LEMMA LaunchParts ==
  ASSUME Parts, NEW s \in Session, Launch(s)
  PROVE  /\ Parts' /\ Moved(s, "detect") /\ sess[s].pc = "new"
         /\ UNCHANGED <<appVars, process, boots, stream>>
<1> DEFINE x == [sess[s] EXCEPT !.pc = "detect", !.child = "running"]
<1>1. /\ x \in SessionRecord(boots) /\ x.pc = "detect"
      /\ x.life = sess[s].life /\ x.conn = sess[s].conn
  BY DEF Parts, Sessions, SessionRecord, PC
<1>2. sess' = [sess EXCEPT ![s] = x]
  BY DEF Launch, Parts, Sessions
<1>3. UNCHANGED <<appVars, process, listening, boots, faults, stream>> /\ sess[s].pc = "new"
  BY DEF Launch
<1> HIDE DEF x
<1>4. Sessions' /\ Moved(s, "detect")
  BY <1>1, <1>2, <1>3, RecordMoves DEF Parts, Moved
<1>5. faults' \in 0..MaxFaults
  BY <1>3 DEF Parts, Living
<1> QED  BY <1>3, <1>4, <1>5, QuietParts

LEMMA ChildExitParts ==
  ASSUME Parts, NEW s \in Session, ChildExit(s)
  PROVE  /\ Parts' /\ Moved(s, sess[s].pc)
         /\ UNCHANGED <<appVars, process, boots, stream>>
<1> DEFINE x == [sess[s] EXCEPT !.child = "gone"]
<1>1. /\ x \in SessionRecord(boots) /\ x.pc = sess[s].pc
      /\ x.life = sess[s].life /\ x.conn = sess[s].conn
  BY DEF Parts, Sessions, SessionRecord
<1>2. sess' = [sess EXCEPT ![s] = x]
  BY DEF ChildExit, Parts, Sessions
<1>3. UNCHANGED <<appVars, process, listening, boots, faults, stream>>
  BY DEF ChildExit
<1> HIDE DEF x
<1>4. Sessions' /\ Moved(s, sess[s].pc)
  BY <1>1, <1>2, <1>3, RecordMoves DEF Parts, Moved
<1>5. faults' \in 0..MaxFaults
  BY <1>3 DEF Parts, Living
<1> QED  BY <1>3, <1>4, <1>5, QuietParts

(* The steps that only move a session on, and from where to where. *)
QuietMove(s) ==
  \/ sess[s].pc = "detect" /\ \E pc \in {"add", "failed"} : Moved(s, pc)
  \/ sess[s].pc = "add" /\ Moved(s, "failed")
  \/ sess[s].pc = "adding" /\ Lives(sess[s].conn) /\ Moved(s, "subscribe")
  \/ sess[s].pc = "adding" /\ ~Lives(sess[s].conn) /\ Moved(s, "failed")
  \/ sess[s].pc = "select" /\ Moved(s, "remove")
  \/ /\ sess[s].pc = "select" /\ stream[s].state = "closed" /\ Moved(s, "stopped")
  \/ sess[s].pc = "removing" /\ Moved(s, "exited")
  \/ Moved(s, "killed") \/ Moved(s, "cut")

LEMMA MovesParts ==
  ASSUME Parts, NEW s \in Session, NEW pc \in PC, Goto(s, pc) \/ KillChild(s, pc),
         UNCHANGED <<appVars, process, listening, boots, stream>>,
         faults' \in 0..MaxFaults
  PROVE  Parts' /\ Moved(s, pc)
<1>1. Sessions' /\ Moved(s, pc)
  BY SessionMoves DEF Parts
<1> QED  BY <1>1, QuietParts

LEMMA QuietMoves ==
  ASSUME Parts, NEW s \in Session,
         \/ Detect(s) \/ AddReply(s) \/ CtrlC(s) \/ ChildWait(s) \/ RemoveReply(s) \/ Kill(s)
         \/ ReadFails(s)
         \/ SendAdd(s) /\ Goto(s, "failed") /\ ConnectFails /\ UNCHANGED appVars
         \/ Subscribe(s) /\ Goto(s, "cut") /\ ConnectFails /\ UNCHANGED stream
         \/ SendRemove(s) /\ Goto(s, "cut") /\ ConnectFails /\ UNCHANGED appVars
         \/ StopEvent(s) /\ stream[s].state = "closed" /\ KillChild(s, "stopped")
              /\ UNCHANGED stream
  PROVE  /\ Parts' /\ QuietMove(s)
         /\ UNCHANGED <<appVars, process, boots, stream>>
<1>0. {"add", "failed", "subscribe", "remove", "exited", "killed", "stopped", "cut"}
        \subseteq PC
  BY DEF PC, Over
<1>1. UNCHANGED <<appVars, process, listening, boots, stream>>
  BY DEF Detect, AddReply, CtrlC, ChildWait, RemoveReply, Kill, ReadFails, SendAdd,
         Subscribe, SendRemove, StopEvent
<1>2. faults' \in 0..MaxFaults
  <2>1. faults' = faults \/ (faults < MaxFaults /\ faults' = faults + 1)
    BY DEF Detect, AddReply, CtrlC, ChildWait, RemoveReply, Kill, ReadFails, SendAdd,
           Subscribe, SendRemove, StopEvent, Fault, ConnectFails
  <2>2. faults \in 0..MaxFaults /\ MaxFaults \in Nat
    BY BoundsAssumption DEF Parts, Living
  <2> QED  BY <2>1, <2>2
<1>3. ASSUME NEW pc \in {"add", "failed", "subscribe", "remove", "exited", "killed",
                         "stopped", "cut"},
             Goto(s, pc) \/ KillChild(s, pc)
      PROVE  Parts' /\ Moved(s, pc)
  <2>1. pc \in PC
    BY <1>0, <1>3
  <2> QED  BY <1>1, <1>2, <1>3, <2>1, MovesParts
<1>4. CASE Detect(s)
  BY <1>1, <1>3, <1>4 DEF Detect, WaitForPort, DetectListeners, QuietMove
<1>5. CASE AddReply(s)
  BY <1>1, <1>3, <1>5 DEF AddReply, QuietMove
<1>6. CASE CtrlC(s) \/ ChildWait(s)
  BY <1>1, <1>3, <1>6 DEF CtrlC, ChildWait, QuietMove
<1>7. CASE RemoveReply(s)
  BY <1>1, <1>3, <1>7 DEF RemoveReply, QuietMove
<1>8. CASE Kill(s) \/ ReadFails(s)
  BY <1>1, <1>3, <1>8 DEF Kill, ReadFails, QuietMove
<1>9. CASE SendAdd(s) /\ Goto(s, "failed") /\ ConnectFails /\ UNCHANGED appVars
  BY <1>1, <1>3, <1>9 DEF SendAdd, QuietMove
<1>10. CASE Subscribe(s) /\ Goto(s, "cut") /\ ConnectFails /\ UNCHANGED stream
  BY <1>1, <1>3, <1>10 DEF Subscribe, QuietMove
<1>11. CASE SendRemove(s) /\ Goto(s, "cut") /\ ConnectFails /\ UNCHANGED appVars
  BY <1>1, <1>3, <1>11 DEF SendRemove, QuietMove
<1>12. CASE StopEvent(s) /\ stream[s].state = "closed" /\ KillChild(s, "stopped")
              /\ UNCHANGED stream
  BY <1>1, <1>3, <1>12 DEF StopEvent, QuietMove
<1> QED  BY <1>4, <1>5, <1>6, <1>7, <1>8, <1>9, <1>10, <1>11, <1>12

(* The requests of a session that reach the daemon. *)
LEMMA SendAddParts ==
  ASSUME Parts, NEW s \in Session, SendAdd(s), sess'[s].pc # "failed"
  PROVE  /\ Parts' /\ sess[s].pc = "add"
         /\ Mutate(s, [kind |-> "add_ephemeral", rule |-> RuleOf(s)])
         /\ sess'[s].pc = "adding" /\ sess'[s].life = boots /\ sess'[s].conn = boots
         /\ \A t \in Session : t # s => sess'[t] = sess[t]
         /\ UNCHANGED <<process, boots, stream>>
<1>1. sess[s].pc = "add" /\ UNCHANGED <<process, listening, boots, stream>>
  BY DEF SendAdd
<1>2. ~Goto(s, "failed")
  BY DEF Goto, Parts, Sessions, SessionRecord
<1>3. /\ UNCHANGED faults /\ Mutate(s, [kind |-> "add_ephemeral", rule |-> RuleOf(s)])
      /\ sess' = [sess EXCEPT ![s].pc = "adding", ![s].life = boots, ![s].conn = boots]
  BY <1>2 DEF SendAdd
<1> DEFINE x == [sess[s] EXCEPT !.pc = "adding", !.life = boots, !.conn = boots]
<1>4. boots \in 0..boots
  BY BoundsAssumption DEF Parts, Living
<1>5. x \in SessionRecord(boots) /\ x.pc = "adding" /\ x.life = boots /\ x.conn = boots
  BY <1>4 DEF Parts, Sessions, SessionRecord, PC
<1>6. sess' = [sess EXCEPT ![s] = x]
  BY <1>3 DEF Parts, Sessions
<1> HIDE DEF x
<1>7. /\ Sessions' /\ sess'[s] = x /\ \A t \in Session : t # s => sess'[t] = sess[t]
  BY <1>1, <1>5, <1>6, RecordMoves DEF Parts
<1>8. Stored' /\ Serving' /\ UNCHANGED bus
  BY <1>3, SessionOps, MutateParts DEF Parts
<1> QED  BY <1>1, <1>3, <1>5, <1>7, <1>8, FrameConnected, FrameLiving, FrameStreams DEF Parts

LEMMA SendRemoveParts ==
  ASSUME Parts, NEW s \in Session, SendRemove(s), sess'[s].pc # "cut"
  PROVE  /\ Parts' /\ sess[s].pc = "remove"
         /\ Mutate(s, [kind |-> "remove_ephemeral", domain |-> RuleOf(s).domain])
         /\ sess'[s].pc = "removing"
         /\ \A t \in Session : t # s => sess'[t] = sess[t]
         /\ UNCHANGED <<process, boots, stream>>
<1>1. sess[s].pc = "remove" /\ UNCHANGED <<process, listening, boots, stream>>
  BY DEF SendRemove
<1>2. ~Goto(s, "cut")
  BY DEF Goto, Parts, Sessions, SessionRecord
<1>3. /\ UNCHANGED faults /\ Mutate(s, [kind |-> "remove_ephemeral", domain |-> RuleOf(s).domain])
      /\ sess' = [sess EXCEPT ![s].pc = "removing", ![s].conn = boots]
  BY <1>2 DEF SendRemove
<1> DEFINE x == [sess[s] EXCEPT !.pc = "removing", !.conn = boots]
<1>4. boots \in 0..boots
  BY BoundsAssumption DEF Parts, Living
<1>5. x \in SessionRecord(boots) /\ x.pc = "removing"
  BY <1>4 DEF Parts, Sessions, SessionRecord, PC
<1>6. sess' = [sess EXCEPT ![s] = x]
  BY <1>3 DEF Parts, Sessions
<1> HIDE DEF x
<1>7. /\ Sessions' /\ sess'[s] = x /\ \A t \in Session : t # s => sess'[t] = sess[t]
  BY <1>1, <1>5, <1>6, RecordMoves DEF Parts
<1>8. Stored' /\ Serving' /\ UNCHANGED bus
  BY <1>3, SessionOps, MutateParts DEF Parts
<1> QED  BY <1>1, <1>3, <1>5, <1>7, <1>8, FrameConnected, FrameLiving, FrameStreams DEF Parts

LEMMA SubscribeParts ==
  ASSUME Parts, NEW s \in Session, Subscribe(s), sess'[s].pc # "cut"
  PROVE  /\ Parts' /\ sess[s].pc = "subscribe" /\ Moved(s, "select")
         /\ stream'[s].state = "opening" /\ stream'[s].life = boots
         /\ stream'[s].pipe = stream[s].pipe
         /\ \A t \in Session : t # s => stream'[t] = stream[t]
         /\ UNCHANGED <<appVars, process, boots>>
<1>1. sess[s].pc = "subscribe" /\ UNCHANGED <<appVars, process, listening, boots>>
  BY DEF Subscribe
<1>0. ~Goto(s, "cut")
  BY DEF Goto, Parts, Sessions, SessionRecord
<1>2. /\ UNCHANGED faults /\ Goto(s, "select")
      /\ stream' = [stream EXCEPT ![s].state = "opening", ![s].life = boots]
  BY <1>0 DEF Subscribe
<1> DEFINE y == [stream[s] EXCEPT !.state = "opening", !.life = boots]
<1>3. boots \in 0..boots
  BY BoundsAssumption DEF Parts, Living
<1>4. /\ y \in StreamRecord(boots) /\ y.state = "opening" /\ y.life = boots
      /\ y.pipe = stream[s].pipe
  BY <1>3 DEF Parts, Streams, StreamRecord
<1>5. stream' = [stream EXCEPT ![s] = y]
  BY <1>2 DEF Parts, Streams
<1> HIDE DEF y
<1>6. /\ Streams' /\ stream'[s] = y /\ \A t \in Session : t # s => stream'[t] = stream[t]
  BY <1>1, <1>4, <1>5, StreamMoves DEF Parts
<1>7. "select" \in PC
  BY DEF PC
<1>8. Sessions' /\ Moved(s, "select")
  BY <1>1, <1>2, <1>7, SessionMoves DEF Parts
<1> QED  BY <1>1, <1>2, <1>4, <1>6, <1>8, FrameStored, FrameConnected, FrameServing, FrameLiving
         DEF Parts, appVars

(* A session reads an event; DaemonStopped ends it. *)
LEMMA StopEventParts ==
  ASSUME Parts, NEW s \in Session, StopEvent(s), stream[s].pipe # << >>
  PROVE  /\ Parts' /\ sess[s].pc = "select"
         /\ \/ UNCHANGED sess
            \/ Moved(s, "stopped") /\ DaemonStopped \in ToSet(stream[s].pipe)
         /\ stream'[s].state = stream[s].state /\ stream'[s].life = stream[s].life
         /\ ToSet(stream'[s].pipe) \subseteq ToSet(stream[s].pipe)
         /\ \A t \in Session : t # s => stream'[t] = stream[t]
         /\ UNCHANGED <<appVars, process, boots>>
<1> DEFINE pipe == stream[s].pipe
           y == [stream[s] EXCEPT !.pipe = Tail(pipe)]
<1>1. sess[s].pc = "select" /\ UNCHANGED <<appVars, process, listening, boots, faults>>
  BY DEF StopEvent
<1>2. /\ pipe # << >> /\ stream' = [stream EXCEPT ![s].pipe = Tail(@)]
      /\ IF IsRuleEvent(Head(pipe)) THEN UNCHANGED sess ELSE KillChild(s, "stopped")
  BY DEF StopEvent
<1>3. pipe \in Seq(Event) /\ stream[s] \in StreamRecord(boots)
  BY DEF Parts, Streams, StreamRecord
<1>4. /\ Tail(pipe) \in Seq(Event) /\ ToSet(Tail(pipe)) \subseteq ToSet(pipe)
      /\ Head(pipe) \in Event /\ Head(pipe) \in ToSet(pipe)
  BY <1>2, <1>3, TailSet
<1>5. /\ y \in StreamRecord(boots) /\ y.state = stream[s].state /\ y.life = stream[s].life
      /\ y.pipe = Tail(pipe)
  BY <1>3, <1>4 DEF StreamRecord
<1>6. stream' = [stream EXCEPT ![s] = y]
  BY <1>2 DEF Parts, Streams
<1> HIDE DEF y
<1>7. /\ Streams' /\ stream'[s] = y /\ \A t \in Session : t # s => stream'[t] = stream[t]
  BY <1>1, <1>5, <1>6, StreamMoves DEF Parts
<1>8. /\ Sessions'
      /\ UNCHANGED sess \/ (Moved(s, "stopped") /\ DaemonStopped \in ToSet(pipe))
  <2>1. CASE IsRuleEvent(Head(pipe))
    BY <1>1, <1>2, <2>1, FrameSessions DEF Parts
  <2>2. CASE ~IsRuleEvent(Head(pipe))
    <3>1. "stopped" \in PC
      BY DEF PC, Over
    <3>2. Sessions' /\ Moved(s, "stopped")
      BY <1>1, <1>2, <2>2, <3>1, SessionMoves DEF Parts
    <3> QED  BY <1>4, <2>2, <3>2, EventKinds
  <2> QED  BY <2>1, <2>2
<1> QED  BY <1>1, <1>2, <1>4, <1>5, <1>7, <1>8, FrameStored, FrameConnected, FrameServing,
            FrameLiving
         DEF Parts, appVars

LEMMA SessionStepParts ==
  ASSUME Parts, NEW s \in Session, SessionStep(s) \/ CtrlC(s) \/ Kill(s) \/ ReadFails(s)
  PROVE  \/ /\ Parts' /\ QuietMove(s)
            /\ UNCHANGED <<appVars, process, boots, stream>>
         \/ SendAdd(s) /\ sess'[s].pc # "failed"
         \/ SendRemove(s) /\ sess'[s].pc # "cut"
         \/ Subscribe(s) /\ sess'[s].pc # "cut"
         \/ StopEvent(s) /\ stream[s].pipe # << >>
<1>1. CASE Detect(s) \/ AddReply(s) \/ CtrlC(s) \/ ChildWait(s) \/ RemoveReply(s) \/ Kill(s)
           \/ ReadFails(s)
  BY <1>1, QuietMoves
<1>2. CASE SendAdd(s) /\ sess'[s].pc = "failed"
  <2>1. sess' # [sess EXCEPT ![s].pc = "adding", ![s].life = boots, ![s].conn = boots]
    BY <1>2 DEF Parts, Sessions, SessionRecord
  <2>2. Goto(s, "failed") /\ ConnectFails /\ UNCHANGED appVars
    BY <1>2, <2>1 DEF SendAdd
  <2> QED  BY <1>2, <2>2, QuietMoves
<1>3. CASE SendRemove(s) /\ sess'[s].pc = "cut"
  <2>1. sess' # [sess EXCEPT ![s].pc = "removing", ![s].conn = boots]
    BY <1>3 DEF Parts, Sessions, SessionRecord
  <2>2. Goto(s, "cut") /\ ConnectFails /\ UNCHANGED appVars
    BY <1>3, <2>1 DEF SendRemove
  <2> QED  BY <1>3, <2>2, QuietMoves
<1>4. CASE Subscribe(s) /\ sess'[s].pc = "cut"
  <2>1. ~Goto(s, "select")
    BY <1>4 DEF Parts, Sessions, SessionRecord, Goto
  <2>2. Goto(s, "cut") /\ ConnectFails /\ UNCHANGED stream
    BY <1>4, <2>1 DEF Subscribe
  <2> QED  BY <1>4, <2>2, QuietMoves
<1>5. CASE StopEvent(s) /\ stream[s].pipe = << >>
  <2>1. stream[s].state = "closed" /\ KillChild(s, "stopped") /\ UNCHANGED stream
    BY <1>5 DEF StopEvent
  <2> QED  BY <1>5, <2>1, QuietMoves
<1> QED  BY <1>1, <1>2, <1>3, <1>4, <1>5 DEF SessionStep

(* The server's end of the stream. *)
LEMMA StreamSetParts ==
  ASSUME Parts, NEW s \in Session, NEW st \in {"none", "opening", "open", "closed"},
         NEW rx, Sound(rx), Receive(s, rx), StreamSet(s, st)
  PROVE  /\ Parts' /\ UNCHANGED <<store, token, handler, process, boots, sess>>
         /\ \A r \in Receiver : bus'[r] = IF r = s THEN rx ELSE bus[r]
         /\ stream'[s].state = st /\ stream'[s].life = stream[s].life
         /\ stream'[s].pipe = stream[s].pipe
         /\ \A t \in Session : t # s => stream'[t] = stream[t]
<1> DEFINE y == [stream[s] EXCEPT !.state = st]
<1>1. /\ y \in StreamRecord(boots) /\ y.state = st /\ y.life = stream[s].life
      /\ y.pipe = stream[s].pipe
  BY DEF Parts, Streams, StreamRecord
<1>2. stream' = [stream EXCEPT ![s] = y]
  BY DEF StreamSet, Parts, Streams
<1>3. UNCHANGED <<store, token, handler, served, process, listening, boots, faults, sess>>
  BY DEF StreamSet
<1> HIDE DEF y
<1>4. /\ Streams' /\ stream'[s] = y /\ \A t \in Session : t # s => stream'[t] = stream[t]
  BY <1>1, <1>2, <1>3, StreamMoves DEF Parts
<1>5. Connected' /\ \A r \in Receiver : bus'[r] = IF r = s THEN rx ELSE bus[r]
  BY ReceiveConnected DEF Parts
<1> QED  BY <1>1, <1>3, <1>4, <1>5, FrameStored, FrameServing, FrameLiving, FrameSessions
         DEF Parts

LEMMA StreamForwardParts ==
  ASSUME Parts, NEW s \in Session, StreamForward(s)
  PROVE  /\ Parts' /\ UNCHANGED <<store, token, handler, process, boots, sess>>
         /\ stream[s].state = "open"
         /\ \A r \in Receiver : ToSet(bus'[r].queue) \subseteq ToSet(bus[r].queue)
         /\ stream'[s].state = stream[s].state /\ stream'[s].life = stream[s].life
         /\ \A e \in ToSet(stream'[s].pipe) :
              e \in ToSet(stream[s].pipe) \/ e \in ToSet(bus[s].queue)
         /\ \A t \in Session : t # s => stream'[t] = stream[t]
<1> DEFINE m == Head(bus[s].queue)
           pipe == stream[s].pipe
           y == [stream[s] EXCEPT !.pipe = Append(pipe, m)]
<1>1. /\ stream[s].state = "open" /\ HasMessage(bus[s]) /\ Receive(s, TakeMessage(bus[s]))
      /\ stream' = [stream EXCEPT ![s].pipe = Append(@, m)]
      /\ UNCHANGED <<store, token, handler, served, process, listening, boots, faults, sess>>
  BY DEF StreamForward, Pump
<1>2. s \in Receiver /\ Sound(bus[s])
  BY SessionOps DEF Parts, Connected
<1>3. /\ Sound(TakeMessage(bus[s])) /\ TakeMessage(bus[s]).queue = Tail(bus[s].queue)
      /\ m \in Event /\ m \in ToSet(bus[s].queue)
      /\ ToSet(Tail(bus[s].queue)) \subseteq ToSet(bus[s].queue)
  BY <1>1, <1>2, TakeSound
<1>4. Connected' /\ \A r \in Receiver : bus'[r] = IF r = s THEN TakeMessage(bus[s]) ELSE bus[r]
  BY <1>1, <1>3, ReceiveConnected DEF Parts
<1>5. pipe \in Seq(Event) /\ stream[s] \in StreamRecord(boots)
  BY DEF Parts, Streams, StreamRecord
<1> HIDE DEF m
<1>6. Append(pipe, m) \in Seq(Event) /\ Len(Append(pipe, m)) = Len(pipe) + 1
  BY <1>3, <1>5, AppendSet
<1>7. \A e \in ToSet(Append(pipe, m)) : e \in ToSet(pipe) \/ e = m
  <2>1. /\ DOMAIN Append(pipe, m) = 1..(Len(pipe) + 1) /\ DOMAIN pipe = 1..Len(pipe)
        /\ \A i \in 1..Len(pipe) : Append(pipe, m)[i] = pipe[i]
        /\ Append(pipe, m)[Len(pipe) + 1] = m
    BY <1>3, <1>5
  <2>2. \A i \in 1..(Len(pipe) + 1) : i \in 1..Len(pipe) \/ i = Len(pipe) + 1
    BY <1>5
  <2> QED  BY <2>1, <2>2 DEF ToSet
<1>8. /\ y \in StreamRecord(boots) /\ y.state = stream[s].state /\ y.life = stream[s].life
      /\ y.pipe = Append(pipe, m)
  BY <1>5, <1>6 DEF StreamRecord
<1>9. stream' = [stream EXCEPT ![s] = y]
  BY <1>1 DEF Parts, Streams
<1> HIDE DEF y
<1>10. /\ Streams' /\ stream'[s] = y /\ \A t \in Session : t # s => stream'[t] = stream[t]
  BY <1>1, <1>8, <1>9, StreamMoves DEF Parts
<1>11. Parts'
  BY <1>1, <1>4, <1>10, FrameStored, FrameServing, FrameLiving, FrameSessions DEF Parts
<1> QED  BY <1>1, <1>3, <1>4, <1>7, <1>8, <1>10, <1>11

LEMMA StreamLaggedParts ==
  ASSUME Parts, NEW s \in Session, StreamLagged(s)
  PROVE  /\ Parts' /\ UNCHANGED <<store, token, handler, runVars>>
         /\ \A r \in Receiver : bus'[r].queue = bus[r].queue
<1>1. s \in Receiver /\ Sound(bus[s])
  BY SessionOps DEF Parts, Connected
<1>2. Sound(TakeLagged(bus[s])) /\ TakeLagged(bus[s]).queue = bus[s].queue
  BY <1>1, TakeSound
<1>3. Receive(s, TakeLagged(bus[s])) /\ UNCHANGED <<store, token, handler, served, runVars>>
  BY DEF StreamLagged
<1>4. Connected' /\ \A r \in Receiver : bus'[r] = IF r = s THEN TakeLagged(bus[s]) ELSE bus[r]
  BY <1>2, <1>3, ReceiveConnected DEF Parts
<1>5. \A r \in Receiver : bus'[r].queue = bus[r].queue
  BY <1>2, <1>4
<1> QED  BY <1>3, <1>4, <1>5, FrameStored, FrameServing, FrameLiving, FrameSessions, FrameStreams
         DEF Parts, runVars

(* What a stream is after it opened or ended. *)
LEMMA StreamOpenParts ==
  ASSUME Parts, NEW s \in Session, StreamOpen(s)
  PROVE  /\ Parts' /\ UNCHANGED <<store, token, handler, process, boots, sess>>
         /\ \A r \in Receiver : ToSet(bus'[r].queue) \subseteq ToSet(bus[r].queue)
         /\ stream'[s].state = "open" /\ stream'[s].life = stream[s].life
         /\ stream'[s].pipe = stream[s].pipe
         /\ \A t \in Session : t # s => stream'[t] = stream[t]
<1>1. Receive(s, NewReceiver) /\ StreamSet(s, "open") /\ Sound(NewReceiver)
  BY ReceiversSound DEF StreamOpen
<1>2. /\ Parts' /\ UNCHANGED <<store, token, handler, process, boots, sess>>
      /\ \A r \in Receiver : bus'[r] = IF r = s THEN NewReceiver ELSE bus[r]
      /\ stream'[s].state = "open" /\ stream'[s].life = stream[s].life
      /\ stream'[s].pipe = stream[s].pipe
      /\ \A t \in Session : t # s => stream'[t] = stream[t]
  BY <1>1, StreamSetParts
<1>3. ToSet(NewReceiver.queue) = {}
  BY ReceiversSound, EmptySet
<1> QED  BY <1>2, <1>3

LEMMA StreamEndParts ==
  ASSUME Parts, NEW s \in Session, StreamEnd(s)
  PROVE  /\ Parts' /\ UNCHANGED <<store, token, handler, process, boots, sess>>
         /\ token \/ sess[s].pc \in Over \/ ~Lives(stream[s].life)
         /\ \A r \in Receiver : ToSet(bus'[r].queue) \subseteq ToSet(bus[r].queue)
         /\ stream'[s].state = "closed" /\ stream'[s].life = stream[s].life
         /\ stream'[s].pipe = stream[s].pipe
         /\ \A t \in Session : t # s => stream'[t] = stream[t]
<1>1. Receive(s, NoReceiver) /\ StreamSet(s, "closed") /\ Sound(NoReceiver)
  BY ReceiversSound DEF StreamEnd
<1>2. /\ Parts' /\ UNCHANGED <<store, token, handler, process, boots, sess>>
      /\ \A r \in Receiver : bus'[r] = IF r = s THEN NoReceiver ELSE bus[r]
      /\ stream'[s].state = "closed" /\ stream'[s].life = stream[s].life
      /\ stream'[s].pipe = stream[s].pipe
      /\ \A t \in Session : t # s => stream'[t] = stream[t]
  BY <1>1, StreamSetParts
<1>3. ToSet(NoReceiver.queue) = {}
  BY ReceiversSound, EmptySet
<1>4. token \/ sess[s].pc \in Over \/ ~Lives(stream[s].life)
  BY DEF StreamEnd
<1> QED  BY <1>2, <1>3, <1>4

(* The daemon's own steps and the other clients' requests. *)
LEMMA OtherRequestParts ==
  ASSUME Parts, NEW c \in Client, OtherRequest(c)
  PROVE  /\ Parts' /\ UNCHANGED runVars
         /\ \E o \in Request : o \in Op /\ Mutate(c, o)
<1>1. PICK o \in Request : Mutate(c, o)
  BY DEF OtherRequest
<1>2. o \in Op
  BY RequestAssumption
<1>3. Stored' /\ Serving' /\ UNCHANGED bus
  BY <1>1, <1>2, MutateParts DEF Parts
<1>4. UNCHANGED runVars
  BY DEF OtherRequest
<1> QED  BY <1>1, <1>2, <1>3, <1>4, FrameConnected, FrameLiving, FrameSessions, FrameStreams
         DEF Parts, runVars

LEMMA StopRequestParts ==
  ASSUME Parts, NEW c \in Client, StopRequest(c) PROVE Parts' /\ UNCHANGED runVars
<1>1. Serving' /\ UNCHANGED <<store, bus>>
  BY StopParts DEF StopRequest, Parts
<1>2. UNCHANGED runVars
  BY DEF StopRequest
<1> QED  BY <1>1, <1>2, FrameStored, FrameConnected, FrameLiving, FrameSessions, FrameStreams
         DEF Parts, runVars

LEMMA HandlerStepParts ==
  ASSUME Parts, NEW c \in Client, HandlerStep(c) PROVE Parts' /\ UNCHANGED runVars
<1>1. UNCHANGED runVars
  BY DEF HandlerStep
<1>2. Serving' /\ Connected' /\ UNCHANGED store
  <2>1. CASE Publish(c)
    BY <2>1, PublishParts DEF Parts
  <2>2. CASE CancelToken(c)
    BY <2>2, CancelParts, FrameConnected DEF Parts
  <2> QED  BY <2>1, <2>2 DEF HandlerStep
<1> QED  BY <1>1, <1>2, FrameStored, FrameLiving, FrameSessions, FrameStreams DEF Parts, runVars

LEMMA ShutdownParts ==
  ASSUME Parts, ShutdownRequested PROVE Parts'
<1>1. /\ bus' = Send(bus, DaemonStopped) /\ process = "up" /\ process' = "joining"
      /\ UNCHANGED <<store, token, handler, served, listening, boots, faults, sess, stream>>
  BY DEF ShutdownRequested
<1>2. Connected'
  BY <1>1, SendConnected, EventKinds DEF Parts
<1>3. Living'
  BY <1>1 DEF Parts, Living
<1> QED  BY <1>1, <1>2, <1>3, FrameStored, FrameServing, FrameSessions, FrameStreams DEF Parts

LEMMA SignalParts ==
  ASSUME Parts, Signal PROVE Parts'
<1>1. /\ process = "up" /\ process' = "joining" /\ token' = TRUE
      /\ UNCHANGED <<store, bus, handler, served, listening, boots, faults, sess, stream>>
  BY DEF Signal
<1>2. Living'
  BY <1>1 DEF Parts, Living
<1>3. Serving'
  BY <1>1 DEF Parts, Serving
<1> QED  BY <1>1, <1>2, <1>3, FrameStored, FrameConnected, FrameSessions, FrameStreams DEF Parts

LEMMA AcceptParts ==
  ASSUME Parts, AcceptFails
  PROVE  Parts' /\ UNCHANGED <<appVars, process, boots, sess, stream>>
<1>1. /\ faults < MaxFaults /\ faults' = faults + 1 /\ listening' = FALSE
      /\ UNCHANGED <<appVars, process, boots, sess, stream>>
  BY DEF AcceptFails, Fault
<1>2. Living'
  <2>1. listening' \in BOOLEAN
    BY <1>1
  <2>2. faults' \in 0..MaxFaults
    BY <1>1, BoundsAssumption DEF Parts, Living
  <2> QED  BY <1>1, <2>1, <2>2 DEF Parts, Living
<1> QED  BY <1>1, <1>2, FrameStored, FrameConnected, FrameServing, FrameSessions, FrameStreams
         DEF Parts, appVars

LEMMA EndParts ==
  ASSUME Parts, Exit \/ Crash
  PROVE  Parts' /\ process' = "down" /\ UNCHANGED <<appVars, boots, sess, stream>>
<1>1. process' = "down" /\ UNCHANGED <<appVars, listening, boots, sess, stream>>
  BY DEF Exit, Crash
<1>2. faults' = faults \/ (faults < MaxFaults /\ faults' = faults + 1)
  BY DEF Exit, Crash, Fault
<1>3. Living'
  BY <1>1, <1>2, BoundsAssumption DEF Parts, Living
<1> QED  BY <1>1, <1>3, FrameStored, FrameConnected, FrameServing, FrameSessions, FrameStreams
         DEF Parts, appVars

LEMMA BootParts ==
  ASSUME Parts, Boot
  PROVE  /\ Parts' /\ boots' = boots + 1 /\ boots \in Nat /\ UNCHANGED <<sess, stream>>
         /\ bus' = [r \in Receiver |-> NoReceiver]
<1>1. /\ boots < MaxBoots /\ boots' = boots + 1 /\ process' = "up" /\ store' = EmptyStore
      /\ listening' = TRUE
      /\ bus' = [r \in Receiver |-> NoReceiver] /\ token' = FALSE
      /\ handler' = [c \in Client |-> Idle] /\ served' = 0
      /\ UNCHANGED <<faults, sess, stream>>
  BY DEF Boot
<1>2. boots \in Nat /\ boots \in 0..MaxBoots /\ MaxBoots \in Nat
  BY BoundsAssumption DEF Parts, Living
<1>3. Living'
  BY <1>1, <1>2 DEF Parts, Living
<1>4. Stored'
  BY <1>1, EmptyStoreLemma, EmptyFinite DEF Stored
<1>5. Connected'
  BY <1>1, ReceiversSound DEF Connected, Sound
<1>6. Serving'
  <2>1. Idle \in HandlerRecord /\ Idle.pc = "idle"
    BY DEF Idle, HandlerRecord
  <2>2. handler' \in [Client -> HandlerRecord] /\ \A c \in Client : handler'[c].pc = "idle"
    BY <1>1, <2>1
  <2>3. token' \in BOOLEAN
    BY <1>1
  <2>4. served' \in 0..MaxRequests
    BY <1>1, MaxRequestsAssumption
  <2> QED  BY <2>2, <2>3, <2>4 DEF Serving
<1>7. 0..boots \subseteq 0..boots'
  BY <1>1, <1>2
<1>8. SessionRecord(boots) \subseteq SessionRecord(boots')
  BY <1>7 DEF SessionRecord
<1>9. StreamRecord(boots) \subseteq StreamRecord(boots')
  BY <1>7 DEF StreamRecord
<1>10. Sessions' /\ Streams'
  BY <1>1, <1>8, <1>9 DEF Parts, Sessions, Streams
<1> QED  BY <1>1, <1>2, <1>3, <1>4, <1>5, <1>6, <1>10 DEF Parts

(* A step of a session or of its stream, or one of the daemon. *)
LEMMA NextParts == Parts /\ [Next]_vars => Parts'
<1> SUFFICES ASSUME Parts, [Next]_vars PROVE Parts'
  OBVIOUS
<1>1. ASSUME NEW s \in Session, Launch(s) PROVE Parts'
  BY <1>1, LaunchParts
<1>2. ASSUME NEW s \in Session, SessionStep(s) \/ CtrlC(s) \/ Kill(s) \/ ReadFails(s)
      PROVE  Parts'
  BY <1>2, SessionStepParts, SendAddParts, SendRemoveParts, SubscribeParts, StopEventParts
<1>3. ASSUME NEW s \in Session, ChildExit(s) PROVE Parts'
  BY <1>3, ChildExitParts
<1>4. ASSUME NEW s \in Session, StreamStep(s) PROVE Parts'
  BY <1>4, StreamOpenParts, StreamForwardParts, StreamLaggedParts, StreamEndParts DEF StreamStep
<1>5. ASSUME NEW c \in Client, StopRequest(c) \/ OtherRequest(c) \/ HandlerStep(c) PROVE Parts'
  BY <1>5, StopRequestParts, OtherRequestParts, HandlerStepParts
<1>6. CASE DaemonStep \/ Signal \/ AcceptFails \/ Crash \/ Boot
  BY <1>6, ShutdownParts, EndParts, SignalParts, AcceptParts, BootParts DEF DaemonStep
<1>7. CASE UNCHANGED vars
  BY <1>7, FrameStored, FrameConnected, FrameServing, FrameLiving, FrameSessions, FrameStreams
     DEF Parts, vars, appVars, runVars
<1> QED  BY <1>1, <1>2, <1>3, <1>4, <1>5, <1>6, <1>7 DEF Next

(* Sessions, streams, handlers and receivers always have the shapes the    *)
(* code gives them, and no life is from the future (run.rs, server.rs).    *)
THEOREM TypeCorrect == Spec => []TypeOK
<1>1. Init => Parts
  BY InitParts
<1>2. Parts /\ [Next]_vars => Parts'
  BY NextParts
<1>3. Parts => TypeOK
  BY PartsOfInv DEF TypeInv
<1> QED  BY <1>1, <1>2, <1>3, PTL DEF Spec

-----------------------------------------------------------------------------
(* What requests do to the rules of the sessions. *)

LEMMA FrameInForce ==
  ASSUME NEW s \in Session, UNCHANGED store PROVE InForce(s)' <=> InForce(s)
BY DEF InForce

LEMMA MutateRules ==
  ASSUME Stored, NEW o \in Op, store' = Apply(o, store).store, NEW s \in Session
  PROVE  /\ o.kind \in {"add", "remove"} \/ DomainOf(o) # RuleOf(s).domain =>
              (InForce(s)' <=> InForce(s))
         /\ o.kind = "add_ephemeral" /\ o.rule = RuleOf(s) => InForce(s)'
         /\ o.kind = "remove_ephemeral" /\ o.domain = RuleOf(s).domain => ~InForce(s)'
<1> DEFINE layer == store.ephemeral
<1>1. layer \in Layer /\ LayerWellFormed(layer) /\ IsFiniteSet(Kept(layer)) /\ store \in Store
  BY DEF Stored, Store, WellFormed, FinitelyMany
<1>2. CASE o.kind \in {"add", "remove"}
  <2>1. store'.ephemeral = layer
    BY <1>1, <1>2 DEF Apply, AddRule, RemoveRule, Store
  <2>2. InForce(s)' <=> InForce(s)
    BY <2>1 DEF InForce
  <2> QED  BY <1>2, <2>2
<1>3. CASE o.kind = "add_ephemeral"
  <2>1. o.rule \in Rule /\ DomainOf(o) = o.rule.domain
    BY <1>3 DEF Op, DomainOf
  <2>2. store'.ephemeral = AddTo(layer, o.rule)
    BY <1>1, <1>3 DEF Apply, AddEphemeral, Store
  <2>3. RuleOf(s) \in ToSet(LayerRules(AddTo(layer, o.rule))) <=>
          \/ RuleOf(s) = o.rule
          \/ RuleOf(s) \in ToSet(LayerRules(layer)) /\ RuleOf(s).domain # o.rule.domain
    BY <1>1, <2>1, AddToRules
  <2> QED  BY <1>3, <2>1, <2>2, <2>3 DEF InForce
<1>4. CASE o.kind = "remove_ephemeral"
  <2>1. o.domain \in Domain /\ DomainOf(o) = o.domain
    BY <1>4 DEF Op, DomainOf
  <2>2. store'.ephemeral = RemoveFrom(layer, o.domain).layer
    BY <1>1, <1>4 DEF Apply, RemoveEphemeral, Store
  <2>3. RuleOf(s) \in ToSet(LayerRules(RemoveFrom(layer, o.domain).layer)) <=>
          RuleOf(s) \in ToSet(LayerRules(layer)) /\ RuleOf(s).domain # o.domain
    BY <1>1, <2>1, RemoveFromRules
  <2> QED  BY <1>4, <2>1, <2>2, <2>3 DEF InForce
<1>5. o.kind \in {"add", "remove", "add_ephemeral", "remove_ephemeral"}
  BY DEF Op
<1> QED  BY <1>2, <1>3, <1>4, <1>5

-----------------------------------------------------------------------------
(* The promises are kept. *)

(* What every step but Boot leaves alone: a stop goes on, and no daemon    *)
(* comes alive.                                                            *)
Calm ==
  /\ Stopping => Stopping'
  /\ token => token'
  /\ process' # "down" => process # "down" /\ boots' = boots

LEMMA FrameCalm ==
  UNCHANGED <<token, handler, process, boots>> => Calm
BY DEF Calm, Stopping

(* A request that was taken up does not end another's stop. *)
LEMMA IdleCalm ==
  ASSUME NEW c \in Client, handler[c].pc = "idle", UNCHANGED <<token, process, boots>>,
         \A x \in Client : x # c => handler'[x] = handler[x]
  PROVE  Calm
<1>1. ASSUME Stopping PROVE Stopping'
  <2>1. CASE token
    BY <2>1 DEF Stopping
  <2>2. CASE ~token
    <3>1. PICK x \in Client : handler[x].pc # "idle" /\ handler[x].event = DaemonStopped
      BY <1>1, <2>2 DEF Stopping
    <3>2. handler'[x] = handler[x]
      BY <3>1
    <3> QED  BY <3>1, <3>2 DEF Stopping
  <2> QED  BY <2>1, <2>2
<1> QED  BY <1>1 DEF Calm

(* A session that did not move keeps what it was promised. *)
LEMMA FrameRow ==
  ASSUME NEW s \in Session, Row(s), Calm, sess'[s] = sess[s], stream'[s] = stream[s],
         Apart => (InForce(s)' <=> InForce(s))
  PROVE  Row(s)'
BY DEF Row, Promise, Calm, Lives, Up

LEMMA FrameAnnounced ==
  ASSUME Announced, Calm,
         \A r \in Receiver : ToSet(bus'[r].queue) \subseteq ToSet(bus[r].queue)
  PROVE  Announced'
BY DEF Announced, Calm

Rows == \A s \in Session : Row(s)

(* A session that moves, moves to where its promise still holds. *)
LEMMA QuietRow ==
  ASSUME Parts, NEW s \in Session, Row(s), QuietMove(s), Calm, InForce(s)' <=> InForce(s),
         UNCHANGED <<token, process, boots, stream>>, Stopping' <=> Stopping
  PROVE  Row(s)'
<1>0. /\ process # "down" => boots > 0
      /\ boots \in Nat /\ stream[s].life \in 0..boots
  BY BoundsAssumption DEF Parts, Living, Streams, StreamRecord
<1>1. token => Stopping
  BY DEF Stopping
<1>2. /\ {"failed", "stopped", "exited", "killed", "cut"} = Over
      /\ \A pc \in Early \cup Waiting \cup {"remove", "removing"} : pc \notin Over
  BY DEF Over, Early, Waiting
<1>3. CASE sess[s].pc = "detect" /\ \E pc \in {"add", "failed"} : Moved(s, pc)
  BY <1>0, <1>2, <1>3 DEF Row, Promise, Moved, Lives, Up, Early, Waiting
<1>4. CASE sess[s].pc = "add" /\ Moved(s, "failed")
  BY <1>0, <1>2, <1>4 DEF Row, Promise, Moved, Lives, Up, Early, Waiting
<1>5. CASE sess[s].pc = "adding" /\ Lives(sess[s].conn) /\ Moved(s, "subscribe")
  BY <1>2, <1>5 DEF Row, Promise, Moved, Lives, Up, Early, Waiting
<1>6. CASE sess[s].pc = "adding" /\ ~Lives(sess[s].conn) /\ Moved(s, "failed")
  BY <1>2, <1>6 DEF Row, Promise, Moved, Lives, Up, Early, Waiting
<1>7. CASE Moved(s, "cut")
  BY <1>2, <1>7 DEF Row, Promise, Moved, Lives, Up, Early, Waiting
<1>8. CASE sess[s].pc = "select" /\ Moved(s, "remove")
  BY <1>2, <1>8 DEF Row, Promise, Moved, Lives, Up, Early, Waiting
<1>9. CASE sess[s].pc = "select" /\ stream[s].state = "closed" /\ Moved(s, "stopped")
  <2>1. Lives(sess[s].life) => Lives(stream[s].life)
    BY <1>0, <1>9 DEF Row, Promise, Lives
  <2>2. Lives(sess[s].life) => Stopping
    BY <1>1, <1>2, <1>9, <2>1 DEF Row, Promise, Early, Waiting
  <2> QED  BY <1>2, <1>9, <2>2 DEF Row, Promise, Moved, Lives, Up, Early, Waiting
<1>10. CASE sess[s].pc = "removing" /\ Moved(s, "exited")
  BY <1>2, <1>10 DEF Row, Promise, Moved, Lives, Up, Early, Waiting
<1>11. CASE Moved(s, "killed")
  BY <1>2, <1>11 DEF Row, Promise, Moved, Lives, Up, Early, Waiting
<1> QED  BY <1>3, <1>4, <1>5, <1>6, <1>7, <1>8, <1>9, <1>10, <1>11 DEF QuietMove

LEMMA InitRows == Init => Announced /\ Rows
<1> SUFFICES ASSUME Init PROVE Announced /\ Rows
  OBVIOUS
<1>1. ToSet(NoReceiver.queue) = {} /\ ToSet(<< >>) = {}
  BY ReceiversSound, EmptySet
<1>2. Announced
  BY <1>1 DEF Init, AppInit, Announced
<1>3. ASSUME NEW s \in Session PROVE Row(s)
  <2>1. sess[s] = NewSession /\ stream[s] = NoStream /\ process = "down"
    BY DEF Init
  <2> QED  BY <1>1, <2>1 DEF Row, Promise, NewSession, NoStream, Early, Waiting, Over, Lives, Up
<1> QED  BY <1>2, <1>3 DEF Rows

(* Steps that only move a session. *)
LEMMA QuietRows ==
  ASSUME Parts, Announced, Rows, NEW s \in Session,
         QuietMove(s) \/ (sess[s].pc = "new" /\ Moved(s, "detect")) \/ Moved(s, sess[s].pc),
         UNCHANGED <<appVars, process, boots, stream>>
  PROVE  Announced' /\ Rows'
<1>1. UNCHANGED <<store, bus, token, handler>>
  BY DEF appVars
<1>2. Calm /\ (Stopping' <=> Stopping)
  BY <1>1, FrameCalm DEF Stopping
<1>3. Announced'
  BY <1>1, <1>2, FrameAnnounced
<1>4. ASSUME NEW t \in Session PROVE Row(t)'
  <2>1. InForce(t)' <=> InForce(t)
    BY <1>1, FrameInForce
  <2>2. Row(t)
    BY DEF Rows
  <2>3. CASE t # s
    <3>1. sess'[t] = sess[t]
      BY <2>3 DEF QuietMove, Moved
    <3> QED  BY <1>2, <2>1, <2>2, <3>1, FrameRow
  <2>4. CASE t = s /\ QuietMove(s)
    BY <1>1, <1>2, <2>1, <2>2, <2>4, QuietRow
  <2>5. CASE t = s /\ sess[s].pc = "new" /\ Moved(s, "detect")
    BY <1>1, <1>2, <2>1, <2>2, <2>5 DEF Row, Promise, Moved, Lives, Up, Early, Waiting, Over
  <2>6. CASE t = s /\ Moved(s, sess[s].pc)
    BY <1>1, <1>2, <2>1, <2>2, <2>6 DEF Row, Promise, Moved, Lives, Up
  <2> QED  BY <2>3, <2>4, <2>5, <2>6
<1> QED  BY <1>3, <1>4 DEF Rows

(* A subscription is to the life that holds the rule, or to a later one. *)
LEMMA SubscribeRows ==
  ASSUME Parts, Announced, Rows, NEW s \in Session, Subscribe(s), sess'[s].pc # "cut"
  PROVE  Announced' /\ Rows'
<1>0. /\ sess[s].pc = "subscribe" /\ Moved(s, "select")
      /\ stream'[s].state = "opening" /\ stream'[s].life = boots
      /\ stream'[s].pipe = stream[s].pipe
      /\ \A t \in Session : t # s => stream'[t] = stream[t]
      /\ UNCHANGED <<appVars, process, boots>>
  BY SubscribeParts
<1>1. UNCHANGED <<store, bus, token, handler, process, boots>>
  BY <1>0 DEF appVars
<1>2. Calm
  BY <1>1, FrameCalm
<1>3. Announced'
  BY <1>1, <1>2, FrameAnnounced
<1>4. ASSUME NEW t \in Session PROVE Row(t)'
  <2>1. (InForce(t)' <=> InForce(t)) /\ Row(t)
    BY <1>1, FrameInForce DEF Rows
  <2>2. CASE t # s
    <3>1. sess'[t] = sess[t] /\ stream'[t] = stream[t]
      BY <1>0, <2>2 DEF Moved
    <3> QED  BY <1>2, <2>1, <3>1, FrameRow
  <2>3. CASE t = s
    <3>1. sess[s].life \in 0..boots /\ boots \in Nat
      BY BoundsAssumption DEF Parts, Sessions, SessionRecord, Living
    <3>2. sess[s].life <= boots
      BY <3>1
    <3>3. stream[s].pipe = << >> /\ ToSet(<< >>) = {}
      BY <1>0, <2>1, <2>3, EmptySet DEF Row, Promise
    <3> QED  BY <1>0, <1>1, <2>1, <2>3, <3>2, <3>3
             DEF Row, Promise, Moved, Lives, Up, Early, Waiting, Over
  <2> QED  BY <2>2, <2>3
<1> QED  BY <1>3, <1>4 DEF Rows

(* DaemonStopped in the pipe says that the life it came from is ending. *)
LEMMA StopEventRows ==
  ASSUME Parts, Announced, Rows, NEW s \in Session, StopEvent(s), stream[s].pipe # << >>
  PROVE  Announced' /\ Rows'
<1>0. /\ sess[s].pc = "select"
      /\ UNCHANGED sess \/ (Moved(s, "stopped") /\ DaemonStopped \in ToSet(stream[s].pipe))
      /\ stream'[s].state = stream[s].state /\ stream'[s].life = stream[s].life
      /\ ToSet(stream'[s].pipe) \subseteq ToSet(stream[s].pipe)
      /\ \A t \in Session : t # s => stream'[t] = stream[t]
      /\ UNCHANGED <<appVars, process, boots>>
  BY StopEventParts
<1>1. UNCHANGED <<store, bus, token, handler, process, boots>>
  BY <1>0 DEF appVars
<1>2. Calm /\ (Stopping' <=> Stopping)
  BY <1>1, FrameCalm DEF Stopping
<1>3. Announced'
  BY <1>1, <1>2, FrameAnnounced
<1>4. ASSUME NEW t \in Session PROVE Row(t)'
  <2>1. (InForce(t)' <=> InForce(t)) /\ Row(t)
    BY <1>1, FrameInForce DEF Rows
  <2>2. CASE t # s
    <3>1. sess'[t] = sess[t] /\ stream'[t] = stream[t]
      BY <1>0, <2>2 DEF Moved
    <3> QED  BY <1>2, <2>1, <3>1, FrameRow
  <2>3. CASE t = s
    <3>0. stream[s].state \notin {"none", "opening"}
      BY <2>1, <2>3 DEF Row, Promise
    <3>1. CASE UNCHANGED sess
      BY <1>0, <1>1, <1>2, <2>1, <2>3, <3>0, <3>1 DEF Row, Promise, Lives, Up
    <3>2. CASE Moved(s, "stopped") /\ DaemonStopped \in ToSet(stream[s].pipe)
      <4>1. stream[s].life \in 0..boots /\ boots \in Nat
        BY BoundsAssumption DEF Parts, Streams, StreamRecord, Living
      <4>2. Lives(sess[s].life) => Lives(stream[s].life)
        BY <1>0, <2>1, <2>3, <4>1 DEF Row, Promise, Lives
      <4>3. Lives(sess[s].life) => Stopping
        BY <2>1, <2>3, <3>2, <4>2 DEF Row, Promise
      <4> QED  BY <1>0, <1>1, <1>2, <2>1, <2>3, <3>0, <3>2, <4>3
               DEF Row, Promise, Moved, Lives, Up, Early, Waiting, Over
    <3> QED  BY <1>0, <3>1, <3>2
  <2> QED  BY <2>2, <2>3
<1> QED  BY <1>3, <1>4 DEF Rows

LEMMA StreamRows ==
  ASSUME Parts, Announced, Rows, NEW s \in Session, StreamStep(s)
  PROVE  Announced' /\ Rows'
<1>1. /\ UNCHANGED <<store, token, handler, process, boots, sess>>
      /\ \A r \in Receiver : ToSet(bus'[r].queue) \subseteq ToSet(bus[r].queue)
      /\ \A t \in Session : t # s => stream'[t] = stream[t]
  BY StreamOpenParts, StreamForwardParts, StreamLaggedParts, StreamEndParts
     DEF StreamStep, runVars
<1>2. Calm /\ (Stopping' <=> Stopping)
  BY <1>1, FrameCalm DEF Stopping
<1>3. Announced'
  BY <1>1, <1>2, FrameAnnounced
<1>4. ASSUME NEW t \in Session PROVE Row(t)'
  <2>1. (InForce(t)' <=> InForce(t)) /\ Row(t) /\ sess'[t] = sess[t]
    BY <1>1, FrameInForce DEF Rows
  <2>2. CASE t # s
    BY <1>1, <1>2, <2>1, <2>2, FrameRow
  <2>3. CASE t = s /\ StreamLagged(s)
    <3>1. stream'[t] = stream[t]
      BY <2>3, StreamLaggedParts DEF runVars
    <3> QED  BY <1>2, <2>1, <3>1, FrameRow
  <2>4. CASE t = s /\ StreamOpen(s)
    <3>1. /\ stream'[s].state = "open" /\ stream'[s].life = stream[s].life
          /\ stream'[s].pipe = stream[s].pipe /\ stream[s].state = "opening"
      BY <2>4, StreamOpenParts DEF StreamOpen
    <3> QED  BY <1>1, <1>2, <2>1, <2>4, <3>1 DEF Row, Promise, Lives, Up
  <2>5. CASE t = s /\ StreamEnd(s)
    <3>1. /\ token \/ sess[s].pc \in Over \/ ~Lives(stream[s].life)
          /\ stream'[s].state = "closed" /\ stream'[s].life = stream[s].life
          /\ stream'[s].pipe = stream[s].pipe /\ stream[s].state # "none"
      BY <2>5, StreamEndParts DEF StreamEnd
    <3> QED  BY <1>1, <1>2, <2>1, <2>5, <3>1 DEF Row, Promise, Lives, Up
  <2>6. CASE t = s /\ StreamForward(s)
    <3>1. /\ stream[s].state = "open"
          /\ stream'[s].state = stream[s].state /\ stream'[s].life = stream[s].life
          /\ \A e \in ToSet(stream'[s].pipe) :
               e \in ToSet(stream[s].pipe) \/ e \in ToSet(bus[s].queue)
      BY <2>6, StreamForwardParts
    <3>2. DaemonStopped \in ToSet(bus[s].queue) => Stopping
      BY SessionOps DEF Announced
    <3> QED  BY <1>1, <1>2, <2>1, <2>6, <3>1, <3>2 DEF Row, Promise, Lives, Up
  <2> QED  BY <2>2, <2>3, <2>4, <2>5, <2>6 DEF StreamStep
<1> QED  BY <1>3, <1>4 DEF Rows

(* A request of somebody else, whose domain is another. *)
LEMMA OthersRows ==
  ASSUME Stored, Rows, Calm, NEW o \in Op, store' = Apply(o, store).store,
         NEW t \in Session, sess'[t] = sess[t], stream'[t] = stream[t],
         Apart => o.kind \in {"add", "remove"} \/ DomainOf(o) # RuleOf(t).domain
  PROVE  Row(t)'
<1>1. Apart => (InForce(t)' <=> InForce(t))
  BY MutateRules
<1> QED  BY <1>1, FrameRow DEF Rows

LEMMA SendAddRows ==
  ASSUME Parts, Announced, Rows, NEW s \in Session, SendAdd(s), sess'[s].pc # "failed"
  PROVE  Announced' /\ Rows'
<1> DEFINE o == [kind |-> "add_ephemeral", rule |-> RuleOf(s)]
<1>0. /\ sess[s].pc = "add" /\ Mutate(s, o)
      /\ sess'[s].pc = "adding" /\ sess'[s].life = boots /\ sess'[s].conn = boots
      /\ \A t \in Session : t # s => sess'[t] = sess[t]
      /\ UNCHANGED <<process, boots, stream>>
  BY SendAddParts
<1>1. o \in Op /\ o.kind = "add_ephemeral" /\ o.rule = RuleOf(s) /\ s \in Client
      /\ DomainOf(o) = RuleOf(s).domain
  BY SessionOps DEF DomainOf
<1> HIDE DEF o
<1>2. /\ handler[s].pc = "idle" /\ store' = Apply(o, store).store /\ UNCHANGED <<bus, token>>
      /\ \A x \in Client : x # s => handler'[x] = handler[x]
  BY <1>0, <1>1, MutateParts DEF Parts
<1>3. Calm
  BY <1>0, <1>1, <1>2, IdleCalm
<1>4. Announced'
  BY <1>2, <1>3, FrameAnnounced
<1>5. ASSUME NEW t \in Session PROVE Row(t)'
  <2>1. CASE t # s
    <3>1. Apart => DomainOf(o) # RuleOf(t).domain
      BY <1>1, <2>1 DEF Apart
    <3>2. sess'[t] = sess[t] /\ stream'[t] = stream[t]
      BY <1>0, <2>1
    <3> QED  BY <1>1, <1>2, <1>3, <3>1, <3>2, OthersRows DEF Parts
  <2>2. CASE t = s
    <3>1. InForce(s)'
      BY <1>1, <1>2, MutateRules DEF Parts
    <3>2. Row(s)
      BY DEF Rows
    <3> QED  BY <1>0, <1>3, <2>2, <3>1, <3>2
             DEF Row, Promise, Calm, Lives, Up, Early, Waiting, Over
  <2> QED  BY <2>1, <2>2
<1> QED  BY <1>4, <1>5 DEF Rows

LEMMA SendRemoveRows ==
  ASSUME Parts, Announced, Rows, NEW s \in Session, SendRemove(s),
         sess'[s].pc # "cut"
  PROVE  Announced' /\ Rows'
<1> DEFINE o == [kind |-> "remove_ephemeral", domain |-> RuleOf(s).domain]
<1>0. /\ sess[s].pc = "remove" /\ Mutate(s, o) /\ sess'[s].pc = "removing"
      /\ \A t \in Session : t # s => sess'[t] = sess[t]
      /\ UNCHANGED <<process, boots, stream>>
  BY SendRemoveParts
<1>1. /\ o \in Op /\ o.kind = "remove_ephemeral" /\ o.domain = RuleOf(s).domain
      /\ s \in Client /\ DomainOf(o) = RuleOf(s).domain
  BY SessionOps DEF DomainOf
<1> HIDE DEF o
<1>2. /\ handler[s].pc = "idle" /\ store' = Apply(o, store).store /\ UNCHANGED <<bus, token>>
      /\ \A x \in Client : x # s => handler'[x] = handler[x]
  BY <1>0, <1>1, MutateParts DEF Parts
<1>3. Calm
  BY <1>0, <1>1, <1>2, IdleCalm
<1>4. Announced'
  BY <1>2, <1>3, FrameAnnounced
<1>5. ASSUME NEW t \in Session PROVE Row(t)'
  <2>1. CASE t # s
    <3>1. Apart => DomainOf(o) # RuleOf(t).domain
      BY <1>1, <2>1 DEF Apart
    <3>2. sess'[t] = sess[t] /\ stream'[t] = stream[t]
      BY <1>0, <2>1
    <3> QED  BY <1>1, <1>2, <1>3, <3>1, <3>2, OthersRows DEF Parts
  <2>2. CASE t = s
    <3>1. ~InForce(s)'
      BY <1>1, <1>2, MutateRules DEF Parts
    <3>2. Row(s)
      BY DEF Rows
    <3> QED  BY <1>0, <1>3, <2>2, <3>1, <3>2
             DEF Row, Promise, Calm, Lives, Up, Early, Waiting, Over
  <2> QED  BY <2>1, <2>2
<1> QED  BY <1>4, <1>5 DEF Rows

LEMMA OtherRequestRows ==
  ASSUME Parts, Announced, Rows, NEW c \in Client, OtherRequest(c)
  PROVE  Announced' /\ Rows'
<1>1. PICK o \in Request : o \in Op /\ Mutate(c, o)
  BY OtherRequestParts
<1>2. /\ handler[c].pc = "idle" /\ store' = Apply(o, store).store /\ UNCHANGED <<bus, token>>
      /\ \A x \in Client : x # c => handler'[x] = handler[x]
  BY <1>1, MutateParts DEF Parts
<1>3. UNCHANGED <<process, boots, sess, stream>>
  BY DEF OtherRequest, runVars
<1>4. Calm
  BY <1>2, <1>3, IdleCalm
<1>5. Announced'
  BY <1>2, <1>4, FrameAnnounced
<1>6. ASSUME NEW t \in Session PROVE Row(t)'
  <2>1. Apart => o.kind \in {"add", "remove"} \/ DomainOf(o) # RuleOf(t).domain
    BY <1>1 DEF Apart, Op
  <2> QED  BY <1>1, <1>2, <1>3, <1>4, <2>1, OthersRows DEF Parts
<1> QED  BY <1>5, <1>6 DEF Rows

(* Steps that leave the store, the sessions and the streams alone. *)
LEMMA CalmRows ==
  ASSUME Rows, Calm, UNCHANGED <<store, sess, stream>> PROVE Rows'
<1>1. ASSUME NEW t \in Session PROVE Row(t)'
  <2>1. (InForce(t)' <=> InForce(t)) /\ Row(t)
    BY FrameInForce DEF Rows
  <2> QED  BY <2>1, FrameRow
<1> QED  BY <1>1 DEF Rows

LEMMA StopRequestRows ==
  ASSUME Parts, Announced, Rows, NEW c \in Client, StopRequest(c)
  PROVE  Announced' /\ Rows'
<1>1. /\ handler[c].pc = "idle" /\ UNCHANGED <<store, bus, token>>
      /\ \A x \in Client : x # c => handler'[x] = handler[x]
  BY StopParts DEF StopRequest, Parts
<1>2. UNCHANGED <<process, boots, sess, stream>>
  BY DEF StopRequest, runVars
<1>3. Calm
  BY <1>1, <1>2, IdleCalm
<1> QED  BY <1>1, <1>2, <1>3, FrameAnnounced, CalmRows

(* The handler of a stop publishes DaemonStopped before it cancels: there  *)
(* is no moment at which the stop is announced and not under way.          *)
LEMMA HandlerCalm ==
  ASSUME Parts, Announced, NEW c \in Client, HandlerStep(c)
  PROVE  Announced' /\ Calm /\ UNCHANGED store
<1>1. UNCHANGED <<process, boots>>
  BY DEF HandlerStep, runVars
<1>2. CASE Publish(c)
  <2>1. /\ UNCHANGED <<store, token>> /\ handler[c].pc = "publish"
        /\ handler[c].event \in Event /\ bus' = Send(bus, handler[c].event)
        /\ handler[c].event = DaemonStopped =>
             handler'[c].pc = "cancel" /\ handler'[c].event = DaemonStopped
        /\ \A x \in Client : x # c => handler'[x] = handler[x]
    BY <1>2, PublishParts DEF Parts
  <2>2. handler[c].event = DaemonStopped => Stopping'
    BY <2>1 DEF Stopping
  <2>3. ASSUME Stopping PROVE Stopping'
    <3>1. CASE token
      BY <2>1, <3>1 DEF Stopping
    <3>2. CASE ~token
      <4>1. PICK x \in Client : handler[x].pc # "idle" /\ handler[x].event = DaemonStopped
        BY <2>3, <3>2 DEF Stopping
      <4>2. CASE x = c
        BY <2>2, <4>1, <4>2
      <4>3. CASE x # c
        BY <2>1, <4>1, <4>3 DEF Stopping
      <4> QED  BY <4>2, <4>3
    <3> QED  BY <3>1, <3>2
  <2>4. Calm
    BY <1>1, <2>1, <2>3 DEF Calm
  <2>5. \A r \in Receiver : \A e \in ToSet(bus'[r].queue) :
          e = handler[c].event \/ e \in ToSet(bus[r].queue)
    BY <2>1, SendConnected DEF Parts
  <2>6. Announced'
    BY <2>2, <2>3, <2>5 DEF Announced
  <2> QED  BY <2>1, <2>4, <2>6
<1>3. CASE CancelToken(c)
  <2>1. token' = TRUE /\ UNCHANGED <<store, bus>>
    BY <1>3, CancelParts DEF Parts
  <2>2. Calm
    BY <1>1, <2>1 DEF Calm, Stopping
  <2> QED  BY <2>1, <2>2, FrameAnnounced
<1> QED  BY <1>2, <1>3 DEF HandlerStep

LEMMA HandlerStepRows ==
  ASSUME Parts, Announced, Rows, NEW c \in Client, HandlerStep(c)
  PROVE  Announced' /\ Rows'
<1>1. UNCHANGED <<sess, stream>>
  BY DEF HandlerStep, runVars
<1> QED  BY <1>1, HandlerCalm, CalmRows

LEMMA ShutdownRows ==
  ASSUME Parts, Announced, Rows, ShutdownRequested \/ Signal
  PROVE  Announced' /\ Rows'
<1>1. /\ token' = TRUE /\ process = "up"
      /\ UNCHANGED <<store, handler, boots, sess, stream>>
  BY DEF ShutdownRequested, Signal, Parts, Serving
<1>2. Calm
  BY <1>1 DEF Calm, Stopping
<1>3. Announced'
  BY <1>1 DEF Announced, Stopping
<1> QED  BY <1>1, <1>2, <1>3, CalmRows

LEMMA AcceptRows ==
  ASSUME Parts, Announced, Rows, AcceptFails PROVE Announced' /\ Rows'
<1>1. UNCHANGED <<store, bus, token, handler, process, boots, sess, stream>>
  BY AcceptParts DEF appVars
<1>2. Calm
  BY <1>1, FrameCalm
<1> QED  BY <1>1, <1>2, FrameAnnounced, CalmRows

LEMMA EndRows ==
  ASSUME Parts, Announced, Rows, Exit \/ Crash PROVE Announced' /\ Rows'
<1>1. process' = "down" /\ UNCHANGED <<store, bus, token, handler, boots, sess, stream>>
  BY EndParts DEF appVars
<1>2. Calm
  BY <1>1 DEF Calm, Stopping
<1>3. Announced'
  BY <1>1, <1>2, FrameAnnounced
<1> QED  BY <1>1, <1>2, <1>3, CalmRows

(* A new life holds no rule of a session and no stream. *)
LEMMA BootRows ==
  ASSUME Parts, Announced, Rows, Boot PROVE Announced' /\ Rows'
<1>1. /\ boots' = boots + 1 /\ boots \in Nat /\ UNCHANGED <<sess, stream>>
      /\ bus' = [r \in Receiver |-> NoReceiver]
  BY BootParts
<1>2. ToSet(NoReceiver.queue) = {}
  BY ReceiversSound, EmptySet
<1>3. Announced'
  BY <1>1, <1>2 DEF Announced
<1>4. ASSUME NEW t \in Session PROVE Row(t)'
  <2>1. Row(t)
    BY DEF Rows
  <2>2. sess[t].life \in 0..boots /\ stream[t].life \in 0..boots
    BY DEF Parts, Sessions, Streams, SessionRecord, StreamRecord
  <2>3. sess[t].life # boots' /\ stream[t].life # boots'
    BY <1>1, <2>2
  <2> QED  BY <1>1, <2>1, <2>3 DEF Row, Promise, Lives
<1> QED  BY <1>3, <1>4 DEF Rows

LEMMA NextRows ==
  Parts /\ Announced /\ Rows /\ [Next]_vars => Announced' /\ Rows'
<1> SUFFICES ASSUME Parts, Announced, Rows, [Next]_vars PROVE Announced' /\ Rows'
  OBVIOUS
<1>1. ASSUME NEW s \in Session, Launch(s) \/ ChildExit(s) PROVE Announced' /\ Rows'
  BY <1>1, LaunchParts, ChildExitParts, QuietRows
<1>2. ASSUME NEW s \in Session, SessionStep(s) \/ CtrlC(s) \/ Kill(s) \/ ReadFails(s)
      PROVE  Announced' /\ Rows'
  <2>1. CASE QuietMove(s) /\ UNCHANGED <<appVars, process, boots, stream>>
    BY <2>1, QuietRows
  <2>2. CASE SendAdd(s) /\ sess'[s].pc # "failed"
    BY <2>2, SendAddRows
  <2>3. CASE SendRemove(s) /\ sess'[s].pc # "cut"
    BY <2>3, SendRemoveRows
  <2>4. CASE Subscribe(s) /\ sess'[s].pc # "cut"
    BY <2>4, SubscribeRows
  <2>5. CASE StopEvent(s) /\ stream[s].pipe # << >>
    BY <2>5, StopEventRows
  <2> QED  BY <1>2, <2>1, <2>2, <2>3, <2>4, <2>5, SessionStepParts
<1>3. ASSUME NEW s \in Session, StreamStep(s) PROVE Announced' /\ Rows'
  BY <1>3, StreamRows
<1>4. ASSUME NEW c \in Client, StopRequest(c) \/ OtherRequest(c) \/ HandlerStep(c)
      PROVE  Announced' /\ Rows'
  BY <1>4, StopRequestRows, OtherRequestRows, HandlerStepRows
<1>5. CASE DaemonStep \/ Signal \/ AcceptFails \/ Crash \/ Boot
  BY <1>5, ShutdownRows, AcceptRows, EndRows, BootRows DEF DaemonStep
<1>6. CASE UNCHANGED vars
  <2>1. UNCHANGED <<store, bus, token, handler, process, boots, sess, stream>>
    BY <1>6 DEF vars, appVars, runVars
  <2>2. Calm
    BY <2>1, FrameCalm
  <2>3. Announced'
    BY <2>1, <2>2, FrameAnnounced
  <2> QED  BY <2>1, <2>2, <2>3, CalmRows
<1> QED  BY <1>1, <1>2, <1>3, <1>4, <1>5, <1>6 DEF Next

(* Parts, Announced and Rows are Inv, part by part. *)
LEMMA InvIsParts == Inv <=> Parts /\ Announced /\ Rows
BY PartsOfInv DEF Inv, Rows

LEMMA AlwaysInv == Spec => []Inv
<1>1. Init => Inv
  BY InitParts, InitRows, InvIsParts
<1>2. Inv /\ [Next]_vars => Inv'
  <2>1. Parts /\ Announced /\ Rows /\ [Next]_vars => (Parts /\ Announced /\ Rows)'
    BY NextParts, NextRows
  <2>2. Inv' <=> (Parts /\ Announced /\ Rows)'
    BY InvIsParts, PTL
  <2> QED  BY <2>1, <2>2, InvIsParts
<1> QED  BY <1>1, <1>2, PTL DEF Spec

(* When nobody else asks for ephemeral rules of its domain, a session that *)
(* is being waited for has its rule in force for as long as the daemon     *)
(* that took it lives, whatever other sessions, clients, stops, crashes    *)
(* and restarts do (run.rs:94, 127).                                       *)
THEOREM AlwaysInForce == ASSUME Apart PROVE Spec => []RuleWhileRunning
<1>1. Inv => RuleWhileRunning
  BY DEF Inv, Row, Promise, RuleWhileRunning, Waiting
<1> QED  BY <1>1, AlwaysInv, PTL

(* A session that ends with all its calls answered - its command ended,    *)
(* Ctrl-C, DaemonStopped or a closed stream - leaves no rule in a daemon   *)
(* that goes on (run.rs:134, 147).  The two ends left out do leave it: a   *)
(* killed session, and one whose subscribe(), RemoveEphemeral or read      *)
(* failed although the daemon lives (run.rs:117, 151).                     *)
NoRuleLeftBehind ==
  \A s \in Session :
    sess[s].pc \in Over \ {"killed", "cut"} /\ Lives(sess[s].life) /\ InForce(s) => Stopping

(* Whatever other sessions, clients, crashes and restarts do, a session    *)
(* that was neither killed nor cut off from the daemon has removed its     *)
(* rule when it is over, or the daemon is on its way out (run.rs:134, 147).*)
THEOREM NeverLeftBehind == ASSUME Apart PROVE Spec => []NoRuleLeftBehind
<1>1. Inv => NoRuleLeftBehind
  BY DEF Inv, Row, Promise, NoRuleLeftBehind
<1> QED  BY <1>1, AlwaysInv, PTL

-----------------------------------------------------------------------------
(* Owners, where domains may be shared. *)

Ephemeral == ToSet(LayerRules(store.ephemeral))

(* Session s answers for its rule. *)
Charged(s) == sess[s].life = boots /\ (sess[s].pc \in InCharge \/ Stopping)

Asked(r) == [kind |-> "add_ephemeral", rule |-> r] \in Request

LEMMA OwnedIs ==
  EphemeralOwned <=>
    (Up => \A r \in Ephemeral :
       (\E s \in Session : RuleOf(s) = r /\ Charged(s)) \/ Asked(r))
BY DEF EphemeralOwned, Ephemeral, Answers, Charged, Asked

(* What one request does to the ephemeral rules. *)
LEMMA MutateEphemeral ==
  ASSUME Stored, NEW o \in Op, store' = Apply(o, store).store, NEW r \in Ephemeral'
  PROVE  /\ r \in Ephemeral \/ (o.kind = "add_ephemeral" /\ r = o.rule)
         /\ o.kind = "remove_ephemeral" => r.domain # o.domain
<1> DEFINE layer == store.ephemeral
<1>1. layer \in Layer /\ LayerWellFormed(layer) /\ IsFiniteSet(Kept(layer)) /\ store \in Store
  BY DEF Stored, Store, WellFormed, FinitelyMany
<1>2. CASE o.kind \in {"add", "remove"}
  <2>1. store'.ephemeral = layer
    BY <1>1, <1>2 DEF Apply, AddRule, RemoveRule, Store
  <2> QED  BY <1>2, <2>1 DEF Ephemeral
<1>3. CASE o.kind = "add_ephemeral"
  <2>1. o.rule \in Rule /\ store'.ephemeral = AddTo(layer, o.rule)
    BY <1>1, <1>3 DEF Op, Apply, AddEphemeral, Store
  <2>2. r \in ToSet(LayerRules(AddTo(layer, o.rule)))
    BY <2>1 DEF Ephemeral
  <2>3. r = o.rule \/ r \in ToSet(LayerRules(layer))
    BY <1>1, <2>1, <2>2, AddToRules
  <2> QED  BY <1>3, <2>3 DEF Ephemeral
<1>4. CASE o.kind = "remove_ephemeral"
  <2>1. o.domain \in Domain /\ store'.ephemeral = RemoveFrom(layer, o.domain).layer
    BY <1>1, <1>4 DEF Op, Apply, RemoveEphemeral, Store
  <2>2. r \in ToSet(LayerRules(RemoveFrom(layer, o.domain).layer))
    BY <2>1 DEF Ephemeral
  <2>3. r \in ToSet(LayerRules(layer)) /\ r.domain # o.domain
    BY <1>1, <2>1, <2>2, RemoveFromRules
  <2> QED  BY <1>4, <2>3 DEF Ephemeral
<1>5. o.kind \in {"add", "remove", "add_ephemeral", "remove_ephemeral"}
  BY DEF Op
<1> QED  BY <1>2, <1>3, <1>4, <1>5

(* A step keeps every owner of a rule that stays, and gives a new rule one. *)
LEMMA OwnedStep ==
  ASSUME EphemeralOwned, Calm,
         \A s \in Session : Up /\ Charged(s) /\ RuleOf(s) \in Ephemeral' => Charged(s)',
         \A r \in Ephemeral' :
           \/ r \in Ephemeral \/ Asked(r)
           \/ \E s \in Session : RuleOf(s) = r /\ Charged(s)'
  PROVE  EphemeralOwned'
<1> SUFFICES ASSUME Up', NEW r \in Ephemeral', ~Asked(r)
             PROVE  \E s \in Session : RuleOf(s) = r /\ Charged(s)'
  BY OwnedIs DEF EphemeralOwned, Ephemeral, Answers, Charged, Asked
<1>1. Up
  BY DEF Calm, Up
<1>2. CASE r \in Ephemeral
  <2>1. PICK s \in Session : RuleOf(s) = r /\ Charged(s)
    BY <1>1, <1>2, OwnedIs
  <2> QED  BY <1>1, <2>1
<1>3. CASE r \notin Ephemeral
  BY <1>3
<1> QED  BY <1>2, <1>3

(* Steps that leave the store and the sessions alone. *)
LEMMA CalmOwned ==
  ASSUME EphemeralOwned, Calm, UNCHANGED <<store, sess>> PROVE EphemeralOwned'
<1>1. Ephemeral' = Ephemeral
  BY DEF Ephemeral
<1>2. ASSUME NEW s \in Session, Up, Up', Charged(s) PROVE Charged(s)'
  BY <1>2 DEF Charged, Calm, Up
<1>3. CASE Up /\ Up'
  BY <1>1, <1>2, <1>3, OwnedStep
<1>4. CASE ~Up'
  BY <1>4 DEF EphemeralOwned
<1> QED  BY <1>3, <1>4 DEF Calm, Up

(* A session that gives its rule up does so in a daemon that is stopping,  *)
(* or that never held it.                                                  *)
LEMMA QuietCharged ==
  ASSUME Parts, NEW s \in Session, Row(s), QuietMove(s), Up, Charged(s),
         UNCHANGED <<token, process, boots, stream>>, Stopping' <=> Stopping
  PROVE  Charged(s)'
<1>0. boots > 0 /\ boots \in Nat /\ stream[s].life \in 0..boots
  BY BoundsAssumption DEF Parts, Living, Streams, StreamRecord, Up
<1>1. (token => Stopping) /\ sess[s].life = boots /\ sess'[s].life = sess[s].life
  BY DEF Stopping, Charged, QuietMove, Moved
<1>2. sess'[s].pc \in InCharge \/ Stopping
  <2>1. CASE sess[s].pc \in {"detect", "add"}
    BY <1>0, <1>1, <2>1 DEF Row, Early
  <2>2. CASE sess[s].pc = "adding"
    BY <1>1, <2>2 DEF Row, QuietMove, Moved, Lives, InCharge
  <2>3. CASE sess[s].pc \in {"subscribe", "remove"}
    BY <1>1, <2>3 DEF QuietMove, Moved, InCharge
  <2>4. CASE sess[s].pc = "select"
    <3>1. Lives(stream[s].life)
      BY <1>0, <1>1, <2>4 DEF Row, Lives
    <3>2. stream[s].state = "closed" => token
      BY <2>4, <3>1 DEF Row, Over
    <3> QED  BY <1>1, <2>4, <3>2 DEF QuietMove, Moved, InCharge
  <2>5. CASE sess[s].pc = "removing"
    BY <2>5 DEF Charged, InCharge
  <2> QED  BY <2>1, <2>2, <2>3, <2>4, <2>5 DEF QuietMove, Moved, InCharge
<1> QED  BY <1>1, <1>2 DEF Charged

(* One session moves, and nothing happens to the store. *)
LEMMA MoveOwned ==
  ASSUME EphemeralOwned, NEW s \in Session, UNCHANGED <<store, token, handler, process, boots>>,
         \A t \in Session : t # s => sess'[t] = sess[t],
         Up /\ Charged(s) => Charged(s)'
  PROVE  EphemeralOwned'
<1>1. Calm /\ (Stopping' <=> Stopping)
  BY FrameCalm DEF Stopping
<1>2. ASSUME NEW t \in Session, t # s, Charged(t) PROVE Charged(t)'
  BY <1>1, <1>2 DEF Charged
<1>3. Ephemeral' = Ephemeral
  BY DEF Ephemeral
<1> QED  BY <1>1, <1>2, <1>3, OwnedStep

LEMMA SessionOwned ==
  ASSUME Parts, Rows, EphemeralOwned, NEW s \in Session,
         SessionStep(s) \/ CtrlC(s) \/ Kill(s) \/ ReadFails(s)
  PROVE  EphemeralOwned'
<1>0. Row(s)
  BY DEF Rows
<1>1. CASE QuietMove(s) /\ UNCHANGED <<appVars, process, boots, stream>>
  <2>1. UNCHANGED <<store, token, handler, process, boots, stream>>
    BY <1>1 DEF appVars
  <2>2. Stopping' <=> Stopping
    BY <2>1 DEF Stopping
  <2>3. \A t \in Session : t # s => sess'[t] = sess[t]
    BY <1>1 DEF QuietMove, Moved
  <2> QED  BY <1>0, <1>1, <2>1, <2>2, <2>3, QuietCharged, MoveOwned
<1>2. CASE SendAdd(s) /\ sess'[s].pc # "failed"
  <2> DEFINE o == [kind |-> "add_ephemeral", rule |-> RuleOf(s)]
  <2>1. /\ Mutate(s, o) /\ sess'[s].pc = "adding" /\ sess'[s].life = boots
        /\ \A t \in Session : t # s => sess'[t] = sess[t]
        /\ UNCHANGED <<process, boots, stream>>
    BY <1>2, SendAddParts
  <2>2. o \in Op /\ o.rule = RuleOf(s) /\ s \in Client
    BY SessionOps
  <2> HIDE DEF o
  <2>3. /\ handler[s].pc = "idle" /\ store' = Apply(o, store).store /\ UNCHANGED token
        /\ \A x \in Client : x # s => handler'[x] = handler[x]
    BY <2>1, <2>2, MutateParts DEF Parts
  <2>4. Calm
    BY <2>1, <2>2, <2>3, IdleCalm
  <2>5. Charged(s)'
    BY <2>1 DEF Charged, InCharge
  <2>6. ASSUME NEW t \in Session, Charged(t) PROVE Charged(t)'
    BY <2>1, <2>4, <2>5, <2>6 DEF Charged, Calm
  <2>7. ASSUME NEW r \in Ephemeral' PROVE r \in Ephemeral \/ r = RuleOf(s)
    BY <2>2, <2>3, MutateEphemeral DEF Parts
  <2> QED  BY <2>4, <2>5, <2>6, <2>7, OwnedStep
<1>3. CASE SendRemove(s) /\ sess'[s].pc # "cut"
  <2> DEFINE o == [kind |-> "remove_ephemeral", domain |-> RuleOf(s).domain]
  <2>1. /\ Mutate(s, o)
        /\ \A t \in Session : t # s => sess'[t] = sess[t]
        /\ UNCHANGED <<process, boots, stream>>
    BY <1>3, SendRemoveParts
  <2>2. /\ o \in Op /\ o.kind = "remove_ephemeral" /\ o.domain = RuleOf(s).domain
        /\ s \in Client
    BY SessionOps
  <2> HIDE DEF o
  <2>3. /\ handler[s].pc = "idle" /\ store' = Apply(o, store).store /\ UNCHANGED token
        /\ \A x \in Client : x # s => handler'[x] = handler[x]
    BY <2>1, <2>2, MutateParts DEF Parts
  <2>4. Calm
    BY <2>1, <2>2, <2>3, IdleCalm
  <2>5. ASSUME NEW r \in Ephemeral' PROVE r \in Ephemeral /\ r # RuleOf(s)
    BY <2>2, <2>3, MutateEphemeral DEF Parts
  <2>6. ASSUME NEW t \in Session, t # s, Charged(t) PROVE Charged(t)'
    BY <2>1, <2>4, <2>6 DEF Charged, Calm
  <2> QED  BY <2>4, <2>5, <2>6, OwnedStep
<1>4. CASE Subscribe(s) /\ sess'[s].pc # "cut"
  <2>1. Moved(s, "select") /\ UNCHANGED <<appVars, process, boots>>
    BY <1>4, SubscribeParts
  <2>2. UNCHANGED <<store, token, handler, process, boots>>
    BY <2>1 DEF appVars
  <2>3. Charged(s) => Charged(s)'
    BY <2>1 DEF Charged, Moved, InCharge
  <2> QED  BY <2>1, <2>2, <2>3, MoveOwned DEF Moved
<1>5. CASE StopEvent(s) /\ stream[s].pipe # << >>
  <2>1. /\ sess[s].pc = "select" /\ UNCHANGED <<appVars, process, boots>>
        /\ UNCHANGED sess \/ (Moved(s, "stopped") /\ DaemonStopped \in ToSet(stream[s].pipe))
    BY <1>5, StopEventParts
  <2>2. UNCHANGED <<store, token, handler, process, boots>>
    BY <2>1 DEF appVars
  <2>3. Stopping' <=> Stopping
    BY <2>2 DEF Stopping
  <2>4. ASSUME Up, Charged(s), Moved(s, "stopped"), DaemonStopped \in ToSet(stream[s].pipe)
        PROVE  Charged(s)'
    <3>1. stream[s].life \in 0..boots /\ boots \in Nat
      BY BoundsAssumption DEF Parts, Streams, StreamRecord, Living
    <3>2. Lives(stream[s].life)
      BY <1>0, <2>1, <2>4, <3>1 DEF Row, Lives, Charged
    <3>3. Stopping
      BY <1>0, <2>4, <3>2 DEF Row
    <3> QED  BY <2>2, <2>3, <2>4, <3>3 DEF Charged, Moved
  <2>5. CASE UNCHANGED sess
    BY <2>2, <2>5, FrameCalm, CalmOwned
  <2>6. CASE Moved(s, "stopped") /\ DaemonStopped \in ToSet(stream[s].pipe)
    BY <2>2, <2>4, <2>6, MoveOwned DEF Moved
  <2> QED  BY <2>1, <2>5, <2>6
<1> QED  BY <1>1, <1>2, <1>3, <1>4, <1>5, SessionStepParts

(* A new daemon has no ephemeral rule. *)
LEMMA NoneEphemeral == ToSet(LayerRules(EmptyStore.ephemeral)) = {}
<1>1. EmptyLayer \in Layer /\ LayerWellFormed(EmptyLayer) /\ Kept(EmptyLayer) = {}
  BY EmptyStoreLemma DEF EmptyStore, Store, WellFormed, Kept, EmptyLayer
<1>2. IsFiniteSet(Kept(EmptyLayer))
  BY <1>1, FS_EmptySet
<1>3. ToSet(LayerRules(EmptyLayer)) = Kept(EmptyLayer) \cup ToSet(EmptyLayer.wildcard)
  BY <1>1, <1>2, LayerRulesLemma
<1>4. ToSet(EmptyLayer.wildcard) = {}
  BY EmptySet DEF EmptyLayer
<1> QED  BY <1>1, <1>3, <1>4 DEF EmptyStore

LEMMA DaemonOwned ==
  ASSUME Parts, Announced, EphemeralOwned,
         \/ \E c \in Client : StopRequest(c) \/ OtherRequest(c) \/ HandlerStep(c)
         \/ DaemonStep \/ Signal \/ AcceptFails \/ Crash \/ Boot
  PROVE  EphemeralOwned'
<1>1. ASSUME NEW c \in Client, StopRequest(c) PROVE EphemeralOwned'
  <2>1. /\ handler[c].pc = "idle" /\ UNCHANGED <<store, bus, token>>
        /\ \A x \in Client : x # c => handler'[x] = handler[x]
    BY <1>1, StopParts DEF StopRequest, Parts
  <2>2. UNCHANGED <<process, boots, sess, stream>>
    BY <1>1 DEF StopRequest, runVars
  <2> QED  BY <2>1, <2>2, IdleCalm, CalmOwned
<1>2. ASSUME NEW c \in Client, OtherRequest(c) PROVE EphemeralOwned'
  <2>1. PICK o \in Request : o \in Op /\ Mutate(c, o)
    BY <1>2, OtherRequestParts
  <2>2. /\ handler[c].pc = "idle" /\ store' = Apply(o, store).store /\ UNCHANGED token
        /\ \A x \in Client : x # c => handler'[x] = handler[x]
    BY <2>1, MutateParts DEF Parts
  <2>3. UNCHANGED <<process, boots, sess>>
    BY <1>2 DEF OtherRequest, runVars
  <2>4. Calm
    BY <2>2, <2>3, IdleCalm
  <2>5. ASSUME NEW r \in Ephemeral' PROVE r \in Ephemeral \/ Asked(r)
    <3>1. CASE o.kind = "add_ephemeral" /\ r = o.rule
      <4>1. o = [kind |-> "add_ephemeral", rule |-> r]
        BY <2>1, <3>1 DEF Op
      <4> QED  BY <2>1, <4>1 DEF Asked
    <3> QED  BY <2>1, <2>2, <2>5, <3>1, MutateEphemeral DEF Parts
  <2>6. ASSUME NEW t \in Session, Charged(t) PROVE Charged(t)'
    BY <2>3, <2>4, <2>6 DEF Charged, Calm
  <2> QED  BY <2>4, <2>5, <2>6, OwnedStep
<1>3. ASSUME NEW c \in Client, HandlerStep(c) PROVE EphemeralOwned'
  <2>1. UNCHANGED <<process, boots, sess, stream>>
    BY <1>3 DEF HandlerStep, runVars
  <2>2. Calm /\ UNCHANGED store
    BY <1>3, HandlerCalm
  <2> QED  BY <2>1, <2>2, CalmOwned
<1>4. CASE ShutdownRequested \/ Signal
  <2>1. /\ token' = TRUE /\ process = "up" /\ UNCHANGED <<store, handler, boots, sess, stream>>
    BY <1>4 DEF ShutdownRequested, Signal, Parts, Serving
  <2>2. Calm
    BY <2>1 DEF Calm, Stopping
  <2> QED  BY <2>1, <2>2, CalmOwned
<1>5. CASE Exit \/ Crash
  BY <1>5 DEF Exit, Crash, EphemeralOwned, Up
<1>6. CASE Boot
  <2>1. ToSet(LayerRules(store'.ephemeral)) = {}
    BY <1>6, NoneEphemeral DEF Boot
  <2> QED  BY <2>1 DEF EphemeralOwned
<1>7. CASE AcceptFails
  <2>1. UNCHANGED <<store, token, handler, process, boots, sess>>
    BY <1>7, AcceptParts DEF appVars
  <2> QED  BY <2>1, FrameCalm, CalmOwned
<1> QED  BY <1>1, <1>2, <1>3, <1>4, <1>5, <1>6, <1>7 DEF DaemonStep

LEMMA NextOwned ==
  Parts /\ Announced /\ Rows /\ EphemeralOwned /\ [Next]_vars => EphemeralOwned'
<1> SUFFICES ASSUME Parts, Announced, Rows, EphemeralOwned, [Next]_vars
             PROVE  EphemeralOwned'
  OBVIOUS
<1>1. ASSUME NEW s \in Session, Launch(s) \/ ChildExit(s) PROVE EphemeralOwned'
  <2>1. /\ UNCHANGED <<appVars, process, boots, stream>>
        /\ (sess[s].pc = "new" /\ Moved(s, "detect")) \/ Moved(s, sess[s].pc)
    BY <1>1, LaunchParts, ChildExitParts
  <2>2. UNCHANGED <<store, token, handler, process, boots>>
    BY <2>1 DEF appVars
  <2>3. Stopping' <=> Stopping
    BY <2>2 DEF Stopping
  <2>4. Charged(s) => Charged(s)'
    BY <2>1, <2>2, <2>3 DEF Charged, Moved, InCharge
  <2> QED  BY <2>1, <2>2, <2>4, MoveOwned DEF Moved
<1>2. ASSUME NEW s \in Session, StreamStep(s) PROVE EphemeralOwned'
  <2>1. UNCHANGED <<store, token, handler, process, boots, sess>>
    BY <1>2, StreamOpenParts, StreamForwardParts, StreamLaggedParts, StreamEndParts
       DEF StreamStep, runVars
  <2> QED  BY <2>1, FrameCalm, CalmOwned
<1>3. CASE UNCHANGED vars
  <2>1. UNCHANGED <<store, token, handler, process, boots, sess>>
    BY <1>3 DEF vars, appVars, runVars
  <2> QED  BY <2>1, FrameCalm, CalmOwned
<1> QED  BY <1>1, <1>2, <1>3, SessionOwned, DaemonOwned DEF Next

(* Whoever shares a domain with whom, an ephemeral rule in force has a     *)
(* session in charge of it, was asked for by another client, or is left by *)
(* a session that was killed or lost its connection, or in a daemon on its *)
(* way out: for any sessions, domains, requests, failed connections and    *)
(* accepts, crashes and restarts (run.rs:94, 117, 129, 147).               *)
THEOREM EveryRuleHasAnOwner == Spec => []EphemeralOwned
<1>1. Init => EphemeralOwned
  BY DEF Init, EphemeralOwned, Up
<1>2. Inv /\ EphemeralOwned /\ [Next]_vars => EphemeralOwned'
  BY InvIsParts, NextOwned
<1> QED  BY <1>1, <1>2, AlwaysInv, PTL DEF Spec
=============================================================================
