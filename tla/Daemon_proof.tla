---------------------------- MODULE Daemon_proof ----------------------------
(***************************************************************************)
(* Proofs about Daemon: its types, and that nothing but the accidents it   *)
(* records ever leaves an outdated answer (Coherent) or an unsaved change  *)
(* (Durable) behind, and that a restart gives back the persistent rules,   *)
(* for any rules, names, clients, lookups and capacity.                    *)
(***************************************************************************)
EXTENDS Daemon, InnerRuleStore_proof

-----------------------------------------------------------------------------
(* The inductive invariant. *)

(* Loading the rules gives back every exact rule among them: a domain is   *)
(* not in the file twice.                                                  *)
Loads(rules) ==
  \A i \in 1..Len(rules) :
    ~IsWildcard(rules[i].domain) =>
      AddAll(EmptyStore, rules).persistent.exact[rules[i].domain] = rules[i]

(* What is on disk, and what a save is about to write there. *)
Files == Loads(disk.rules) /\ Loads(watch.rules)

(* A receiver that is gone has no queue; the watch is not there before it  *)
(* subscribes; whoever is about to publish or to evict has an event, and a *)
(* lookup under way a name and, once it read the store, a rule.            *)
Wired ==
  /\ \A r \in Receiver : bus[r].subscribed \/ bus[r].queue = << >>
  /\ main = "spawned" => ~bus["watch"].subscribed /\ watch.pc = "none"
  /\ watch.pc = "invalidate" => watch.event \in RuleEvent
  /\ \A c \in Client : handler[c].pc # "idle" => handler[c].event \in Event
  /\ \A t \in Lookup : /\ lookup[t].pc # "idle" => lookup[t].name \in Name
                       /\ lookup[t].pc = "fill" => lookup[t].rule \in Rule

TypeInv == TypeOK /\ FinitelyMany(store) /\ Wired /\ Files

Inv == TypeInv /\ Coherent /\ Durable

-----------------------------------------------------------------------------
(* The channel. *)

(* A receiver of the channel, as Wired and TypeOK have it. *)
Sound(rx) ==
  /\ rx \in ReceiverOf(Event)
  /\ Len(rx.queue) <= Capacity
  /\ rx.subscribed \/ rx.queue = << >>

(* Sending keeps the receivers sound, and loses no event of theirs that    *)
(* MissedBySend does not name.                                             *)
LEMMA DeliverSound ==
  ASSUME NEW rx, Sound(rx), NEW m \in Event
  PROVE  /\ Sound(Deliver(rx, m))
         /\ Deliver(rx, m).subscribed = rx.subscribed
         /\ \A e : e = m \/ e \in ToSet(rx.queue) =>
              e \in ToSet(Deliver(rx, m).queue) \/ e \in MissedBySend(rx, m)
<1>0. rx.subscribed \in BOOLEAN /\ rx.lagged \in BOOLEAN /\ rx.queue \in Seq(Event)
      /\ Len(rx.queue) \in Nat /\ Capacity \in Nat /\ Capacity > 0
  BY CapacityAssumption DEF Sound, ReceiverOf
<1>1. CASE ~rx.subscribed
  <2>1. Deliver(rx, m) = rx /\ MissedBySend(rx, m) = {m}
    BY <1>1 DEF Deliver, MissedBySend
  <2>2. rx.queue = << >>
    BY <1>1 DEF Sound
  <2> QED  BY <2>1, <2>2
<1>2. CASE rx.subscribed /\ ~Full(rx)
  <2> DEFINE q == Append(rx.queue, m)
  <2>1. /\ q \in Seq(Event) /\ Len(q) = Len(rx.queue) + 1
        /\ ToSet(rx.queue) \subseteq ToSet(q) /\ m \in ToSet(q)
    BY <1>0, AppendSet
  <2>2. Len(q) <= Capacity
    BY <1>0, <1>2, <2>1 DEF Full
  <2> HIDE DEF q
  <2>3. Deliver(rx, m) = [rx EXCEPT !.lagged = @ \/ Full(rx), !.queue = q]
    BY <1>2 DEF Deliver, q
  <2>4. Full(rx) \in BOOLEAN
    BY DEF Full
  <2>5. /\ Deliver(rx, m) \in ReceiverOf(Event) /\ Deliver(rx, m).queue = q
        /\ Deliver(rx, m).subscribed = rx.subscribed
    BY <1>0, <2>1, <2>3, <2>4 DEF Sound, ReceiverOf
  <2> QED  BY <1>2, <2>1, <2>2, <2>5 DEF Sound
<1>3. CASE rx.subscribed /\ Full(rx)
  <2>1. rx.queue # << >>
    BY <1>0, <1>3 DEF Full
  <2>2. /\ Tail(rx.queue) \in Seq(Event) /\ Len(Tail(rx.queue)) = Len(rx.queue) - 1
        /\ \A e \in ToSet(rx.queue) : e = Head(rx.queue) \/ e \in ToSet(Tail(rx.queue))
    BY <1>0, <2>1, TailSet
  <2> DEFINE q == Append(Tail(rx.queue), m)
  <2>3. /\ q \in Seq(Event) /\ Len(q) = Len(Tail(rx.queue)) + 1
        /\ ToSet(Tail(rx.queue)) \subseteq ToSet(q) /\ m \in ToSet(q)
    BY <2>2, AppendSet
  <2>4. Len(q) <= Capacity
    BY <1>0, <2>2, <2>3 DEF Sound
  <2> HIDE DEF q
  <2>5. Deliver(rx, m) = [rx EXCEPT !.lagged = @ \/ Full(rx), !.queue = q]
    BY <1>3 DEF Deliver, q
  <2>6. Full(rx) \in BOOLEAN
    BY DEF Full
  <2>7. /\ Deliver(rx, m) \in ReceiverOf(Event) /\ Deliver(rx, m).queue = q
        /\ Deliver(rx, m).subscribed = rx.subscribed
    BY <1>0, <2>3, <2>5, <2>6 DEF Sound, ReceiverOf
  <2>8. MissedBySend(rx, m) = {Head(rx.queue)}
    BY <1>3 DEF MissedBySend
  <2> QED  BY <1>3, <2>2, <2>3, <2>4, <2>7, <2>8 DEF Sound
<1> QED  BY <1>1, <1>2, <1>3

LEMMA ReceiversSound ==
  /\ Sound(NoReceiver) /\ ~NoReceiver.subscribed /\ ToSet(NoReceiver.queue) = {}
  /\ Sound(NewReceiver) /\ NewReceiver.subscribed /\ ToSet(NewReceiver.queue) = {}
<1>1. << >> \in Seq(Event) /\ Len(<< >>) <= Capacity /\ ToSet(<< >>) = {}
  BY CapacityAssumption, EmptySet
<1> QED  BY <1>1 DEF Sound, NoReceiver, NewReceiver, ReceiverOf

(* A receiver may take a message, or note that it lagged. *)
LEMMA TakeSound ==
  ASSUME NEW rx, Sound(rx)
  PROVE  /\ Sound(TakeLagged(rx)) /\ TakeLagged(rx).queue = rx.queue
         /\ TakeLagged(rx).subscribed = rx.subscribed
         /\ HasMessage(rx) =>
              /\ Sound(TakeMessage(rx)) /\ TakeMessage(rx).subscribed = rx.subscribed
              /\ Head(rx.queue) \in Event
              /\ \A e \in ToSet(rx.queue) :
                   e = Head(rx.queue) \/ e \in ToSet(TakeMessage(rx).queue)
<1>0. rx \in ReceiverOf(Event) /\ rx.queue \in Seq(Event)
  BY DEF Sound, ReceiverOf
<1>1. /\ TakeLagged(rx) \in ReceiverOf(Event) /\ TakeLagged(rx).queue = rx.queue
      /\ TakeLagged(rx).subscribed = rx.subscribed
  BY <1>0 DEF TakeLagged, ReceiverOf
<1>2. ASSUME HasMessage(rx)
      PROVE  /\ Sound(TakeMessage(rx)) /\ TakeMessage(rx).subscribed = rx.subscribed
             /\ Head(rx.queue) \in Event
             /\ \A e \in ToSet(rx.queue) :
                  e = Head(rx.queue) \/ e \in ToSet(TakeMessage(rx).queue)
  <2>1. rx.queue # << >>
    BY <1>2 DEF HasMessage
  <2>2. /\ Head(rx.queue) \in Event
        /\ Tail(rx.queue) \in Seq(Event) /\ Len(Tail(rx.queue)) = Len(rx.queue) - 1
        /\ \A e \in ToSet(rx.queue) : e = Head(rx.queue) \/ e \in ToSet(Tail(rx.queue))
    BY <1>0, <2>1, TailSet
  <2>3. /\ TakeMessage(rx) \in ReceiverOf(Event)
        /\ TakeMessage(rx).queue = Tail(rx.queue)
        /\ TakeMessage(rx).subscribed = rx.subscribed
    BY <1>0, <2>2 DEF TakeMessage, ReceiverOf
  <2>4. Len(Tail(rx.queue)) <= Capacity
    BY <1>0, <2>2, CapacityAssumption DEF Sound
  <2>5. rx.subscribed
    BY <2>1 DEF Sound
  <2> QED  BY <2>2, <2>3, <2>4, <2>5 DEF Sound
<1> QED  BY <1>1, <1>2 DEF Sound

-----------------------------------------------------------------------------
(* Types. *)

(* TypeInv, component by component. *)
Connected(b) ==
  b \in [Receiver -> ReceiverOf(Event)] /\ \A r \in Receiver : Sound(b[r])

Stored(s) == s \in Store /\ WellFormed(s) /\ FinitelyMany(s)

Serving ==
  /\ token \in BOOLEAN
  /\ handler \in [Client -> [pc : {"idle", "publish", "cancel"},
                             event : Event \cup {None}]]
  /\ \A c \in Client : handler[c].pc # "idle" => handler[c].event \in Event
  /\ served \in 0..MaxRequests

Looking ==
  /\ ResolverTypeOK
  /\ \A t \in Lookup : /\ lookup[t].pc # "idle" => lookup[t].name \in Name
                       /\ lookup[t].pc = "fill" => lookup[t].rule \in Rule

Watching ==
  /\ main \in {"down", "spawned", "running", "joining", "exited"}
  /\ watch \in [pc : {"none", "recv", "invalidate", "save", "store", "done"},
                event : Event \cup {None}, rules : Seq(Rule)]
  /\ main = "spawned" => ~bus["watch"].subscribed /\ watch.pc = "none"
  /\ watch.pc = "invalidate" => watch.event \in RuleEvent
  /\ Loads(watch.rules)

Written(d) == d \in [intact : BOOLEAN, rules : Seq(Rule)] /\ Loads(d.rules)

Counted == boots \in 0..MaxBoots /\ faults \in 0..MaxFaults

Excused == excuse \in [Name -> SUBSET {"lag", "unheard", "stop", "race", "reorder"}]
Lost == lost \subseteq {"lag", "unheard", "stop", "save"}

Parts == /\ Connected(bus) /\ Stored(store) /\ Serving /\ Looking /\ Watching
         /\ Written(disk) /\ Counted /\ Excused /\ Lost

LEMMA PartsOfInv == TypeInv <=> Parts
<1>1. ASSUME TypeInv PROVE Connected(bus)
  BY <1>1 DEF TypeInv, TypeOK, AppTypeOK, Wired, Connected, Sound
<1>2. ASSUME TypeInv PROVE Stored(store)
  BY <1>2 DEF TypeInv, TypeOK, AppTypeOK, Stored
<1>3. ASSUME TypeInv PROVE Serving
  BY <1>3 DEF TypeInv, TypeOK, AppTypeOK, Wired, Serving
<1>4. ASSUME TypeInv PROVE Looking
  BY <1>4 DEF TypeInv, TypeOK, Wired, Looking
<1>5. ASSUME TypeInv PROVE Watching
  BY <1>5 DEF TypeInv, TypeOK, Wired, Watching, Files
<1>6. ASSUME TypeInv PROVE Written(disk) /\ Counted /\ Excused /\ Lost
  BY <1>6 DEF TypeInv, TypeOK, Written, Files, Counted, Excused, Lost
<1>7. ASSUME Parts PROVE TypeInv
  <2>1. AppTypeOK
    BY <1>7 DEF Parts, AppTypeOK, Connected, Sound, Stored, Serving
  <2>2. Wired
    BY <1>7 DEF Parts, Wired, Connected, Sound, Serving, Looking, Watching
  <2> QED  BY <1>7, <2>1, <2>2
           DEF Parts, TypeInv, TypeOK, Stored, Looking, Watching, Files, Written,
               Counted, Excused, Lost
<1> QED  BY <1>1, <1>2, <1>3, <1>4, <1>5, <1>6, <1>7 DEF Parts

LEMMA PutConnected ==
  ASSUME NEW b, Connected(b), NEW rx, Sound(rx)
  PROVE  /\ Connected([b EXCEPT !["watch"] = rx])
         /\ [b EXCEPT !["watch"] = rx]["watch"] = rx
<1>1. rx \in ReceiverOf(Event)
  BY DEF Sound
<1> QED  BY <1>1, WatchAssumption DEF Connected

LEMMA SendConnected ==
  ASSUME NEW b, Connected(b), NEW m \in Event
  PROVE  /\ Connected(Send(b, m))
         /\ Send(b, m)["watch"] = Deliver(b["watch"], m)
<1>1. \A r \in Receiver : Sound(Deliver(b[r], m))
  BY DeliverSound DEF Connected
<1>2. \A r \in Receiver : Deliver(b[r], m) \in ReceiverOf(Event)
  BY <1>1 DEF Sound
<1>3. Send(b, m) = [r \in Receiver |-> Deliver(b[r], m)]
  BY DEF Send, Connected
<1> QED  BY <1>1, <1>2, <1>3, WatchAssumption DEF Connected

(* resolve answers with a rule or with None. *)
LEMMA FindTyped ==
  ASSUME NEW list \in Seq(Rule), NEW n
  PROVE  FindWildcard(list, n) \in Rule \cup {None}
<1>1. CASE \A j \in 1..Len(list) : ~Matches(list[j], n)
  BY <1>1, FindNone
<1>2. CASE \E j \in 1..Len(list) : Matches(list[j], n)
  <2>1. PICK i \in 1..Len(list) :
               /\ Matches(list[i], n)
               /\ \A j \in 1..Len(list) : Matches(list[j], n) => i <= j
    BY <1>2, FirstExists
  <2>2. FindWildcard(list, n) = list[i]
    BY <2>1, FindFirst
  <2> QED  BY <2>2
<1> QED  BY <1>1, <1>2

LEMMA ResolveTyped ==
  ASSUME NEW s \in Store, NEW n PROVE Resolve(s, n) \in Rule \cup {None}
<1>1. s.ephemeral \in Layer /\ s.persistent \in Layer
  BY DEF Store
<1>2. Exact(s.ephemeral, n) \in Rule \cup {None} /\ Exact(s.persistent, n) \in Rule \cup {None}
  BY <1>1 DEF Exact, Layer
<1>3. s.ephemeral.wildcard \in Seq(Rule) /\ s.persistent.wildcard \in Seq(Rule)
  BY <1>1 DEF Layer
<1>4. /\ FindWildcard(s.ephemeral.wildcard, n) \in Rule \cup {None}
      /\ FindWildcard(s.persistent.wildcard, n) \in Rule \cup {None}
  BY <1>3, FindTyped
<1>5. Resolve(s, n) \in {Exact(s.ephemeral, n), FindWildcard(s.ephemeral.wildcard, n),
                         Exact(s.persistent, n), FindWildcard(s.persistent.wildcard, n)}
  BY DEF Resolve
<1> QED  BY <1>2, <1>4, <1>5

(* What the history variables may hold. *)
LEMMA TrackTyped ==
  ASSUME Excused, Lost, NEW E, NEW why, Track(E, why),
         E = {} \/ why \in {"lag", "unheard", "stop"}
  PROVE  Excused' /\ Lost'
<1>1. CASE E = {}
  <2>1. \A n \in Name : excuse'[n] \in {{}, excuse[n]}
    BY <1>1 DEF Track
  <2>2. excuse' = [n \in Name |-> excuse'[n]]
    BY DEF Track
  <2>3. Excused'
    BY <2>1, <2>2 DEF Excused
  <2>4. lost' \in {{}, lost}
    BY <1>1 DEF Track
  <2> QED  BY <2>3, <2>4 DEF Lost
<1>2. CASE why \in {"lag", "unheard", "stop"}
  <2>1. \A n \in Name : excuse'[n] \in SUBSET (excuse[n] \cup {why})
    BY DEF Track
  <2>2. excuse' = [n \in Name |-> excuse'[n]]
    BY DEF Track
  <2>3. Excused'
    BY <1>2, <2>1, <2>2 DEF Excused
  <2>4. lost' \subseteq lost \cup {why}
    BY DEF Track
  <2> QED  BY <1>2, <2>3, <2>4 DEF Lost
<1> QED  BY <1>1, <1>2

-----------------------------------------------------------------------------
(* What is loaded. *)

LEMMA EmptyLoads == << >> \in Seq(Rule) /\ Loads(<< >>)
BY DEF Loads

(* A file without two rules of one domain loads with all its exact rules.  *)
LEMMA UniqueLoads ==
  ASSUME NEW rules \in Seq(Rule), UniqueDomains(rules) PROVE Loads(rules)
<1>1. PICK g : /\ g[0] = EmptyStore
               /\ \A n \in 1..Len(rules) : g[n] = AddRule(g[n - 1], rules[n])
               /\ AddAll(EmptyStore, rules) = g[Len(rules)]
  BY AddAllSteps
<1> DEFINE holds(s, n) ==
             /\ s \in Store
             /\ \A i \in 1..n : ~IsWildcard(rules[i].domain) =>
                  s.persistent.exact[rules[i].domain] = rules[i]
           good == {n \in Nat : holds(g[n], n)}
<1>2. 0 \in good
  BY <1>1, EmptyStoreLemma
<1>3. ASSUME NEW k \in 1..Len(rules), k - 1 \in good PROVE k \in good
  <2> DEFINE s == g[k - 1]
             p == s.persistent
             r == rules[k]
  <2>1. s \in Store /\ p \in Layer /\ r \in Rule /\ r.domain \in Domain
    <3>1. s \in Store
      BY <1>3
    <3>2. r \in Rule
      OBVIOUS
    <3> HIDE DEF s, r
    <3> QED  BY <3>1, <3>2 DEF Store, Rule
  <2>2. \A i \in 1..(k - 1) : ~IsWildcard(rules[i].domain) =>
          p.exact[rules[i].domain] = rules[i]
    BY <1>3
  <2>3. g[k] = [s EXCEPT !.persistent = AddTo(p, r)]
    BY <1>1 DEF AddRule
  <2> HIDE DEF s
  <2>4. CASE IsWildcard(r.domain)
    <3>1. AddTo(p, r) = [p EXCEPT !.wildcard = Append(Retain(@, r.domain), r)]
      BY <2>4 DEF AddTo
    <3>2. Append(Retain(p.wildcard, r.domain), r) \in Seq(Rule)
      <4>1. Retain(p.wildcard, r.domain) \in Seq(Rule)
        <5>1. p.wildcard \in Seq(Rule)
          BY <2>1 DEF Layer
        <5>2. CASE Positions(p.wildcard, r.domain) = {}
          BY <5>1, <5>2 DEF Retain
        <5>3. CASE Positions(p.wildcard, r.domain) # {}
          <6> DEFINE i == CHOOSE x \in Positions(p.wildcard, r.domain) : TRUE
          <6>1. i \in 1..Len(p.wildcard)
            BY <5>3 DEF Positions
          <6>2. Retain(p.wildcard, r.domain) =
                  [x \in 1..(Len(p.wildcard) - 1) |->
                     IF x < i THEN p.wildcard[x] ELSE p.wildcard[x + 1]]
            BY <5>3 DEF Retain
          <6> HIDE DEF i
          <6> QED  BY <5>1, <6>1, <6>2
        <5> QED  BY <5>2, <5>3
      <4> QED  BY <2>1, <4>1
    <3>3. AddTo(p, r) \in Layer /\ AddTo(p, r).exact = p.exact
      BY <2>1, <3>1, <3>2 DEF Layer
    <3>4. g[k] \in Store /\ g[k].persistent.exact = p.exact
      BY <2>1, <2>3, <3>3 DEF Store
    <3>5. ASSUME NEW i \in 1..k, ~IsWildcard(rules[i].domain)
          PROVE  g[k].persistent.exact[rules[i].domain] = rules[i]
      <4>1. i # k
        BY <2>4, <3>5
      <4>2. i \in 1..(k - 1)
        BY <4>1
      <4> QED  BY <2>2, <3>4, <3>5, <4>2
    <3> QED  BY <3>4, <3>5
  <2>5. CASE ~IsWildcard(r.domain)
    <3>1. AddTo(p, r) = [p EXCEPT !.exact[r.domain] = r]
      BY <2>5 DEF AddTo
    <3>2. /\ AddTo(p, r) \in Layer
          /\ AddTo(p, r).exact = [p.exact EXCEPT ![r.domain] = r]
      BY <2>1, <3>1 DEF Layer
    <3>3. g[k] \in Store /\ g[k].persistent.exact = [p.exact EXCEPT ![r.domain] = r]
      BY <2>1, <2>3, <3>2 DEF Store
    <3>4. ASSUME NEW i \in 1..k, ~IsWildcard(rules[i].domain)
          PROVE  g[k].persistent.exact[rules[i].domain] = rules[i]
      <4>0. p.exact \in [Domain -> Rule \cup {None}]
        BY <2>1 DEF Layer
      <4>1. CASE i = k
        BY <2>1, <3>3, <4>0, <4>1
      <4>2. CASE i # k
        <5>1. i \in 1..(k - 1) /\ rules[i].domain # r.domain
          BY <4>2 DEF UniqueDomains
        <5>2. rules[i].domain \in Domain
          <6>1. rules[i] \in Rule
            OBVIOUS
          <6> QED  BY <6>1 DEF Rule
        <5>3. p.exact[rules[i].domain] = rules[i]
          BY <2>2, <3>4, <5>1
        <5> QED  BY <3>3, <4>0, <5>1, <5>2, <5>3
      <4> QED  BY <4>1, <4>2
    <3>5. holds(g[k], k)
      BY <3>3, <3>4
    <3> HIDE DEF holds
    <3> QED  BY <3>5
  <2> QED  BY <2>4, <2>5
<1>4. Len(rules) \in good
  <2>1. Len(rules) \in Nat
    OBVIOUS
  <2> HIDE DEF good
  <2> QED  BY <1>2, <1>3, <2>1, UpTo
<1> QED  BY <1>1, <1>4 DEF Loads

(* So does the snapshot of a store, and gives its persistent layer back.   *)
LEMMA SnapshotLoads ==
  ASSUME NEW s, Stored(s)
  PROVE  /\ PersistentRules(s) \in Seq(Rule)
         /\ Loads(PersistentRules(s))
         /\ AddAll(EmptyStore, PersistentRules(s)).persistent = s.persistent
<1> DEFINE layer == s.persistent
           q == SetToSeq(Kept(layer))
           rules == PersistentRules(s)
<1>1. layer \in Layer /\ LayerWellFormed(layer) /\ IsFiniteSet(Kept(layer))
  BY DEF Stored, Store, WellFormed, FinitelyMany
<1>2. q \in Seq(Kept(layer))
  BY <1>1, SetToSeqLemma
<1>3. layer.wildcard \in Seq(Rule) /\ Kept(layer) \subseteq Rule
  BY <1>1 DEF Layer, Kept
<1>4. rules = q \o layer.wildcard
  BY DEF PersistentRules, LayerRules, Kept
<1> HIDE DEF q
<1>5. q \in Seq(Rule)
  BY <1>2, <1>3
<1>6. /\ rules \in Seq(Rule) /\ Len(rules) = Len(q) + Len(layer.wildcard)
      /\ \A i \in 1..Len(q) : rules[i] = q[i]
      /\ \A i \in 1..Len(layer.wildcard) : rules[Len(q) + i] = layer.wildcard[i]
  BY <1>3, <1>4, <1>5
<1>7. AddAll(EmptyStore, rules) = Persistent(layer)
  BY <1>1, RoundTrip DEF PersistentRules
<1>8. AddAll(EmptyStore, rules).persistent = layer
  BY <1>7 DEF Persistent, EmptyStore
<1> HIDE DEF rules
<1>9. ASSUME NEW i \in 1..Len(rules), ~IsWildcard(rules[i].domain)
      PROVE  layer.exact[rules[i].domain] = rules[i]
  <2>1. CASE i \in 1..Len(q)
    <3>1. rules[i] \in Kept(layer)
      BY <1>2, <1>6, <2>1
    <3>2. PICK d \in Domain : rules[i] = layer.exact[d] /\ rules[i] # None
      BY <3>1 DEF Kept
    <3>3. rules[i].domain = d
      BY <1>1, <3>2 DEF LayerWellFormed
    <3> QED  BY <3>2, <3>3
  <2>2. CASE ~(i \in 1..Len(q))
    <3>1. i - Len(q) \in 1..Len(layer.wildcard) /\ i = Len(q) + (i - Len(q))
      BY <1>3, <1>5, <1>6, <2>2
    <3>2. rules[i] = layer.wildcard[i - Len(q)]
      BY <1>6, <3>1
    <3>3. IsWildcard(layer.wildcard[i - Len(q)].domain)
      BY <1>1, <3>1 DEF LayerWellFormed
    <3> QED  BY <1>9, <3>2, <3>3
  <2> QED  BY <2>1, <2>2
<1>10. Loads(rules)
  BY <1>8, <1>9 DEF Loads
<1> QED  BY <1>6, <1>8, <1>10 DEF rules

-----------------------------------------------------------------------------
(* Types are kept. *)

LEMMA InitParts == Init => Parts
<1> SUFFICES ASSUME Init PROVE Parts
  OBVIOUS
<1>1. Connected(bus)
  <2>1. bus = [r \in Receiver |-> NoReceiver]
    BY DEF Init, AppInit
  <2>2. NoReceiver \in ReceiverOf(Event)
    BY ReceiversSound DEF Sound
  <2> QED  BY <2>1, <2>2, ReceiversSound DEF Connected
<1>2. Stored(store)
  BY EmptyStoreLemma, EmptyFinite DEF Init, AppInit, Stored
<1>3. Serving
  <2>1. token \in BOOLEAN
    BY DEF Init, AppInit
  <2>2. served \in 0..MaxRequests
    BY MaxRequestsAssumption DEF Init, AppInit
  <2>3. handler = [c \in Client |-> Idle]
    BY DEF Init, AppInit
  <2> QED  BY <2>1, <2>2, <2>3 DEF Serving, Idle
<1>4. Looking
  <2>1. Presigned(<< >>) = {}
    BY EmptySet DEF Presigned
  <2> QED  BY <2>1 DEF Init, ResolverInit, Looking, ResolverTypeOK, NoLookup
<1>5. Watching
  BY EmptyLoads DEF Init, Watching, NoWatch
<1>6. Written(disk)
  <2>1. Loads(Saved) /\ Saved \in Seq(Rule)
    BY SavedAssumption, UniqueLoads
  <2> QED  BY <2>1 DEF Init, Written, File
<1>7. Counted /\ Excused /\ Lost
  BY BoundsAssumption DEF Init, Counted, Excused, Lost
<1> QED  BY <1>1, <1>2, <1>3, <1>4, <1>5, <1>6, <1>7 DEF Parts

(* What a step that leaves variables alone keeps. *)
LEMMA FrameBus == Connected(bus) /\ UNCHANGED bus => Connected(bus)'
BY DEF Connected
LEMMA FrameStore == Stored(store) /\ UNCHANGED store => Stored(store)'
BY DEF Stored
LEMMA FrameServing == Serving /\ UNCHANGED <<token, handler, served>> => Serving'
BY DEF Serving
LEMMA FrameLooking == Looking /\ UNCHANGED resolverVars => Looking'
BY DEF Looking, ResolverTypeOK, resolverVars
LEMMA FrameWritten == Written(disk) /\ UNCHANGED disk => Written(disk)'
BY DEF Written
LEMMA FrameCounted == Counted /\ UNCHANGED <<boots, faults>> => Counted'
BY DEF Counted
LEMMA FrameExcused == Excused /\ UNCHANGED excuse => Excused'
BY DEF Excused
LEMMA FrameLost == Lost /\ UNCHANGED lost => Lost'
BY DEF Lost
LEMMA FrameWatching ==
  Watching /\ UNCHANGED <<main, watch>> /\ (bus["watch"].subscribed)' = bus["watch"].subscribed
    => Watching'
BY DEF Watching

LEMMA BootParts == Parts /\ Boot => Parts'
<1> SUFFICES ASSUME Parts, Boot PROVE Parts'
  OBVIOUS
<1> DEFINE rules == Loaded(disk)
<1>0. rules \in Seq(Rule)
  BY EmptyLoads DEF Parts, Written, Loaded
<1>1. Connected(bus)'
  <2>1. bus' = [r \in Receiver |-> NoReceiver]
    BY DEF Boot
  <2>2. NoReceiver \in ReceiverOf(Event)
    BY ReceiversSound DEF Sound
  <2> QED  BY <2>1, <2>2, ReceiversSound DEF Connected
<1>2. Stored(store)'
  <2>1. store' = AddAll(EmptyStore, rules)
    BY DEF Boot
  <2> HIDE DEF rules
  <2>2. Stored(AddAll(EmptyStore, rules))
    BY <1>0, EmptyStoreLemma, EmptyFinite, AddAllLemma DEF Stored
  <2> QED  BY <2>1, <2>2
<1>3. Serving'
  <2>1. token' \in BOOLEAN
    BY DEF Boot
  <2>2. served' \in 0..MaxRequests
    BY MaxRequestsAssumption DEF Boot
  <2>3. handler' = [c \in Client |-> Idle]
    BY DEF Boot
  <2> QED  BY <2>1, <2>2, <2>3 DEF Serving, Idle
<1>4. Looking'
  <2>1. Presigned(rules) \subseteq Name
    <3> SUFFICES ASSUME NEW n \in Presigned(rules) PROVE n \in Name
      OBVIOUS
    <3>1. PICK r \in ToSet(rules) : n = r.domain /\ ~IsWildcard(r.domain)
      BY DEF Presigned
    <3> HIDE DEF rules
    <3>2. r \in Rule
      BY <1>0 DEF ToSet
    <3> QED  BY <3>1, <3>2, NamesCoverDomains DEF Rule
  <2>2. /\ cache' = [n \in Name |-> None] /\ certs' \subseteq Presigned(rules)
        /\ lookup' = [t \in Lookup |-> NoLookup]
    BY DEF Boot
  <2> HIDE DEF rules
  <2> QED  BY <2>1, <2>2 DEF Looking, ResolverTypeOK, NoLookup
<1>5. Watching'
  <2>1. ~NoReceiver.subscribed
    BY ReceiversSound
  <2> QED  BY <2>1, EmptyLoads, WatchAssumption DEF Boot, Watching, NoWatch
<1>6. Written(disk)'
  BY FrameWritten DEF Parts, Boot
<1>7. Counted'
  BY BoundsAssumption DEF Parts, Counted, Boot
<1>8. Excused' /\ Lost'
  BY DEF Boot, Excused, Lost
<1> QED  BY <1>1, <1>2, <1>3, <1>4, <1>5, <1>6, <1>7, <1>8 DEF Parts

LEMMA SubscribeParts == Parts /\ Subscribe => Parts'
<1> SUFFICES ASSUME Parts, Subscribe PROVE Parts'
  OBVIOUS
<1>1. Connected(bus)'
  BY ReceiversSound, PutConnected DEF Parts, Subscribe, Receive
<1>2. Watching'
  BY DEF Parts, Watching, Subscribe
<1>3. Excused' /\ Lost'
  BY TrackTyped DEF Parts, Subscribe
<1> QED  BY <1>1, <1>2, <1>3, FrameStore, FrameServing, FrameLooking, FrameWritten, FrameCounted
         DEF Parts, Subscribe

LEMMA WatchExitParts == Parts /\ WatchExit => Parts'
<1> SUFFICES ASSUME Parts, WatchExit PROVE Parts'
  OBVIOUS
<1>1. Connected(bus)'
  BY ReceiversSound, PutConnected DEF Parts, WatchExit, Receive
<1>2. Watching'
  BY DEF Parts, Watching, WatchExit
<1>3. Excused' /\ Lost'
  BY TrackTyped DEF Parts, WatchExit
<1> QED  BY <1>1, <1>2, <1>3, FrameStore, FrameServing, FrameLooking, FrameWritten, FrameCounted
         DEF Parts, WatchExit

LEMMA WatchLaggedParts == Parts /\ WatchLagged => Parts'
<1> SUFFICES ASSUME Parts, WatchLagged PROVE Parts'
  OBVIOUS
<1>0. Sound(bus["watch"])
  BY WatchAssumption DEF Parts, Connected
<1>1. Connected(bus)' /\ bus'["watch"] = TakeLagged(bus["watch"])
  BY <1>0, TakeSound, PutConnected DEF Parts, WatchLagged, Receive
<1>2. Watching'
  BY <1>0, <1>1, TakeSound, FrameWatching DEF Parts, WatchLagged, daemonVars
<1>3. Excused' /\ Lost'
  BY TrackTyped DEF Parts, WatchLagged
<1> QED  BY <1>1, <1>2, <1>3, FrameStore, FrameServing, FrameLooking, FrameWritten, FrameCounted
         DEF Parts, WatchLagged, daemonVars

(* Every event is a RuleEvent or DaemonStopped. *)
LEMMA RuleEvents ==
  /\ \A e \in Event : IsRuleEvent(e) <=> e \in RuleEvent
  /\ \A e \in Event : IsPersistentEvent(e) => IsRuleEvent(e)
  /\ DaemonStopped \in Event /\ ~IsRuleEvent(DaemonStopped)
BY DEF Event, IsRuleEvent, RuleEvent, DaemonStopped, IsPersistentEvent

LEMMA WatchRecvParts == Parts /\ WatchRecv => Parts'
<1> SUFFICES ASSUME Parts, WatchRecv PROVE Parts'
  OBVIOUS
<1> DEFINE e == Head(bus["watch"].queue)
<1>0. Sound(bus["watch"]) /\ HasMessage(bus["watch"])
  BY WatchAssumption DEF Parts, Connected, WatchRecv
<1>1. Connected(bus)' /\ bus'["watch"] = TakeMessage(bus["watch"])
  BY <1>0, TakeSound, PutConnected DEF Parts, WatchRecv, Receive
<1>2. e \in Event /\ TakeMessage(bus["watch"]).subscribed = bus["watch"].subscribed
  BY <1>0, TakeSound
<1>3. watch' \in {watch, [watch EXCEPT !.pc = "invalidate", !.event = e]}
      /\ (watch' = watch \/ IsRuleEvent(e)) /\ watch.pc = "recv" /\ main' = main
  BY DEF WatchRecv
<1> HIDE DEF e
<1>4. Watching'
  <2>1. CASE watch' = watch
    BY <1>1, <1>2, <1>3, <2>1, FrameWatching DEF Parts
  <2>2. CASE watch' = [watch EXCEPT !.pc = "invalidate", !.event = e] /\ IsRuleEvent(e)
    <3>1. e \in RuleEvent
      BY <1>2, <2>2, RuleEvents
    <3> QED  BY <1>1, <1>2, <1>3, <2>2, <3>1 DEF Parts, Watching
  <2> QED  BY <1>3, <2>1, <2>2
<1>5. Excused' /\ Lost'
  BY TrackTyped DEF Parts, WatchRecv
<1> QED  BY <1>1, <1>4, <1>5, FrameStore, FrameServing, FrameLooking, FrameWritten, FrameCounted
         DEF Parts, WatchRecv

LEMMA WatchInvalidateParts == Parts /\ WatchInvalidate => Parts'
<1> SUFFICES ASSUME Parts, WatchInvalidate PROVE Parts'
  OBVIOUS
<1>1. Looking'
  BY DEF Parts, Looking, ResolverTypeOK, WatchInvalidate, Invalidate
<1>2. Watching'
  <2>1. /\ watch.pc = "invalidate" /\ UNCHANGED <<main, bus>>
        /\ watch' = [watch EXCEPT !.pc = IF IsPersistentEvent(watch.event) THEN "save" ELSE "recv",
                                  !.event = None]
    BY DEF WatchInvalidate, appVars
  <2> QED  BY <2>1 DEF Parts, Watching
<1>3. Excused'
  <2>1. /\ \A n \in Name : excuse'[n] \in {{}, {"race"}, excuse[n]}
        /\ excuse' = [n \in Name |-> excuse'[n]]
    BY DEF WatchInvalidate
  <2> QED  BY <2>1 DEF Parts, Excused
<1> QED  BY <1>1, <1>2, <1>3, FrameBus, FrameStore, FrameServing, FrameWritten, FrameCounted, FrameLost
         DEF Parts, WatchInvalidate, appVars

LEMMA WatchSnapshotParts == Parts /\ WatchSnapshot => Parts'
<1> SUFFICES ASSUME Parts, WatchSnapshot PROVE Parts'
  OBVIOUS
<1>1. Watching'
  <2> DEFINE rules == PersistentRules(store)
  <2>1. rules \in Seq(Rule) /\ Loads(rules)
    BY SnapshotLoads DEF Parts
  <2>2. /\ watch.pc = "save" /\ UNCHANGED <<main, bus>>
        /\ watch' = [watch EXCEPT !.pc = "store", !.rules = rules]
    BY DEF WatchSnapshot, appVars
  <2> HIDE DEF rules
  <2> QED  BY <2>1, <2>2 DEF Parts, Watching
<1>2. Lost'
  BY DEF WatchSnapshot, Lost
<1> QED  BY <1>1, <1>2, FrameBus, FrameStore, FrameServing, FrameLooking, FrameWritten,
            FrameCounted, FrameExcused
         DEF Parts, WatchSnapshot, appVars

LEMMA WatchStoreParts == Parts /\ WatchStore => Parts'
<1> SUFFICES ASSUME Parts, WatchStore PROVE Parts'
  OBVIOUS
<1>1. Watching'
  <2>1. /\ watch.pc = "store" /\ UNCHANGED <<main, bus>>
        /\ watch' = [watch EXCEPT !.pc = "recv", !.rules = << >>]
    BY DEF WatchStore, appVars
  <2> QED  BY <2>1, EmptyLoads DEF Parts, Watching
<1>2. Written(disk)'
  <2>1. disk' \in {disk, Torn, File(watch.rules)}
    BY DEF WatchStore
  <2>2. watch.rules \in Seq(Rule) /\ Loads(watch.rules)
    BY DEF Parts, Watching
  <2>3. Written(Torn) /\ Written(File(watch.rules)) /\ Written(disk)
    BY <2>2, EmptyLoads DEF Written, Torn, File, Parts
  <2> QED  BY <2>1, <2>3
<1>3. Counted'
  BY BoundsAssumption DEF Parts, Counted, WatchStore
<1>4. Lost'
  <2>1. lost' \subseteq lost \cup {"save"}
    BY DEF WatchStore
  <2> QED  BY <2>1 DEF Parts, Lost
<1> QED  BY <1>1, <1>2, <1>3, <1>4, FrameBus, FrameStore, FrameServing, FrameLooking, FrameExcused
         DEF Parts, WatchStore, appVars

(* Sending an event, whoever sends it. *)
LEMMA SendParts ==
  ASSUME Parts, NEW m \in Event, bus' = Send(bus, m), Missed(m)
  PROVE  /\ Connected(bus)' /\ bus'["watch"] = Deliver(bus["watch"], m)
         /\ bus'["watch"].subscribed = bus["watch"].subscribed
         /\ Excused' /\ Lost'
<1>0. Sound(bus["watch"])
  BY WatchAssumption DEF Parts, Connected
<1>1. Connected(bus)' /\ bus'["watch"] = Deliver(bus["watch"], m)
  BY SendConnected DEF Parts
<1>2. Deliver(bus["watch"], m).subscribed = bus["watch"].subscribed
  BY <1>0, DeliverSound
<1>3. Excused' /\ Lost'
  <2> DEFINE E == MissedBySend(bus["watch"], m)
             why == IF bus["watch"].subscribed THEN "lag" ELSE "unheard"
  <2>1. Track(E, why)
    BY DEF Missed
  <2>2. why \in {"lag", "unheard", "stop"}
    OBVIOUS
  <2> HIDE DEF E, why
  <2> QED  BY <2>1, <2>2, TrackTyped DEF Parts
<1> QED  BY <1>1, <1>2, <1>3

LEMMA ShutdownParts == Parts /\ ShutdownRequested => Parts'
<1> SUFFICES ASSUME Parts, ShutdownRequested PROVE Parts'
  OBVIOUS
<1>1. /\ Connected(bus)' /\ Excused' /\ Lost'
      /\ bus'["watch"].subscribed = bus["watch"].subscribed
  BY RuleEvents, SendParts DEF ShutdownRequested
<1>2. Watching'
  BY <1>1 DEF Parts, Watching, ShutdownRequested
<1> QED  BY <1>1, <1>2, FrameStore, FrameServing, FrameLooking, FrameWritten, FrameCounted
         DEF Parts, ShutdownRequested

LEMMA SignalParts == Parts /\ Signal => Parts'
<1> SUFFICES ASSUME Parts, Signal PROVE Parts'
  OBVIOUS
<1>1. Serving'
  BY DEF Parts, Serving, Signal
<1>2. Watching'
  BY DEF Parts, Watching, Signal
<1>3. Excused' /\ Lost'
  BY TrackTyped DEF Parts, Signal
<1> QED  BY <1>1, <1>2, <1>3, FrameBus, FrameStore, FrameLooking, FrameWritten, FrameCounted
         DEF Parts, Signal

LEMMA ExitParts == Parts /\ Exit => Parts'
<1> SUFFICES ASSUME Parts, Exit PROVE Parts'
  OBVIOUS
<1>1. Watching'
  BY DEF Parts, Watching, Exit, appVars
<1> QED  BY <1>1, FrameBus, FrameStore, FrameServing, FrameLooking, FrameWritten, FrameCounted,
            FrameExcused, FrameLost
         DEF Parts, Exit, appVars

LEMMA CrashParts == Parts /\ Crash => Parts'
<1> SUFFICES ASSUME Parts, Crash PROVE Parts'
  OBVIOUS
<1>1. Watching'
  BY DEF Parts, Watching, Crash, appVars
<1>2. Written(disk)'
  <2>1. disk' \in {disk, Torn, File(watch.rules)}
    BY DEF Crash
  <2>2. watch.rules \in Seq(Rule) /\ Loads(watch.rules)
    BY DEF Parts, Watching
  <2>3. Written(Torn) /\ Written(File(watch.rules)) /\ Written(disk)
    BY <2>2, EmptyLoads DEF Written, Torn, File, Parts
  <2> QED  BY <2>1, <2>3
<1>3. Counted'
  BY BoundsAssumption DEF Parts, Counted, Crash
<1> QED  BY <1>1, <1>2, <1>3, FrameBus, FrameStore, FrameServing, FrameLooking, FrameExcused, FrameLost
         DEF Parts, Crash, appVars

-----------------------------------------------------------------------------
(* Types are kept by requests and lookups. *)

(* What a mutation does to the store and leaves to publish. *)
LEMMA MutateParts ==
  ASSUME Parts, NEW c \in Client, NEW o \in Request, Mutate(c, o)
  PROVE  /\ Stored(store)' /\ Serving'
         /\ handler[c].pc = "idle"
         /\ store' = Apply(o, store).store
         /\ UNCHANGED <<bus, token>>
         /\ handler' = [handler EXCEPT ![c] = handler'[c]]
         /\ \/ Apply(o, store).result = None /\ handler'[c] = Idle
            \/ /\ Apply(o, store).result \in Rule
               /\ handler'[c].pc = "publish" /\ handler'[c].event \in RuleEvent
               /\ handler'[c].event.kind = EventKind(o)
               /\ handler'[c].event.rule = Apply(o, store).result
<1> DEFINE done == Apply(o, store)
           event == [kind |-> EventKind(o), rule |-> done.result]
           new == IF done.result = None THEN Idle ELSE [pc |-> "publish", event |-> event]
<1>1. o \in Op
  BY RequestAssumption
<1>2. /\ done.store \in Store /\ WellFormed(done.store)
      /\ done.result \in Rule \cup {None} /\ FinitelyMany(done.store)
  BY <1>1, ApplyLemma, ApplyFinite DEF Parts, Stored
<1>3. /\ handler[c].pc = "idle" /\ served < MaxRequests /\ store' = done.store
      /\ handler' = [handler EXCEPT ![c] = new]
      /\ served' = served + 1 /\ UNCHANGED <<bus, token>>
  BY DEF Mutate
<1>4. Stored(store)'
  BY <1>2, <1>3 DEF Stored
<1>5. EventKind(o) \in {"RuleAdded", "RuleRemoved", "EphemeralAdded", "EphemeralRemoved"}
  BY <1>1 DEF Op, EventKind
<1> HIDE DEF done
<1>6. \/ done.result = None /\ new = Idle
      \/ /\ done.result \in Rule /\ event \in RuleEvent
         /\ new.pc = "publish" /\ new.event = event
         /\ new = [pc |-> "publish", event |-> event]
  BY <1>2, <1>5, NoneAssumption DEF RuleEvent
<1>7. event.kind = EventKind(o) /\ event.rule = done.result
  OBVIOUS
<1> HIDE DEF event, new
<1>8. /\ new \in [pc : {"idle", "publish", "cancel"}, event : Event \cup {None}]
      /\ new.pc # "idle" => new.event \in Event
  BY <1>6 DEF Idle, Event
<1>9. handler'[c] = new
  BY <1>3 DEF Parts, Serving
<1>10. Serving'
  <2>1. token' \in BOOLEAN
    BY <1>3 DEF Parts, Serving
  <2>2. served' \in 0..MaxRequests
    BY <1>3, MaxRequestsAssumption DEF Parts, Serving
  <2>3. /\ handler' \in [Client -> [pc : {"idle", "publish", "cancel"},
                                    event : Event \cup {None}]]
        /\ \A x \in Client : handler'[x].pc # "idle" => handler'[x].event \in Event
    BY <1>3, <1>8 DEF Parts, Serving
  <2> QED  BY <2>1, <2>2, <2>3 DEF Serving
<1> QED  BY <1>3, <1>4, <1>6, <1>7, <1>9, <1>10 DEF done

LEMMA ServeMutateParts ==
  ASSUME Parts, NEW c \in Client, NEW o \in Request, ServeMutate(c, o) PROVE Parts'
<1>1. Stored(store)' /\ Serving' /\ UNCHANGED bus
  BY MutateParts DEF ServeMutate
<1>2. UNCHANGED <<resolverVars, daemonVars>>
  BY DEF ServeMutate
<1>3. Excused'
  <2>1. /\ \A n \in Name : excuse'[n] \in {{}, excuse[n], excuse[n] \cup {"reorder"}}
        /\ excuse' = [n \in Name |-> excuse'[n]]
    BY DEF ServeMutate
  <2> QED  BY <2>1 DEF Parts, Excused
<1>4. Lost'
  BY DEF ServeMutate, Parts, Lost
<1> QED  BY <1>1, <1>2, <1>3, <1>4, FrameBus, FrameLooking, FrameWritten, FrameCounted, FrameWatching
         DEF Parts, daemonVars

(* A handler whose next step is known. *)
LEMMA HandlerServing ==
  ASSUME Serving, NEW c \in Client, NEW new,
         new \in [pc : {"idle", "publish", "cancel"}, event : Event \cup {None}],
         new.pc # "idle" => new.event \in Event,
         handler' = [handler EXCEPT ![c] = new],
         token' \in BOOLEAN, served' \in 0..MaxRequests
  PROVE  Serving' /\ handler'[c] = new
<1>1. /\ handler' \in [Client -> [pc : {"idle", "publish", "cancel"},
                                  event : Event \cup {None}]]
      /\ \A x \in Client : handler'[x].pc # "idle" => handler'[x].event \in Event
      /\ handler'[c] = new
  BY DEF Serving
<1> QED  BY <1>1 DEF Serving

LEMMA ServeStopParts ==
  ASSUME Parts, NEW c \in Client, ServeStop(c) PROVE Parts'
<1>1. Serving'
  <2> DEFINE new == [pc |-> "publish", event |-> DaemonStopped]
  <2>1. /\ new \in [pc : {"idle", "publish", "cancel"}, event : Event \cup {None}]
        /\ new.pc # "idle" => new.event \in Event
    BY RuleEvents
  <2>2. handler' = [handler EXCEPT ![c] = new] /\ UNCHANGED token
    BY DEF ServeStop, Stop
  <2>3. served' \in 0..MaxRequests
    BY MaxRequestsAssumption DEF ServeStop, Stop, Parts, Serving
  <2>4. token' \in BOOLEAN
    BY <2>2 DEF Parts, Serving
  <2> HIDE DEF new
  <2> QED  BY <2>1, <2>2, <2>3, <2>4, HandlerServing DEF Parts
<1>2. UNCHANGED <<store, bus, resolverVars, daemonVars>>
  BY DEF ServeStop, Stop
<1>3. Excused' /\ Lost'
  BY TrackTyped DEF Parts, ServeStop
<1> QED  BY <1>1, <1>2, <1>3, FrameBus, FrameStore, FrameLooking, FrameWritten, FrameCounted,
            FrameWatching
         DEF Parts, daemonVars

LEMMA ServePublishParts ==
  ASSUME Parts, NEW c \in Client, ServePublish(c) PROVE Parts'
<1>0. handler[c].event \in Event /\ handler[c].pc = "publish"
      /\ handler[c] \in [pc : {"idle", "publish", "cancel"}, event : Event \cup {None}]
  BY DEF ServePublish, Publish, Parts, Serving
<1>1. Serving'
  <2> DEFINE new == IF IsRuleEvent(handler[c].event) THEN Idle
                    ELSE [handler[c] EXCEPT !.pc = "cancel"]
  <2>1. /\ new \in [pc : {"idle", "publish", "cancel"}, event : Event \cup {None}]
        /\ new.pc # "idle" => new.event \in Event
    BY <1>0 DEF Idle
  <2>2. handler' = [handler EXCEPT ![c] = new] /\ UNCHANGED <<token, served>>
    BY DEF ServePublish, Publish
  <2>3. token' \in BOOLEAN /\ served' \in 0..MaxRequests
    BY <2>2 DEF Parts, Serving
  <2> HIDE DEF new
  <2> QED  BY <2>1, <2>2, <2>3, HandlerServing DEF Parts
<1>2. /\ Connected(bus)' /\ Excused' /\ Lost'
      /\ bus'["watch"].subscribed = bus["watch"].subscribed
  BY <1>0, SendParts DEF ServePublish, Publish
<1>3. UNCHANGED <<store, resolverVars, daemonVars>>
  BY DEF ServePublish, Publish
<1> QED  BY <1>1, <1>2, <1>3, FrameStore, FrameLooking, FrameWritten, FrameCounted, FrameWatching
         DEF Parts, daemonVars

LEMMA ServeCancelParts ==
  ASSUME Parts, NEW c \in Client, ServeCancel(c) PROVE Parts'
<1>1. Serving'
  <2>1. /\ Idle \in [pc : {"idle", "publish", "cancel"}, event : Event \cup {None}]
        /\ Idle.pc = "idle"
    BY DEF Idle
  <2>2. handler' = [handler EXCEPT ![c] = Idle] /\ token' = TRUE /\ UNCHANGED served
    BY DEF ServeCancel, CancelToken
  <2>3. token' \in BOOLEAN
    BY <2>2
  <2>4. served' \in 0..MaxRequests
    BY <2>2 DEF Parts, Serving
  <2> QED  BY <2>1, <2>2, <2>3, <2>4, HandlerServing DEF Parts
<1>2. UNCHANGED <<store, bus, resolverVars, daemonVars>>
  BY DEF ServeCancel, CancelToken
<1>3. Excused' /\ Lost'
  BY TrackTyped DEF Parts, ServeCancel
<1> QED  BY <1>1, <1>2, <1>3, FrameBus, FrameStore, FrameLooking, FrameWritten, FrameCounted,
            FrameWatching
         DEF Parts, daemonVars

(* One lookup moves on. *)
LookupRecord ==
  [pc : {"idle", "read", "fill", "sign"}, name : Name \cup {None},
   rule : Rule \cup {None}, tls : BOOLEAN]

Underway(l) ==
  /\ l \in LookupRecord
  /\ l.pc # "idle" => l.name \in Name
  /\ l.pc = "fill" => l.rule \in Rule

LEMMA LookingMoves ==
  ASSUME Looking, NEW t \in Lookup, NEW l, Underway(l),
         lookup' = [lookup EXCEPT ![t] = l],
         cache' \in [Name -> Rule \cup {None}], certs' \subseteq Name
  PROVE  Looking' /\ lookup'[t] = l
BY DEF Looking, ResolverTypeOK, Underway, LookupRecord

LEMMA LookingParts ==
  ASSUME Looking, Stored(store), NEW t \in Lookup, LookupStep(t) PROVE Looking'
<1>0. /\ cache \in [Name -> Rule \cup {None}] /\ certs \subseteq Name
      /\ Underway(lookup[t])
  BY DEF Looking, ResolverTypeOK, Underway, LookupRecord
<1>1. Underway(NoLookup)
  BY DEF Underway, LookupRecord, NoLookup
<1>2. ASSUME NEW n \in Name, NEW tls \in BOOLEAN, CacheMiss(t, n, tls) PROVE Looking'
  <2> DEFINE l == [pc |-> "read", name |-> n, rule |-> None, tls |-> tls]
  <2>1. Underway(l)
    BY DEF Underway, LookupRecord
  <2>2. lookup' = [lookup EXCEPT ![t] = l] /\ UNCHANGED <<cache, certs>>
    BY <1>2 DEF CacheMiss
  <2> HIDE DEF l
  <2> QED  BY <1>0, <2>1, <2>2, LookingMoves
<1>3. ASSUME NEW n \in Name, CacheHit(t, n) PROVE Looking'
  <2> DEFINE l == [pc |-> "sign", name |-> n, rule |-> cache[n], tls |-> TRUE]
  <2>1. Underway(l)
    BY <1>0 DEF Underway, LookupRecord
  <2>2. lookup' = [lookup EXCEPT ![t] = l] /\ UNCHANGED <<cache, certs>>
    BY <1>3 DEF CacheHit
  <2> HIDE DEF l
  <2> QED  BY <1>0, <2>1, <2>2, LookingMoves
<1>4. ASSUME ReadStore(t) PROVE Looking'
  <2> DEFINE rule == Resolve(store, lookup[t].name)
             l == IF rule = None THEN NoLookup ELSE [lookup[t] EXCEPT !.pc = "fill", !.rule = rule]
  <2>1. rule \in Rule \cup {None}
    BY ResolveTyped DEF Stored
  <2>2. lookup' = [lookup EXCEPT ![t] = l] /\ UNCHANGED <<cache, certs>> /\ lookup[t].pc = "read"
    BY <1>4 DEF ReadStore
  <2> HIDE DEF rule
  <2>3. Underway(l)
    <3>1. CASE rule = None
      BY <1>1, <3>1
    <3>2. CASE rule # None
      BY <1>0, <2>1, <2>2, <3>2 DEF Underway, LookupRecord
    <3> QED  BY <3>1, <3>2
  <2> HIDE DEF l
  <2> QED  BY <1>0, <2>2, <2>3, LookingMoves
<1>5. ASSUME Fill(t) PROVE Looking'
  <2> DEFINE l == IF lookup[t].tls /\ lookup[t].rule.https THEN [lookup[t] EXCEPT !.pc = "sign"]
                  ELSE NoLookup
  <2>1. /\ lookup' = [lookup EXCEPT ![t] = l] /\ UNCHANGED certs /\ lookup[t].pc = "fill"
        /\ cache' = [cache EXCEPT ![lookup[t].name] = lookup[t].rule]
    BY <1>5 DEF Fill
  <2>2. cache' \in [Name -> Rule \cup {None}]
    BY <1>0, <2>1 DEF Underway
  <2>3. Underway(l)
    <3>1. Underway([lookup[t] EXCEPT !.pc = "sign"])
      BY <1>0, <2>1 DEF Underway, LookupRecord
    <3> QED  BY <1>1, <3>1
  <2> HIDE DEF l
  <2> QED  BY <1>0, <2>1, <2>2, <2>3, LookingMoves
<1>6. ASSUME Sign(t) PROVE Looking'
  <2>1. /\ lookup' = [lookup EXCEPT ![t] = NoLookup] /\ UNCHANGED cache
        /\ lookup[t].pc = "sign" /\ certs' \subseteq certs \cup {lookup[t].name}
    BY <1>6 DEF Sign
  <2>2. certs' \subseteq Name
    BY <1>0, <2>1 DEF Underway
  <2> QED  BY <1>0, <1>1, <2>1, <2>2, LookingMoves
<1> QED  BY <1>2, <1>3, <1>4, <1>5, <1>6 DEF LookupStep

LEMMA ServeLookupParts ==
  ASSUME Parts, NEW t \in Lookup, ServeLookup(t) PROVE Parts'
<1>1. Looking'
  BY LookingParts DEF Parts, ServeLookup
<1>2. UNCHANGED <<appVars, daemonVars>>
  BY DEF ServeLookup, LookupStep
<1>3. Excused' /\ Lost'
  BY TrackTyped DEF Parts, ServeLookup
<1> QED  BY <1>1, <1>2, <1>3, FrameBus, FrameStore, FrameServing, FrameWritten, FrameCounted,
            FrameWatching
         DEF Parts, appVars, daemonVars

LEMMA NextParts == Parts /\ [Next]_vars => Parts'
<1> SUFFICES ASSUME Parts, [Next]_vars PROVE Parts'
  OBVIOUS
<1>1. CASE Boot \/ Subscribe \/ ShutdownRequested \/ Signal \/ Exit \/ Crash
  BY <1>1, BootParts, SubscribeParts, ShutdownParts, SignalParts, ExitParts, CrashParts
<1>2. CASE WatchStep
  BY <1>2, WatchExitParts, WatchLaggedParts, WatchRecvParts, WatchInvalidateParts,
     WatchSnapshotParts, WatchStoreParts
     DEF WatchStep
<1>3. ASSUME NEW c \in Client,
             (\E o \in Request : ServeMutate(c, o)) \/ ServeStop(c) \/ HandlerStep(c)
      PROVE  Parts'
  BY <1>3, ServeMutateParts, ServeStopParts, ServePublishParts, ServeCancelParts DEF HandlerStep
<1>4. ASSUME NEW t \in Lookup, ServeLookup(t) PROVE Parts'
  BY <1>4, ServeLookupParts
<1>5. CASE UNCHANGED vars
  BY <1>5, FrameBus, FrameStore, FrameServing, FrameLooking, FrameWritten, FrameCounted,
     FrameExcused, FrameLost, FrameWatching
     DEF Parts, vars, appVars, resolverVars, daemonVars
<1> QED  BY <1>1, <1>2, <1>3, <1>4, <1>5 DEF Next

(* Every variable of the daemon keeps its type: no receiver ever holds     *)
(* more than the channel's capacity (state.rs:29), every store is well     *)
(* formed, and only the listed causes are recorded, for any rules, names,  *)
(* clients, lookups, receivers, capacity and file to start from.           *)
THEOREM TypeCorrect == Spec => []TypeOK
<1>1. Parts => TypeOK
  BY PartsOfInv DEF TypeInv
<1> QED  BY <1>1, InitParts, NextParts, PTL DEF Spec

-----------------------------------------------------------------------------
(* Nothing is forgotten. *)

(* What the save under way promises. *)
Saving == watch.pc = "save" \/ (watch.pc = "store" /\ Holds(watch.rules))

(* A step that Track describes keeps both promises when it makes no name   *)
(* outdated and nothing unsaved, and every event it takes from the watch   *)
(* is one it tracks.                                                       *)
LEMMA TrackKeeps ==
  ASSUME Coherent, Durable, Alive, NEW E, NEW why, Track(E, why),
         \A n \in Name : Outdated(n)' => Outdated(n),
         Unsaved' => Unsaved,
         \A e \in Unhandled : IsRuleEvent(e) => e \in Unhandled' \/ e \in E,
         \A e \in Unhandled : IsPersistentEvent(e) => IsRuleEvent(e),
         Saving => Saving'
  PROVE  Coherent' /\ Durable'
<1>1. Coherent'
  <2> SUFFICES ASSUME NEW n \in Name, Outdated(n)'
               PROVE  excuse'[n] # {} \/ EvictionComing(n)'
    BY DEF Coherent
  <2>1. excuse'[n] = excuse[n] \cup
          {why : e \in {x \in E : IsRuleEvent(x) /\ Matches(x.rule, n)}}
    BY DEF Track
  <2>2. excuse[n] # {} \/ EvictionComing(n)
    BY DEF Coherent
  <2>3. CASE excuse[n] # {}
    BY <2>1, <2>3
  <2>4. CASE EvictionComing(n)
    <3>1. PICK e \in Unhandled : IsRuleEvent(e) /\ Matches(e.rule, n)
      BY <2>4 DEF EvictionComing
    <3>2. CASE e \in Unhandled'
      BY <3>1, <3>2 DEF EvictionComing
    <3>3. CASE e \in E
      <4>1. e \in {x \in E : IsRuleEvent(x) /\ Matches(x.rule, n)}
        BY <3>1, <3>3
      <4>2. why \in excuse'[n]
        BY <2>1, <4>1
      <4> QED  BY <4>2
    <3> QED  BY <3>1, <3>2, <3>3
  <2> QED  BY <2>2, <2>3, <2>4
<1>2. Durable'
  <2> SUFFICES ASSUME Unsaved' PROVE lost' # {} \/ SaveComing'
    BY DEF Durable
  <2>1. lost' = lost \cup {why : e \in {x \in E : IsPersistentEvent(x)}}
    BY DEF Track
  <2>2. lost # {} \/ SaveComing
    BY DEF Durable
  <2>3. CASE lost # {}
    BY <2>1, <2>3
  <2>4. CASE Saving
    BY <2>4 DEF Saving, SaveComing
  <2>5. CASE \E e \in Unhandled : IsPersistentEvent(e)
    <3>1. PICK e \in Unhandled : IsPersistentEvent(e)
      BY <2>5
    <3>2. CASE e \in Unhandled'
      BY <3>1, <3>2 DEF SaveComing
    <3>3. CASE e \in E
      <4>1. e \in {x \in E : IsPersistentEvent(x)}
        BY <3>1, <3>3
      <4>2. why \in lost'
        BY <2>1, <4>1
      <4> QED  BY <4>2
    <3> QED  BY <3>1, <3>2, <3>3
  <2> QED  BY <2>2, <2>3, <2>4, <2>5 DEF SaveComing, Saving
<1> QED  BY <1>1, <1>2

(* Three parts of what is not handled yet. *)
Published == {handler[c].event : c \in {x \in Client : handler[x].pc = "publish"}}
Queued == ToSet(bus["watch"].queue)
Taken == IF watch.pc = "invalidate" THEN {watch.event} ELSE {}

LEMMA UnhandledParts == Unhandled = Published \cup Queued \cup Taken
BY DEF Unhandled, Published, Queued, Taken

LEMMA UnhandledTyped == Parts => \A e \in Unhandled : e \in Event
<1> SUFFICES ASSUME Parts, NEW e \in Unhandled PROVE e \in Event
  OBVIOUS
<1>1. CASE e \in Published
  BY <1>1 DEF Published, Parts, Serving
<1>2. CASE e \in Queued
  <2>1. bus["watch"].queue \in Seq(Event)
    BY WatchAssumption DEF Parts, Connected, ReceiverOf
  <2> QED  BY <1>2, <2>1 DEF Queued, ToSet
<1>3. CASE e \in Taken
  BY <1>3 DEF Taken, Parts, Watching, Event
<1> QED  BY <1>1, <1>2, <1>3, UnhandledParts

LEMMA PersistentAreRules ==
  Parts => \A e \in Unhandled : IsPersistentEvent(e) => IsRuleEvent(e)
BY UnhandledTyped, RuleEvents

LEMMA FrameOutdated ==
  UNCHANGED <<store, resolverVars>> => \A n \in Name : Outdated(n)' = Outdated(n)
BY DEF resolverVars, Outdated, HeldOutdated, CarriedOutdated, WantsCert

LEMMA FramePublished == UNCHANGED handler => Published' = Published
BY DEF Published
LEMMA FrameQueued == UNCHANGED bus => Queued' = Queued
BY DEF Queued
LEMMA FrameTaken == UNCHANGED watch => Taken' = Taken
BY DEF Taken

(* The file and the save under way are the same. *)
LEMMA FrameSaved ==
  ASSUME UNCHANGED <<store, disk>>, watch' = watch \/ (watch.pc # "store" /\ watch'.pc # "store")
  PROVE  (Unsaved' => Unsaved)
<1>1. CASE watch' = watch
  BY <1>1 DEF Unsaved, Holds
<1>2. CASE watch.pc # "store" /\ watch'.pc # "store"
  BY <1>2 DEF Unsaved, Holds
<1> QED  BY <1>1, <1>2

LEMMA FrameSaving == UNCHANGED <<store, watch>> => (Saving => Saving')
BY DEF Saving, Holds

-----------------------------------------------------------------------------
(* Both promises, action by action. *)

Promises == Coherent /\ Durable

LEMMA InitPromises == Init => Promises
BY DEF Init, Promises, Coherent, Durable, Alive

(* Loading leaves the ephemeral layer empty. *)
LEMMA LoadsPersistent ==
  ASSUME NEW rules \in Seq(Rule) PROVE AddAll(EmptyStore, rules).ephemeral = EmptyLayer
<1>1. PICK g : /\ g[0] = EmptyStore
               /\ \A k \in 1..Len(rules) : g[k] = AddRule(g[k - 1], rules[k])
               /\ AddAll(EmptyStore, rules) = g[Len(rules)]
  BY AddAllSteps
<1> DEFINE good == {k \in Nat : \E layer : g[k] = Persistent(layer)}
<1>2. 0 \in good
  <2>1. EmptyStore = Persistent(EmptyLayer)
    BY DEF EmptyStore, Persistent
  <2> QED  BY <1>1, <2>1
<1>3. ASSUME NEW k \in 1..Len(rules), k - 1 \in good PROVE k \in good
  <2>1. PICK layer : g[k - 1] = Persistent(layer)
    BY <1>3
  <2>2. g[k] = Persistent(AddTo(layer, rules[k]))
    BY <1>1, <2>1, AddPersistent
  <2> QED  BY <2>2
<1>4. Len(rules) \in good
  <2>1. Len(rules) \in Nat
    OBVIOUS
  <2> HIDE DEF good
  <2> QED  BY <1>2, <1>3, <2>1, UpTo
<1>5. \A layer : Persistent(layer).ephemeral = EmptyLayer
  BY DEF Persistent, EmptyStore
<1> QED  BY <1>1, <1>4, <1>5

(* A fresh daemon has nothing but certificates signed for its own rules.   *)
LEMMA BootPromises == Parts /\ Boot => Promises'
<1> SUFFICES ASSUME Parts, Boot PROVE Promises'
  OBVIOUS
<1> DEFINE rules == Loaded(disk)
           s == AddAll(EmptyStore, rules)
<1>0. rules \in Seq(Rule) /\ Loads(rules)
  BY EmptyLoads DEF Parts, Written, Loaded
<1>1. /\ store' = s /\ disk' = disk /\ watch' = NoWatch /\ certs' \subseteq Presigned(rules)
      /\ cache' = [n \in Name |-> None] /\ lookup' = [t \in Lookup |-> NoLookup]
  BY DEF Boot
<1>2. s \in Store /\ Stored(s)
  <2> HIDE DEF rules
  <2> QED  BY <1>0, EmptyStoreLemma, EmptyFinite, AddAllLemma DEF Stored
<1>3. Durable'
  <2>1. Holds(Loaded(disk))'
    BY <1>1 DEF Holds, Loaded
  <2>2. watch'.pc # "store"
    BY <1>1 DEF NoWatch
  <2>3. ~Unsaved'
    BY <2>1, <2>2 DEF Unsaved
  <2> QED  BY <2>3 DEF Durable
<1> HIDE DEF s
<1>4. ASSUME NEW n \in Presigned(rules) PROVE Resolve(s, n) # None /\ Resolve(s, n).https
  <2>1. PICK r \in ToSet(rules) : n = r.domain /\ r.https /\ ~IsWildcard(r.domain)
    BY DEF Presigned
  <2> HIDE DEF rules
  <2>2. PICK i \in 1..Len(rules) : r = rules[i]
    BY <1>0 DEF ToSet
  <2>3. r \in Rule /\ r # None
    BY <1>0, <2>2, NoneAssumption
  <2>4. n \in Domain
    BY <2>1, <2>3 DEF Rule
  <2>5. s.persistent.exact[n] = r
    BY <1>0, <2>1, <2>2 DEF Loads, s
  <2>7. s.ephemeral = EmptyLayer
    BY <1>0, LoadsPersistent DEF s
  <2>8. Exact(s.ephemeral, n) = None /\ FindWildcard(s.ephemeral.wildcard, n) = None
    <3>1. EmptyLayer.wildcard = << >> /\ EmptyLayer.exact = [d \in Domain |-> None]
      BY DEF EmptyLayer
    <3>2. \A j \in 1..Len(<< >>) : ~Matches(<< >>[j], n)
      BY EmptySet
    <3>3. FindWildcard(<< >>, n) = None
      BY <3>2, FindNone
    <3> QED  BY <2>4, <2>7, <3>1, <3>3 DEF Exact
  <2>9. Exact(s.persistent, n) = r
    BY <2>4, <2>5 DEF Exact
  <2>10. Resolve(s, n) = r
    BY <2>3, <2>8, <2>9 DEF Resolve
  <2> QED  BY <2>1, <2>3, <2>10
<1>5. ASSUME NEW n \in Name PROVE ~Outdated(n)'
  <2>1. cache'[n] = None /\ \A t \in Lookup : lookup'[t].pc = "idle"
    BY <1>1 DEF NoLookup
  <2>2. n \in certs' => WantsCert(n)'
    BY <1>1, <1>4 DEF WantsCert
  <2> QED  BY <2>1, <2>2 DEF Outdated, HeldOutdated, CarriedOutdated
<1> QED  BY <1>3, <1>5 DEF Promises, Coherent

LEMMA SubscribePromises == Parts /\ Promises /\ Subscribe => Promises'
<1> SUFFICES ASSUME Parts, Promises, Subscribe PROVE Promises'
  OBVIOUS
<1>1. /\ Track({}, "none") /\ main = "spawned" /\ watch' = [watch EXCEPT !.pc = "recv"]
      /\ UNCHANGED <<store, handler, resolverVars, disk>>
  BY DEF Subscribe
<1>2. watch.pc = "none" /\ watch'.pc = "recv" /\ ~bus["watch"].subscribed
  BY <1>1 DEF Parts, Watching
<1>3. Queued = {} /\ Taken = {}
  <2>1. bus["watch"].queue = << >>
    BY <1>2, WatchAssumption DEF Parts, Connected, Sound
  <2> QED  BY <1>2, <2>1, EmptySet DEF Queued, Taken
<1>4. \A e \in Unhandled : e \in Unhandled'
  BY <1>1, <1>3, FramePublished, UnhandledParts DEF Unhandled, Published
<1>5. ~Saving
  BY <1>2 DEF Saving
<1>6. Unsaved' => Unsaved
  BY <1>1, <1>2, FrameSaved
<1>7. \A n \in Name : Outdated(n)' => Outdated(n)
  BY <1>1, FrameOutdated
<1>8. Alive
  BY <1>1 DEF Alive
<1> QED  BY <1>1, <1>4, <1>5, <1>6, <1>7, <1>8, PersistentAreRules, TrackKeeps DEF Promises

LEMMA WatchExitPromises == Parts /\ Promises /\ Alive /\ WatchExit => Promises'
<1> SUFFICES ASSUME Parts, Promises, Alive, WatchExit PROVE Promises'
  OBVIOUS
<1>1. /\ Track(Queued, "stop") /\ watch.pc = "recv" /\ watch' = [watch EXCEPT !.pc = "done"]
      /\ UNCHANGED <<store, handler, resolverVars, disk>>
  BY DEF WatchExit, Queued
<1>2. watch'.pc = "done"
  BY <1>1 DEF Parts, Watching
<1>3. Taken = {}
  BY <1>1 DEF Taken
<1>4. \A e \in Unhandled : e \in Unhandled' \/ e \in Queued
  BY <1>1, <1>3, FramePublished, UnhandledParts DEF Unhandled, Published
<1>5. ~Saving
  BY <1>1 DEF Saving
<1>6. Unsaved' => Unsaved
  BY <1>1, <1>2, FrameSaved
<1>7. \A n \in Name : Outdated(n)' => Outdated(n)
  BY <1>1, FrameOutdated
<1> HIDE DEF Queued
<1> QED  BY <1>1, <1>4, <1>5, <1>6, <1>7, PersistentAreRules, TrackKeeps DEF Promises

LEMMA WatchLaggedPromises == Parts /\ Promises /\ Alive /\ WatchLagged => Promises'
<1> SUFFICES ASSUME Parts, Promises, Alive, WatchLagged PROVE Promises'
  OBVIOUS
<1>1. /\ Track({}, "none") /\ bus' = [bus EXCEPT !["watch"] = TakeLagged(bus["watch"])]
      /\ UNCHANGED <<store, handler, resolverVars, disk, watch>>
  BY DEF WatchLagged, Receive, daemonVars
<1>2. Queued' = Queued
  <2>1. Sound(bus["watch"])
    BY WatchAssumption DEF Parts, Connected
  <2>2. bus'["watch"].queue = bus["watch"].queue
    BY <1>1, <2>1, TakeSound, PutConnected DEF Parts
  <2> QED  BY <2>2 DEF Queued
<1>3. \A e \in Unhandled : e \in Unhandled'
  <2>1. Published' = Published /\ Taken' = Taken
    BY <1>1, FramePublished, FrameTaken
  <2> QED  BY <1>2, <2>1 DEF Unhandled, Published, Queued, Taken
<1>4. Unsaved' => Unsaved
  BY <1>1, FrameSaved
<1>5. \A n \in Name : Outdated(n)' => Outdated(n)
  BY <1>1, FrameOutdated
<1>6. Saving => Saving'
  BY <1>1, FrameSaving
<1> QED  BY <1>1, <1>3, <1>4, <1>5, <1>6, PersistentAreRules, TrackKeeps DEF Promises

LEMMA WatchRecvPromises == Parts /\ Promises /\ Alive /\ WatchRecv => Promises'
<1> SUFFICES ASSUME Parts, Promises, Alive, WatchRecv PROVE Promises'
  OBVIOUS
<1> DEFINE h == Head(bus["watch"].queue)
<1>1. /\ Track({}, "none") /\ bus' = [bus EXCEPT !["watch"] = TakeMessage(bus["watch"])]
      /\ UNCHANGED <<store, handler, resolverVars, disk>>
      /\ watch.pc = "recv" /\ HasMessage(bus["watch"])
      /\ watch' = IF IsRuleEvent(h)
                  THEN [watch EXCEPT !.pc = "invalidate", !.event = h] ELSE watch
  BY DEF WatchRecv, Receive
<1> HIDE DEF h
<1>2. /\ IsRuleEvent(h) => watch'.pc = "invalidate" /\ watch'.event = h
      /\ watch'.pc # "store"
  BY <1>1 DEF Parts, Watching
<1>3. \A e \in Queued : e = h \/ e \in Queued'
  <2>1. Sound(bus["watch"])
    BY WatchAssumption DEF Parts, Connected
  <2>2. bus'["watch"] = TakeMessage(bus["watch"])
    BY <1>1, <2>1, TakeSound, PutConnected DEF Parts
  <2> QED  BY <1>1, <2>1, <2>2, TakeSound DEF Queued, h
<1>4. \A e \in Unhandled : IsRuleEvent(e) => e \in Unhandled'
  <2>1. Published' = Published /\ Taken = {} /\ (IsRuleEvent(h) => h \in Taken')
    BY <1>1, <1>2, FramePublished DEF Taken
  <2>2. Unhandled' = Published' \cup Queued' \cup Taken'
    BY DEF Unhandled, Published, Queued, Taken
  <2> QED  BY <1>3, <2>1, <2>2, UnhandledParts
<1>5. ~Saving
  BY <1>1 DEF Saving
<1>6. Unsaved' => Unsaved
  BY <1>1, <1>2, FrameSaved
<1>7. \A n \in Name : Outdated(n)' => Outdated(n)
  BY <1>1, FrameOutdated
<1> QED  BY <1>1, <1>4, <1>5, <1>6, <1>7, PersistentAreRules, TrackKeeps DEF Promises

(* The eviction: what it matches is gone, unless a lookup carries it.      *)
LEMMA WatchInvalidatePromises == Parts /\ Promises /\ Alive /\ WatchInvalidate => Promises'
<1> SUFFICES ASSUME Parts, Promises, Alive, WatchInvalidate PROVE Promises'
  OBVIOUS
<1> DEFINE h == watch.event
<1>1. /\ UNCHANGED <<store, bus, handler, lookup, disk, main, lost>>
      /\ watch.pc = "invalidate" /\ h \in RuleEvent
      /\ cache' = [n \in Name |-> IF Matches(h.rule, n) THEN None ELSE cache[n]]
      /\ certs' = {n \in certs : ~Matches(h.rule, n)}
  BY DEF WatchInvalidate, Invalidate, appVars, Parts, Watching
<1>2. /\ watch'.pc = IF IsPersistentEvent(h) THEN "save" ELSE "recv"
      /\ watch'.pc # "invalidate" /\ watch'.pc # "store"
  <2>1. watch' = [watch EXCEPT !.pc = IF IsPersistentEvent(watch.event) THEN "save" ELSE "recv",
                               !.event = None]
    BY DEF WatchInvalidate
  <2> QED  BY <2>1 DEF Parts, Watching
<1>3. /\ Published' = Published /\ Queued' = Queued /\ Taken = {h}
      /\ Unhandled' = Published' \cup Queued' \cup Taken'
  BY <1>1, FramePublished, FrameQueued DEF Unhandled, Published, Queued, Taken
<1>4. \A e \in Unhandled : e = h \/ e \in Unhandled'
  BY <1>3, UnhandledParts
<1>5. Coherent'
  <2> SUFFICES ASSUME NEW n \in Name, Outdated(n)'
               PROVE  excuse'[n] # {} \/ EvictionComing(n)'
    BY DEF Coherent
  <2>1. excuse'[n] = CASE ~Outdated(n)' -> {}
                       [] Matches(h.rule, n) /\ HeldOutdated(n)' -> {}
                       [] Matches(h.rule, n) /\ ~HeldOutdated(n)' /\ CarriedOutdated(n)' -> {"race"}
                       [] OTHER -> excuse[n]
    BY DEF WatchInvalidate
  <2>2. CASE Matches(h.rule, n)
    <3>1. ~HeldOutdated(n)'
      BY <1>1, <2>2 DEF HeldOutdated
    <3>2. CarriedOutdated(n)'
      BY <3>1 DEF Outdated
    <3>3. excuse'[n] = {"race"}
      BY <2>1, <2>2, <3>1, <3>2
    <3> QED  BY <3>3
  <2>3. CASE ~Matches(h.rule, n)
    <3>1. excuse'[n] = excuse[n]
      BY <2>1, <2>3
    <3>2. cache'[n] = cache[n] /\ (n \in certs' <=> n \in certs)
      BY <1>1, <2>3
    <3>3. HeldOutdated(n)' => HeldOutdated(n)
      BY <1>1, <3>2 DEF HeldOutdated, WantsCert
    <3>4. CarriedOutdated(n)' => CarriedOutdated(n)
      BY <1>1 DEF CarriedOutdated, WantsCert
    <3>5. excuse[n] # {} \/ EvictionComing(n)
      BY <3>3, <3>4 DEF Outdated, Promises, Coherent
    <3>6. EvictionComing(n) => EvictionComing(n)'
      BY <1>4, <2>3 DEF EvictionComing
    <3> QED  BY <3>1, <3>5, <3>6
  <2> QED  BY <2>2, <2>3
<1>6. Durable'
  <2> SUFFICES ASSUME Unsaved' PROVE lost' # {} \/ SaveComing'
    BY DEF Durable
  <2>1. Unsaved
    BY <1>1, <1>2, FrameSaved
  <2>2. lost # {} \/ SaveComing
    BY <2>1 DEF Promises, Durable
  <2>3. CASE IsPersistentEvent(h)
    BY <1>2, <2>3 DEF SaveComing
  <2>4. CASE ~IsPersistentEvent(h)
    BY <1>1, <1>4, <2>2, <2>4 DEF SaveComing
  <2> QED  BY <2>3, <2>4
<1> QED  BY <1>5, <1>6 DEF Promises

LEMMA WatchSnapshotPromises == Parts /\ Promises /\ Alive /\ WatchSnapshot => Promises'
<1> SUFFICES ASSUME Parts, Promises, Alive, WatchSnapshot PROVE Promises'
  OBVIOUS
<1>1. /\ UNCHANGED <<store, bus, handler, resolverVars, main, excuse>>
      /\ watch.pc = "save"
      /\ watch' = [watch EXCEPT !.pc = "store", !.rules = PersistentRules(store)]
  BY DEF WatchSnapshot, appVars
<1>2. watch'.pc = "store" /\ watch'.rules = PersistentRules(store)
  BY <1>1 DEF Parts, Watching
<1>3. Holds(watch.rules)'
  BY <1>1, <1>2, SnapshotLoads DEF Holds, Parts
<1>4. Durable'
  BY <1>2, <1>3 DEF Durable, SaveComing
<1>5. \A e \in Unhandled : e \in Unhandled'
  BY <1>1 DEF Unhandled
<1>6. Coherent'
  BY <1>1, <1>5, FrameOutdated DEF Promises, Coherent, EvictionComing, Alive
<1> QED  BY <1>4, <1>6 DEF Promises

LEMMA WatchStorePromises == Parts /\ Promises /\ Alive /\ WatchStore => Promises'
<1> SUFFICES ASSUME Parts, Promises, Alive, WatchStore PROVE Promises'
  OBVIOUS
<1>1. /\ UNCHANGED <<store, bus, handler, resolverVars, main, excuse>>
      /\ watch.pc = "store"
      /\ watch' = [watch EXCEPT !.pc = "recv", !.rules = << >>]
  BY DEF WatchStore, appVars
<1>2. watch'.pc = "recv"
  BY <1>1 DEF Parts, Watching
<1>3. \A e \in Unhandled : e \in Unhandled'
  BY <1>1 DEF Unhandled
<1>4. Coherent'
  BY <1>1, <1>3, FrameOutdated DEF Promises, Coherent, EvictionComing, Alive
<1>5. Durable'
  <2> SUFFICES ASSUME Unsaved' PROVE lost' # {} \/ SaveComing'
    BY DEF Durable
  <2>1. CASE disk' = File(watch.rules) /\ lost' = lost
    <3>1. ~Holds(watch.rules)
      BY <1>1, <1>2, <2>1 DEF Unsaved, Holds, Loaded, File
    <3>2. Unsaved
      BY <1>1, <3>1 DEF Unsaved
    <3>3. lost # {} \/ \E e \in Unhandled : IsPersistentEvent(e)
      BY <1>1, <3>1, <3>2 DEF Promises, Durable, SaveComing
    <3> QED  BY <1>3, <2>1, <3>3 DEF SaveComing
  <2>2. CASE lost' = lost \cup {"save"}
    BY <2>2
  <2> QED  BY <2>1, <2>2 DEF WatchStore
<1> QED  BY <1>4, <1>5 DEF Promises

(* Sending: the event goes to the watch's queue, or is tracked as missed.  *)
LEMMA SendPromises ==
  ASSUME Parts, Promises, Alive, NEW m \in Event, bus' = Send(bus, m), Missed(m),
         UNCHANGED <<store, resolverVars, disk, watch>>,
         \A e \in Published : e \in Published' \/ e = m
  PROVE  Promises'
<1> DEFINE E == MissedBySend(bus["watch"], m)
           why == IF bus["watch"].subscribed THEN "lag" ELSE "unheard"
<1>1. Track(E, why)
  BY DEF Missed
<1>2. \A e : e = m \/ e \in Queued => e \in Queued' \/ e \in E
  <2>1. Sound(bus["watch"])
    BY WatchAssumption DEF Parts, Connected
  <2>2. bus'["watch"] = Deliver(bus["watch"], m)
    BY SendConnected DEF Parts
  <2> QED  BY <2>1, <2>2, DeliverSound DEF Queued
<1> HIDE DEF E, why
<1>3. \A e \in Unhandled : e \in Unhandled' \/ e \in E
  <2>1. Taken' = Taken
    BY FrameTaken
  <2>2. Unhandled' = Published' \cup Queued' \cup Taken'
    BY DEF Unhandled, Published, Queued, Taken
  <2> QED  BY <1>2, <2>1, <2>2, UnhandledParts
<1>4. Unsaved' => Unsaved
  BY FrameSaved
<1>5. \A n \in Name : Outdated(n)' => Outdated(n)
  BY FrameOutdated
<1>6. Saving => Saving'
  BY FrameSaving
<1> QED  BY <1>1, <1>3, <1>4, <1>5, <1>6, PersistentAreRules, TrackKeeps DEF Promises

LEMMA ShutdownPromises == Parts /\ Promises /\ ShutdownRequested => Promises'
<1> SUFFICES ASSUME Parts, Promises, ShutdownRequested PROVE Promises'
  OBVIOUS
<1>1. /\ bus' = Send(bus, DaemonStopped) /\ Missed(DaemonStopped) /\ main = "running"
      /\ UNCHANGED <<store, handler, resolverVars, disk, watch>>
  BY DEF ShutdownRequested
<1>2. Published' = Published /\ Alive
  BY <1>1, FramePublished DEF Alive
<1> QED  BY <1>1, <1>2, RuleEvents, SendPromises

LEMMA ServePublishPromises ==
  ASSUME Parts, Promises, NEW c \in Client, ServePublish(c) PROVE Promises'
<1>1. /\ Alive /\ bus' = Send(bus, handler[c].event) /\ Missed(handler[c].event)
      /\ handler[c].pc = "publish"
      /\ UNCHANGED <<store, resolverVars, disk, watch>>
  BY DEF ServePublish, Publish, daemonVars
<1>2. handler[c].event \in Event
  BY <1>1 DEF Parts, Serving
<1>3. \A x \in Client : x # c => handler'[x] = handler[x]
  BY DEF ServePublish, Publish, Parts, Serving
<1>4. \A e \in Published : e \in Published' \/ e = handler[c].event
  BY <1>3 DEF Published
<1> QED  BY <1>1, <1>2, <1>4, SendPromises

(* Steps that touch neither the store, the caches nor the watch. *)
LEMMA QuietPromises ==
  ASSUME Parts, Promises, Alive, Track({}, "none"),
         UNCHANGED <<store, bus, disk, watch>>,
         \A n \in Name : Outdated(n)' => Outdated(n),
         \A x \in Client : handler[x].pc = "publish" => handler'[x] = handler[x]
  PROVE  Promises'
<1>1. \A e \in Published : e \in Published'
  BY DEF Published
<1>2. \A e \in Unhandled : e \in Unhandled'
  <2>1. Taken' = Taken /\ Queued' = Queued
    BY FrameTaken, FrameQueued
  <2>2. Unhandled' = Published' \cup Queued' \cup Taken'
    BY DEF Unhandled, Published, Queued, Taken
  <2> QED  BY <1>1, <2>1, <2>2, UnhandledParts
<1>3. Unsaved' => Unsaved
  BY FrameSaved
<1>4. Saving => Saving'
  BY FrameSaving
<1> QED  BY <1>2, <1>3, <1>4, PersistentAreRules, TrackKeeps DEF Promises

LEMMA SignalPromises == Parts /\ Promises /\ Signal => Promises'
<1> SUFFICES ASSUME Parts, Promises, Signal PROVE Promises'
  OBVIOUS
<1>1. /\ Alive /\ Track({}, "none") /\ UNCHANGED <<store, bus, handler, resolverVars, disk, watch>>
  BY DEF Signal, Alive
<1> QED  BY <1>1, FrameOutdated, QuietPromises

LEMMA ServeStopPromises ==
  ASSUME Parts, Promises, NEW c \in Client, ServeStop(c) PROVE Promises'
<1>1. /\ Alive /\ Track({}, "none") /\ UNCHANGED <<store, bus, resolverVars, disk, watch>>
  BY DEF ServeStop, Stop, daemonVars
<1>2. \A x \in Client : handler[x].pc = "publish" => handler'[x] = handler[x]
  BY DEF ServeStop, Stop, Parts, Serving
<1> QED  BY <1>1, <1>2, FrameOutdated, QuietPromises

LEMMA ServeCancelPromises ==
  ASSUME Parts, Promises, NEW c \in Client, ServeCancel(c) PROVE Promises'
<1>1. /\ Alive /\ Track({}, "none") /\ UNCHANGED <<store, bus, resolverVars, disk, watch>>
  BY DEF ServeCancel, CancelToken, daemonVars
<1>2. \A x \in Client : handler[x].pc = "publish" => handler'[x] = handler[x]
  BY DEF ServeCancel, CancelToken, Parts, Serving
<1> QED  BY <1>1, <1>2, FrameOutdated, QuietPromises

-----------------------------------------------------------------------------
(* Lookups and mutations. *)

(* A lookup never makes a name outdated: it carries on what was held, or   *)
(* writes down what it carried.                                            *)
LEMMA LookupKeeps ==
  ASSUME Parts, NEW t \in Lookup, LookupStep(t), NEW n \in Name, Outdated(n)'
  PROVE  Outdated(n)
<1>0. /\ cache \in [Name -> Rule \cup {None}] /\ certs \subseteq Name /\ UNCHANGED store
      /\ \A x \in Lookup : Underway(lookup[x])
  BY DEF Parts, Looking, ResolverTypeOK, Underway, LookupRecord, LookupStep, appVars
<1>1. WantsCert(n)' = WantsCert(n) /\ Resolve(store', n) = Resolve(store, n)
  BY <1>0 DEF WantsCert
<1> DEFINE carries(l) ==
             /\ l.name = n
             /\ \/ l.pc = "fill" /\ l.rule # Resolve(store, n)
                \/ l.pc = "sign" /\ ~WantsCert(n)
<1>2. CarriedOutdated(n) <=> \E x \in Lookup : carries(lookup[x])
  BY DEF CarriedOutdated
<1>3. CarriedOutdated(n)' <=> \E x \in Lookup : carries(lookup'[x])
  BY <1>0, <1>1 DEF CarriedOutdated
<1>4. \A x \in Lookup : x # t => lookup'[x] = lookup[x]
  <2>1. \E l : lookup' = [lookup EXCEPT ![t] = l]
    BY DEF LookupStep, CacheMiss, CacheHit, ReadStore, Fill, Sign
  <2> QED  BY <2>1 DEF Parts, Looking, ResolverTypeOK
<1>5. ~carries(NoLookup)
  BY DEF NoLookup
<1>6. /\ HeldOutdated(n) <=> \/ cache[n] # None /\ cache[n] # Resolve(store, n)
                             \/ n \in certs /\ ~WantsCert(n)
      /\ HeldOutdated(n)' <=> \/ cache'[n] # None /\ cache'[n] # Resolve(store, n)
                              \/ n \in certs' /\ ~WantsCert(n)
  BY <1>0, <1>1 DEF HeldOutdated
<1>7. lookup \in [Lookup -> LookupRecord]
  BY DEF Parts, Looking, ResolverTypeOK, LookupRecord
<1>8. (Outdated(n) <=> HeldOutdated(n) \/ CarriedOutdated(n)) /\ (HeldOutdated(n)' \/ CarriedOutdated(n)')
  BY DEF Outdated
<1> HIDE DEF carries
<1>9. ASSUME NEW k \in Name, NEW tls \in BOOLEAN, CacheMiss(t, k, tls) PROVE Outdated(n)
  <2>1. ~carries(lookup'[t]) /\ UNCHANGED <<cache, certs>>
    BY <1>7, <1>9 DEF CacheMiss, carries
  <2> QED  BY <1>2, <1>3, <1>4, <1>6, <1>8, <2>1
<1>10. ASSUME NEW k \in Name, CacheHit(t, k) PROVE Outdated(n)
  <2>1. UNCHANGED <<cache, certs>> /\ cache[k] # None /\ cache[k].https
        /\ lookup'[t] = [pc |-> "sign", name |-> k, rule |-> cache[k], tls |-> TRUE]
    BY <1>7, <1>10 DEF CacheHit
  <2>2. carries(lookup'[t]) => HeldOutdated(n)
    <3> SUFFICES ASSUME carries(lookup'[t]) PROVE HeldOutdated(n)
      OBVIOUS
    <3>1. k = n /\ ~WantsCert(n)
      BY <2>1 DEF carries
    <3>2. cache[n] # Resolve(store, n)
      BY <2>1, <3>1 DEF WantsCert
    <3> QED  BY <1>6, <2>1, <3>1, <3>2
  <2> QED  BY <1>2, <1>3, <1>4, <1>6, <1>8, <2>1, <2>2
<1>11. ASSUME ReadStore(t) PROVE Outdated(n)
  <2> DEFINE rule == Resolve(store, lookup[t].name)
  <2>1. /\ UNCHANGED <<cache, certs>>
        /\ lookup'[t] = IF rule = None THEN NoLookup
                        ELSE [lookup[t] EXCEPT !.pc = "fill", !.rule = rule]
    BY <1>7, <1>11 DEF ReadStore
  <2>2. ~carries(lookup'[t])
    <3>1. CASE rule = None
      BY <1>5, <2>1, <3>1
    <3>2. CASE rule # None
      <4> HIDE DEF rule
      <4>1. /\ lookup'[t].pc = "fill" /\ lookup'[t].rule = rule
            /\ lookup'[t].name = lookup[t].name
        BY <1>7, <2>1, <3>2 DEF LookupRecord
      <4> QED  BY <4>1 DEF carries, rule
    <3> QED  BY <3>1, <3>2
  <2> QED  BY <1>2, <1>3, <1>4, <1>6, <1>8, <2>1, <2>2
<1>12. ASSUME Fill(t) PROVE Outdated(n)
  <2> DEFINE l == lookup[t]
  <2>1. /\ UNCHANGED certs /\ l.pc = "fill" /\ cache' = [cache EXCEPT ![l.name] = l.rule]
        /\ lookup'[t] = IF l.tls /\ l.rule.https THEN [l EXCEPT !.pc = "sign"] ELSE NoLookup
    BY <1>7, <1>12 DEF Fill
  <2>2. l.rule \in Rule /\ l.rule # None /\ l.name \in Name /\ l \in LookupRecord
    BY <1>0, <2>1, NoneAssumption DEF Underway
  <2> HIDE DEF l
  <2>3. CASE l.name # n
    <3>1. cache'[n] = cache[n]
      BY <1>0, <2>1, <2>3
    <3>2. ~carries(lookup'[t])
      BY <1>5, <2>1, <2>2, <2>3 DEF carries, LookupRecord
    <3> QED  BY <1>2, <1>3, <1>4, <1>6, <1>8, <2>1, <3>1, <3>2
  <2>4. CASE l.name = n /\ l.rule # Resolve(store, n)
    <3>1. carries(l)
      BY <2>1, <2>4 DEF carries
    <3> QED  BY <1>2, <1>8, <3>1 DEF l
  <2>5. CASE l.name = n /\ l.rule = Resolve(store, n)
    <3>1. cache'[n] = Resolve(store, n)
      BY <1>0, <2>1, <2>5
    <3>2. ~carries(lookup'[t])
      <4>1. CASE l.tls /\ l.rule.https
        <5>1. WantsCert(n)
          BY <2>2, <2>5, <4>1 DEF WantsCert
        <5>2. lookup'[t].pc = "sign"
          BY <2>1, <2>2, <4>1 DEF LookupRecord
        <5> QED  BY <5>1, <5>2 DEF carries
      <4>2. CASE ~(l.tls /\ l.rule.https)
        BY <1>5, <2>1, <4>2
      <4> QED  BY <4>1, <4>2
    <3> QED  BY <1>2, <1>3, <1>4, <1>6, <1>8, <2>1, <3>1, <3>2
  <2> QED  BY <2>3, <2>4, <2>5
<1>13. ASSUME Sign(t) PROVE Outdated(n)
  <2>1. /\ UNCHANGED cache /\ lookup[t].pc = "sign" /\ lookup'[t] = NoLookup
        /\ certs' \subseteq certs \cup {lookup[t].name}
    BY <1>7, <1>13 DEF Sign
  <2>2. n \in certs' /\ ~WantsCert(n) => n \in certs \/ carries(lookup[t])
    BY <2>1 DEF carries
  <2> QED  BY <1>2, <1>3, <1>4, <1>5, <1>6, <1>8, <2>1, <2>2
<1> QED  BY <1>9, <1>10, <1>11, <1>12, <1>13 DEF LookupStep

LEMMA ServeLookupPromises ==
  ASSUME Parts, Promises, NEW t \in Lookup, ServeLookup(t) PROVE Promises'
<1>1. /\ Alive /\ Track({}, "none") /\ UNCHANGED <<store, bus, handler, disk, watch>>
      /\ LookupStep(t)
  BY DEF ServeLookup, LookupStep, appVars, daemonVars
<1>2. \A n \in Name : Outdated(n)' => Outdated(n)
  BY <1>1, LookupKeeps
<1> QED  BY <1>1, <1>2, QuietPromises

(* Removing an exact rule changes the answer for its own name only: there  *)
(* is no wildcard of that domain for swap_remove to move.                  *)
LEMMA RemoveFromLocal ==
  ASSUME NEW layer \in Layer, LayerWellFormed(layer), NEW d \in Domain, ~IsWildcard(d),
         RemoveFrom(layer, d).removed # None,
         NEW n, ~Matches(RemoveFrom(layer, d).removed, n)
  PROVE  /\ Exact(RemoveFrom(layer, d).layer, n) = Exact(layer, n)
         /\ RemoveFrom(layer, d).layer.wildcard = layer.wildcard
<1>1. Positions(layer.wildcard, d) = {}
  BY DEF Positions, LayerWellFormed
<1>2. /\ RemoveFrom(layer, d).layer = [layer EXCEPT !.exact[d] = None]
      /\ RemoveFrom(layer, d).removed = layer.exact[d]
  BY <1>1 DEF RemoveFrom
<1>3. layer.exact[d].domain = d
  BY <1>2 DEF LayerWellFormed
<1>4. n # d
  BY <1>2, <1>3 DEF Matches
<1> QED  BY <1>2, <1>4 DEF Exact, Layer

LEMMA RemoveExactLocal ==
  ASSUME NEW o \in Op, o.kind \in {"remove", "remove_ephemeral"}, ~IsWildcard(o.domain),
         NEW s \in Store, WellFormed(s), Apply(o, s).result # None,
         NEW n, ~Matches(Apply(o, s).result, n)
  PROVE  Resolve(Apply(o, s).store, n) = Resolve(s, n)
<1>1. /\ o.domain \in Domain /\ s.ephemeral \in Layer /\ s.persistent \in Layer
      /\ LayerWellFormed(s.ephemeral) /\ LayerWellFormed(s.persistent)
  BY DEF Op, Store, WellFormed
<1>2. CASE o.kind = "remove"
  <2> DEFINE gone == RemoveFrom(s.persistent, o.domain)
  <2>1. Apply(o, s).store = RemoveRule(s, o.domain) /\ Apply(o, s).result = gone.removed
    BY <1>2 DEF Apply
  <2>2. /\ RemoveRule(s, o.domain).ephemeral = s.ephemeral
        /\ RemoveRule(s, o.domain).persistent = gone.layer
    BY DEF RemoveRule, Store
  <2>3. Exact(gone.layer, n) = Exact(s.persistent, n) /\ gone.layer.wildcard = s.persistent.wildcard
    BY <1>1, <2>1, RemoveFromLocal
  <2> HIDE DEF gone
  <2> QED  BY <2>1, <2>2, <2>3, ResolveSame
<1>3. CASE o.kind = "remove_ephemeral"
  <2> DEFINE gone == RemoveFrom(s.ephemeral, o.domain)
  <2>1. Apply(o, s).store = RemoveEphemeral(s, o.domain) /\ Apply(o, s).result = gone.removed
    BY <1>3 DEF Apply
  <2>2. /\ RemoveEphemeral(s, o.domain).persistent = s.persistent
        /\ RemoveEphemeral(s, o.domain).ephemeral = gone.layer
    BY DEF RemoveEphemeral, Store
  <2>3. Exact(gone.layer, n) = Exact(s.ephemeral, n) /\ gone.layer.wildcard = s.ephemeral.wildcard
    BY <1>1, <2>1, RemoveFromLocal
  <2> HIDE DEF gone
  <2> QED  BY <2>1, <2>2, <2>3, ResolveSame
<1> QED  BY <1>2, <1>3

(* Only a persistent request changes the persistent rules. *)
LEMMA PersistentChange ==
  ASSUME NEW o \in Op, NEW s \in Store, Apply(o, s).store.persistent # s.persistent
  PROVE  EventKind(o) \in {"RuleAdded", "RuleRemoved"}
<1>1. CASE o.kind \in {"add", "remove"}
  BY <1>1 DEF EventKind
<1>2. CASE o.kind = "add_ephemeral"
  <2>1. Apply(o, s).store = AddEphemeral(s, o.rule)
    BY <1>2 DEF Apply
  <2> QED  BY <2>1 DEF AddEphemeral, Store
<1>3. CASE o.kind = "remove_ephemeral"
  <2>1. Apply(o, s).store = RemoveEphemeral(s, o.domain)
    BY <1>3 DEF Apply
  <2> QED  BY <2>1 DEF RemoveEphemeral, Store
<1> QED  BY <1>1, <1>2, <1>3 DEF Op

(* A mutation: the names whose answer changes are those its event will     *)
(* evict, or a removed wildcard reordered the others.                      *)
LEMMA ServeMutatePromises ==
  ASSUME Parts, Promises, NEW c \in Client, NEW o \in Request, ServeMutate(c, o)
  PROVE  Promises'
<1> DEFINE done == Apply(o, store)
           event == handler'[c].event
<1>0. o \in Op /\ store \in Store /\ WellFormed(store)
  BY RequestAssumption DEF Parts, Stored
<1>1. /\ handler[c].pc = "idle" /\ store' = done.store /\ UNCHANGED <<bus, token>>
      /\ handler' = [handler EXCEPT ![c] = handler'[c]]
      /\ \/ done.result = None
         \/ /\ done.result \in Rule
            /\ handler'[c].pc = "publish" /\ event \in RuleEvent
            /\ event.kind = EventKind(o) /\ event.rule = done.result
  BY MutateParts DEF ServeMutate
<1>2. UNCHANGED <<resolverVars, main, watch, disk>> /\ Alive
  BY DEF ServeMutate, daemonVars
<1>3. \A e \in Unhandled : e \in Unhandled'
  <2>1. \A x \in Client : handler[x].pc = "publish" => handler'[x] = handler[x]
    BY <1>1 DEF Parts, Serving
  <2>2. \A e \in Published : e \in Published'
    BY <2>1 DEF Published
  <2>3. Taken' = Taken /\ Queued' = Queued
    BY <1>1, <1>2, FrameTaken, FrameQueued
  <2>4. Unhandled' = Published' \cup Queued' \cup Taken'
    BY DEF Unhandled, Published, Queued, Taken
  <2> QED  BY <2>2, <2>3, <2>4, UnhandledParts
<1>4. done.result # None => event \in Unhandled' /\ event \in Event /\ IsRuleEvent(event)
  <2> SUFFICES ASSUME done.result # None
               PROVE  event \in Unhandled' /\ event \in Event /\ IsRuleEvent(event)
    OBVIOUS
  <2>1. handler'[c].pc = "publish" /\ event \in Event /\ event \in RuleEvent
    BY <1>1 DEF Event
  <2>2. event \in Published'
    BY <2>1 DEF Published
  <2> QED  BY <2>1, <2>2, RuleEvents DEF Unhandled, Published
<1>5. done.result = None => done.store = store
  BY <1>0, NoneLeavesStore
<1> HIDE DEF done, event
<1>6. Coherent'
  <2> SUFFICES ASSUME NEW n \in Name, Outdated(n)'
               PROVE  excuse'[n] # {} \/ EvictionComing(n)'
    BY DEF Coherent
  <2> DEFINE reordered == /\ Outdated(n)'
                          /\ o.kind \in {"remove", "remove_ephemeral"} /\ IsWildcard(o.domain)
                          /\ Resolve(store, n) # Resolve(store', n)
                          /\ ~Matches(handler'[c].event.rule, n)
  <2>1. excuse'[n] = CASE ~Outdated(n)' -> {}
                       [] reordered -> excuse[n] \cup {"reorder"}
                       [] OTHER -> excuse[n]
    BY DEF ServeMutate
  <2>2. CASE Resolve(store', n) = Resolve(store, n)
    <3>1. Outdated(n)
      BY <1>2, <2>2 DEF resolverVars, Outdated, HeldOutdated, CarriedOutdated, WantsCert
    <3>2. excuse[n] # {} \/ EvictionComing(n)
      BY <1>2, <3>1 DEF Promises, Coherent
    <3>3. EvictionComing(n) => EvictionComing(n)'
      BY <1>3 DEF EvictionComing
    <3>4. excuse'[n] = excuse[n]
      BY <2>1, <2>2
    <3> QED  BY <3>2, <3>3, <3>4
  <2>3. CASE Resolve(store', n) # Resolve(store, n)
    <3>1. done.result # None
      BY <1>1, <1>5, <2>3
    <3>2. CASE Matches(done.result, n)
      <4>1. event \in Unhandled' /\ IsRuleEvent(event) /\ Matches(event.rule, n)
        BY <1>1, <1>4, <3>1, <3>2
      <4> QED  BY <4>1 DEF EvictionComing
    <3>3. CASE ~Matches(done.result, n)
      <4>1. ~(o.kind \in {"add", "add_ephemeral"})
        <5> SUFFICES ASSUME o.kind \in {"add", "add_ephemeral"} PROVE FALSE
          OBVIOUS
        <5>1. done.result = o.rule
          BY DEF Apply, done
        <5>2. Resolve(done.store, n) = Resolve(store, n)
          BY <1>0, <3>3, <5>1, AddLocal DEF done
        <5> QED  BY <1>1, <2>3, <5>2
      <4>2. o.kind \in {"remove", "remove_ephemeral"}
        BY <1>0, <4>1 DEF Op
      <4>3. IsWildcard(o.domain)
        <5> SUFFICES ASSUME ~IsWildcard(o.domain) PROVE FALSE
          OBVIOUS
        <5>1. Resolve(done.store, n) = Resolve(store, n)
          BY <1>0, <3>1, <3>3, <4>2, RemoveExactLocal DEF done
        <5> QED  BY <1>1, <2>3, <5>1
      <4>4. reordered
        BY <1>1, <2>3, <3>1, <3>3, <4>2, <4>3 DEF event
      <4> HIDE DEF reordered
      <4>5. excuse'[n] = excuse[n] \cup {"reorder"}
        BY <2>1, <4>4
      <4> QED  BY <4>5
    <3> QED  BY <3>2, <3>3
  <2> QED  BY <2>2, <2>3
<1>7. Durable'
  <2> SUFFICES ASSUME Unsaved' PROVE lost' # {} \/ SaveComing'
    BY DEF Durable
  <2>1. lost' = lost
    BY DEF ServeMutate
  <2>2. CASE store'.persistent = store.persistent
    <3>1. Unsaved
      BY <1>2, <2>2 DEF Unsaved, Holds
    <3>2. lost # {} \/ SaveComing
      BY <1>2, <3>1 DEF Promises, Durable
    <3>3. SaveComing => SaveComing'
      BY <1>2, <1>3, <2>2 DEF SaveComing, Holds
    <3> QED  BY <2>1, <3>2, <3>3
  <2>3. CASE store'.persistent # store.persistent
    <3>1. done.result # None
      BY <1>1, <1>5, <2>3
    <3>2. EventKind(o) \in {"RuleAdded", "RuleRemoved"}
      BY <1>0, <1>1, <2>3, PersistentChange DEF done
    <3>3. IsPersistentEvent(event) /\ event \in Unhandled'
      BY <1>1, <1>4, <3>1, <3>2 DEF IsPersistentEvent
    <3> QED  BY <3>3 DEF SaveComing
  <2> QED  BY <2>2, <2>3
<1> QED  BY <1>6, <1>7 DEF Promises

LEMMA EndPromises == Exit \/ Crash => Promises'
BY DEF Exit, Crash, Promises, Coherent, Durable, Alive

LEMMA FramePromises == Promises /\ UNCHANGED vars => Promises'
<1> SUFFICES ASSUME Promises, UNCHANGED vars PROVE Promises'
  OBVIOUS
<1>1. \A n \in Name : Outdated(n)' = Outdated(n)
  BY FrameOutdated DEF vars, appVars
<1>2. Unhandled' = Unhandled
  BY DEF Unhandled, vars, appVars, daemonVars
<1>3. Coherent'
  BY <1>1, <1>2 DEF Promises, Coherent, EvictionComing, Alive, vars, daemonVars
<1>4. Durable'
  BY <1>2 DEF Promises, Durable, SaveComing, Unsaved, Holds, Alive, vars, appVars, daemonVars
<1> QED  BY <1>3, <1>4 DEF Promises

LEMMA NextPromises == Parts /\ Promises /\ [Next]_vars => Promises'
<1> SUFFICES ASSUME Parts, Promises, [Next]_vars PROVE Promises'
  OBVIOUS
<1>1. CASE Boot \/ Subscribe \/ ShutdownRequested \/ Signal \/ Exit \/ Crash
  BY <1>1, BootPromises, SubscribePromises, ShutdownPromises, SignalPromises, EndPromises
<1>2. CASE WatchStep
  BY <1>2, WatchExitPromises, WatchLaggedPromises, WatchRecvPromises, WatchInvalidatePromises,
     WatchSnapshotPromises, WatchStorePromises
     DEF WatchStep
<1>3. ASSUME NEW c \in Client,
             (\E o \in Request : ServeMutate(c, o)) \/ ServeStop(c) \/ HandlerStep(c)
      PROVE  Promises'
  BY <1>3, ServeMutatePromises, ServeStopPromises, ServePublishPromises, ServeCancelPromises
     DEF HandlerStep
<1>4. ASSUME NEW t \in Lookup, ServeLookup(t) PROVE Promises'
  BY <1>4, ServeLookupPromises
<1>5. CASE UNCHANGED vars
  BY <1>5, FramePromises
<1> QED  BY <1>1, <1>2, <1>3, <1>4, <1>5 DEF Next

(* Inv is what the run checks and what the lemmas above keep. *)
LEMMA InvIsParts == Inv <=> Parts /\ Promises
BY PartsOfInv DEF Inv, Promises

(* Whatever a cache, the certificate cache or a lookup in flight holds     *)
(* about a name agrees with the store, or its eviction (runner.rs:85,      *)
(* resolver.rs:54) is on its way, or one of the five recorded accidents    *)
(* happened: there is no sixth, for any names, rules, clients, lookups and *)
(* capacity.                                                               *)
THEOREM AlwaysCoherent == Spec => []Coherent
<1>1. Promises => Coherent
  BY DEF Promises
<1> QED  BY <1>1, InitParts, NextParts, InitPromises, NextPromises, PTL DEF Spec

(* The rules file holds the persistent rules, or a save that will write    *)
(* them (runner.rs:94) is on its way, or the watch lagged, was not         *)
(* subscribed or stopped with the event waiting, or a save failed: nothing *)
(* else ever loses a change, crashes and restarts included.                *)
THEOREM AlwaysDurable == Spec => []Durable
<1>1. Promises => Durable
  BY DEF Promises
<1> QED  BY <1>1, InitParts, NextParts, InitPromises, NextPromises, PTL DEF Spec

-----------------------------------------------------------------------------
(* Restarts. *)

(* Durable of the last life, while no daemon is there. *)
AtRest == ~Alive /\ boots > 0 /\ Unsaved => lost # {} \/ SaveComing

LEMMA InitAtRest == Init => AtRest
BY DEF Init, AtRest

(* An exit changes nothing that AtRest speaks of; a crash may only write   *)
(* the file in the middle of a save.                                       *)
LEMMA EndAtRest == Durable /\ (Exit \/ Crash) => AtRest'
<1> SUFFICES ASSUME Durable, Exit \/ Crash, Unsaved' PROVE lost' # {} \/ SaveComing'
  BY DEF AtRest
<1>1. /\ Alive /\ UNCHANGED <<store, watch, lost>> /\ Unhandled' = Unhandled
      /\ disk' = disk \/ watch.pc = "store"
  BY DEF Exit, Crash, Alive, appVars, Unhandled
<1>2. SaveComing' = SaveComing
  BY <1>1 DEF SaveComing, Holds
<1>3. CASE watch.pc = "store" /\ Holds(watch.rules)
  BY <1>2, <1>3 DEF SaveComing
<1>4. CASE ~(watch.pc = "store" /\ Holds(watch.rules))
  <2>1. Unsaved
    BY <1>1, <1>4 DEF Unsaved, Holds
  <2> QED  BY <1>1, <1>2, <2>1 DEF Durable
<1> QED  BY <1>3, <1>4

(* Everything but an exit, a crash and a step that changes nothing leaves  *)
(* a daemon alive.                                                         *)
LEMMA StaysAlive == Next => Alive' \/ Exit \/ Crash
<1> SUFFICES ASSUME Next PROVE Alive' \/ Exit \/ Crash
  OBVIOUS
<1>1. CASE Boot \/ Subscribe \/ ShutdownRequested \/ Signal \/ Exit \/ Crash
  BY <1>1 DEF Boot, Subscribe, ShutdownRequested, Signal, Alive
<1>2. CASE WatchStep
  BY <1>2 DEF WatchStep, WatchExit, WatchLagged, WatchRecv, WatchInvalidate, WatchSnapshot,
              WatchStore, Alive, daemonVars
<1>3. ASSUME NEW c \in Client,
             (\E o \in Request : ServeMutate(c, o)) \/ ServeStop(c) \/ HandlerStep(c)
      PROVE  Alive'
  BY <1>3 DEF ServeMutate, ServeStop, HandlerStep, ServePublish, ServeCancel, Alive, daemonVars
<1>4. ASSUME NEW t \in Lookup, ServeLookup(t) PROVE Alive'
  BY <1>4 DEF ServeLookup, Alive, daemonVars
<1> QED  BY <1>1, <1>2, <1>3, <1>4 DEF Next

LEMMA NextAtRest == Durable /\ AtRest /\ [Next]_vars => AtRest'
<1> SUFFICES ASSUME Durable, AtRest, [Next]_vars PROVE AtRest'
  OBVIOUS
<1>1. CASE Exit \/ Crash
  BY <1>1, EndAtRest
<1>2. CASE Alive'
  BY <1>2 DEF AtRest
<1>3. CASE UNCHANGED vars
  BY <1>3 DEF AtRest, Alive, SaveComing, Unsaved, Holds, Unhandled, vars, appVars, daemonVars
<1> QED  BY <1>1, <1>2, <1>3, StaysAlive

(* What RestartKeepsRules asks of a step. *)
KeepsRules ==
  /\ main \in {"down", "exited"} /\ main' = "spawned"
  /\ boots > 0 /\ lost = {} /\ ~SaveComing
  => store' = [EmptyStore EXCEPT !.persistent = store.persistent]

LEMMA BootKeepsRules == Parts /\ AtRest /\ Boot => KeepsRules
<1> SUFFICES ASSUME Parts, AtRest, Boot, boots > 0, lost = {}, ~SaveComing
             PROVE  store' = [EmptyStore EXCEPT !.persistent = store.persistent]
  BY DEF KeepsRules
<1> DEFINE rules == Loaded(disk)
           s == AddAll(EmptyStore, rules)
<1>1. store' = s /\ ~Alive
  BY DEF Boot, Alive
<1>2. s.persistent = store.persistent
  BY <1>1 DEF AtRest, Unsaved, Holds
<1>3. rules \in Seq(Rule)
  BY EmptyLoads DEF Parts, Written, Loaded
<1>4. s.ephemeral = EmptyLayer
  BY <1>3, LoadsPersistent
<1>5. s \in Store
  <2> HIDE DEF rules
  <2> QED  BY <1>3, EmptyStoreLemma, EmptyFinite, AddAllLemma
<1> HIDE DEF s
<1>6. s = [ephemeral |-> EmptyLayer, persistent |-> store.persistent]
  BY <1>2, <1>4, <1>5 DEF Store
<1> QED  BY <1>1, <1>6 DEF EmptyStore

(* No other step starts a daemon. *)
LEMMA OnlyBootStarts ==
  [Next]_vars /\ main \in {"down", "exited"} /\ main' = "spawned" => Boot
<1> SUFFICES ASSUME [Next]_vars, main \in {"down", "exited"}, main' = "spawned" PROVE Boot
  OBVIOUS
<1>0. CASE UNCHANGED vars
  BY <1>0 DEF vars, daemonVars
<1>1. ~Alive
  BY DEF Alive
<1>2. ~WatchStep /\ \A t \in Lookup : ~ServeLookup(t)
  BY <1>1 DEF WatchStep, ServeLookup
<1>3. \A c \in Client : /\ \A o \in Request : ~ServeMutate(c, o)
                        /\ ~ServeStop(c) /\ ~HandlerStep(c)
  BY <1>1 DEF ServeMutate, ServeStop, HandlerStep, ServePublish, ServeCancel
<1>4. ~Subscribe /\ ~ShutdownRequested /\ ~Signal /\ ~Exit /\ ~Crash
  BY <1>1 DEF Subscribe, ShutdownRequested, Signal, Exit, Crash
<1>5. CASE Next
  BY <1>2, <1>3, <1>4, <1>5 DEF Next
<1> QED  BY <1>0, <1>5

(* A restart (state.rs:67) gives back the persistent rules of the last     *)
(* daemon, order included, and nothing of its ephemeral layer, however it  *)
(* ended, unless one of the four accidents is on record or the crash came  *)
(* before a save that was on its way: for any rules, clients and number of *)
(* restarts.                                                               *)
THEOREM RestartsKeepRules == Spec => RestartKeepsRules
<1>1. Promises => Durable
  BY DEF Promises
<1>2. Parts /\ AtRest /\ [Next]_vars => [KeepsRules]_vars
  BY BootKeepsRules, OnlyBootStarts DEF KeepsRules
<1>3. [][KeepsRules]_vars => RestartKeepsRules
  BY DEF RestartKeepsRules, KeepsRules
<1> QED  BY <1>1, <1>2, <1>3, InitParts, NextParts, InitPromises, NextPromises,
            InitAtRest, NextAtRest, PTL DEF Spec
=============================================================================
