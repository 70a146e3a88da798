--------------------------- MODULE SystemDns_proof ---------------------------
(***************************************************************************)
(* Proof that the system's routes follow the rules for every capacity of   *)
(* the event channel, any clients and any interleaving with failures,      *)
(* crashes, restarts and `sidedns clean`.                                  *)
(***************************************************************************)
EXTENDS SystemDns, InnerRuleStore_proof

M == "manager"

(* The types the argument needs. *)
Types ==
  /\ store \in Store /\ WellFormed(store)
  /\ bus \in [Receiver -> ReceiverOf(Event)]
  /\ token \in BOOLEAN
  /\ handler \in [Client -> [pc : {"idle", "publish", "cancel"},
                             event : Event \cup {None}]]
  /\ \A c \in Client : handler[c].pc = "publish" => handler[c].event \in Event
  /\ mgr \in [pc : MgrPc, domains : SUBSET Domain, todo : SUBSET Domain]

ApplyPc == {"snapshot", "write", "reload", "fill", "recv"}

Listening == process # "down" /\ mgr.pc \in ApplyPc
Applying == process # "down" /\ mgr.pc \in {"write", "reload", "fill", "recv"}
Written == process # "down" /\ mgr.pc \in {"reload", "recv"} /\ ~tampered

(* The receiver is there from the subscription on. *)
Subscribed == Listening => bus[M].subscribed

(* DaemonStopped is on the channel only while a stop is under way. *)
StopsAnnounced ==
  process # "down" /\ (\E i \in 1..Len(bus[M].queue) :
                         bus[M].queue[i].kind = "DaemonStopped") => Stopping

(* The snapshot being applied is the store's, or it will be taken again. *)
SnapshotCurrent ==
  Applying /\ ~Stopping => mgr.domains = AllDomains(store) \/ ApplyComing

(* What was written is the snapshot, and what was loaded what was written. *)
FileWritten == Written => file = Config(platform, Routes(platform, mgr.domains))
FileLoaded == Written /\ mgr.pc = "recv" => live = file

(* While entries are added, those of the snapshot that are not to come are *)
(* there, and no others.                                                   *)
Filling ==
  /\ process # "down" /\ mgr.pc = "write" => mgr.todo = mgr.domains
  /\ process # "down" /\ mgr.pc = "fill" =>
       /\ platform \in Tables /\ mgr.todo \subseteq mgr.domains
       /\ ~tampered =>
            file = Config(platform, Routes(platform, mgr.domains \ mgr.todo))

(* Entries are in force as soon as they are written. *)
Entries ==
  platform \in Tables => live = file /\ file = Config(platform, file.routes)

Inv == /\ Types /\ Subscribed /\ StopsAnnounced /\ SnapshotCurrent
       /\ FileWritten /\ FileLoaded /\ Filling /\ Entries

-----------------------------------------------------------------------------

(* The snapshot holds domains. *)
LEMMA AllDomainsLemma ==
  ASSUME NEW s \in Store PROVE AllDomains(s) \in SUBSET Domain
<1>1. ASSUME NEW layer \in Layer PROVE LayerDomains(layer) \subseteq Domain
  <2>1. /\ \A d \in Domain : layer.exact[d] \in Rule \cup {None}
        /\ \A i \in 1..Len(layer.wildcard) : layer.wildcard[i] \in Rule
    BY <1>1 DEF Layer
  <2>2. \A r \in Rule : r.domain \in Domain
    BY DEF Rule
  <2>3. QED
    BY <2>1, <2>2 DEF LayerDomains
<1>2. QED
  BY <1>1 DEF AllDomains, Store

(* Delivering a message to a subscribed receiver: it is on the queue, and  *)
(* every other message there was on the queue before, whether or not the   *)
(* channel was full.                                                       *)
LEMMA DeliverLemma ==
  ASSUME NEW rx \in ReceiverOf(Event), NEW m \in Event
  PROVE  /\ Deliver(rx, m) \in ReceiverOf(Event)
         /\ Deliver(rx, m).subscribed = rx.subscribed
         /\ rx.subscribed => \E i \in 1..Len(Deliver(rx, m).queue) :
                               Deliver(rx, m).queue[i] = m
         /\ \A i \in 1..Len(Deliver(rx, m).queue) :
              \/ Deliver(rx, m).queue[i] = m
              \/ \E j \in 1..Len(rx.queue) : Deliver(rx, m).queue[i] = rx.queue[j]
<1>0. rx.queue \in Seq(Event) /\ rx.subscribed \in BOOLEAN /\ rx.lagged \in BOOLEAN
  BY DEF ReceiverOf
<1>1. CASE ~rx.subscribed
  BY <1>0, <1>1 DEF Deliver
<1>2. CASE rx.subscribed
  <2> DEFINE kept == IF Full(rx) THEN Tail(rx.queue) ELSE rx.queue
             out == Append(kept, m)
  <2>1. Deliver(rx, m) = [rx EXCEPT !.lagged = @ \/ Full(rx), !.queue = out]
    BY <1>2 DEF Deliver
  <2>2. /\ kept \in Seq(Event)
        /\ \A i \in 1..Len(kept) : \E j \in 1..Len(rx.queue) : kept[i] = rx.queue[j]
    <3>1. CASE Full(rx)
      <4>1. Len(rx.queue) > 0
        BY <1>0, <3>1, CapacityAssumption DEF Full
      <4>2. /\ Tail(rx.queue) \in Seq(Event)
            /\ Len(Tail(rx.queue)) = Len(rx.queue) - 1
            /\ \A i \in 1..Len(Tail(rx.queue)) : Tail(rx.queue)[i] = rx.queue[i + 1]
        BY <1>0, <4>1
      <4>3. QED
        BY <1>0, <3>1, <4>1, <4>2
    <3>2. CASE ~Full(rx)
      BY <1>0, <3>2
    <3>3. QED
      BY <3>1, <3>2
  <2> HIDE DEF kept
  <2>3. /\ out \in Seq(Event) /\ Len(out) = Len(kept) + 1
        /\ out[Len(kept) + 1] = m
        /\ \A i \in 1..Len(kept) : out[i] = kept[i]
    BY <2>2
  <2> HIDE DEF out
  <2>4. /\ \E i \in 1..Len(out) : out[i] = m
        /\ \A i \in 1..Len(out) :
             out[i] = m \/ \E j \in 1..Len(rx.queue) : out[i] = rx.queue[j]
    BY <2>2, <2>3
  <2>5. /\ Deliver(rx, m).queue = out
        /\ Deliver(rx, m).subscribed = rx.subscribed
        /\ Deliver(rx, m) \in ReceiverOf(Event)
    BY <1>0, <2>1, <2>3 DEF ReceiverOf, Full
  <2>6. QED
    BY <2>4, <2>5
<1>3. QED
  BY <1>0, <1>1, <1>2

(* What Send does to the whole channel. *)
LEMMA SendLemma ==
  ASSUME NEW b \in [Receiver -> ReceiverOf(Event)], NEW m \in Event
  PROVE  /\ Send(b, m) \in [Receiver -> ReceiverOf(Event)]
         /\ Send(b, m)[M] = Deliver(b[M], m)
         /\ b[M] \in ReceiverOf(Event)
<1>1. \A r \in Receiver : Deliver(b[r], m) \in ReceiverOf(Event)
  BY DeliverLemma
<1>2. QED
  BY <1>1, ManagerAssumption DEF Send, M

-----------------------------------------------------------------------------

(* A configuration keeps its routes, and is none without any. *)
LEMMA ConfigLemma ==
  /\ \A p, routes : Config(p, routes).routes = routes
  /\ \A p \in Tables : Config(p, {}) = NoFile
  /\ "systemd" \notin Tables
BY DEF Config, NoFile, Tables

(* The machine before the first start satisfies the invariant. *)
LEMMA InitInv == Init => Inv
<1> SUFFICES ASSUME Init PROVE Inv
  OBVIOUS
<1>1. store \in Store /\ WellFormed(store)
  <2>1. EmptyStore \in Store /\ WellFormed(EmptyStore)
    BY EmptyStoreLemma
  <2>2. store = [EmptyStore EXCEPT !.persistent = Saved]
    BY DEF Init, AppInit
  <2>3. QED
    BY <2>1, <2>2, SavedAssumption DEF Store, WellFormed
<1>2. Types
  <2>1. NoReceiver \in ReceiverOf(Event)
    BY DEF NoReceiver, ReceiverOf
  <2>2. bus \in [Receiver -> ReceiverOf(Event)]
    BY <2>1 DEF Init, AppInit
  <2>3. \A c \in Client : handler[c] = Idle
    BY DEF Init, AppInit
  <2>4. handler \in [Client -> [pc : {"idle", "publish", "cancel"},
                               event : Event \cup {None}]]
    BY DEF Init, AppInit, Idle
  <2>5. mgr \in [pc : MgrPc, domains : SUBSET Domain, todo : SUBSET Domain]
    BY DEF Init, NoManager, MgrPc
  <2>6. QED
    BY <1>1, <2>2, <2>3, <2>4, <2>5 DEF Init, AppInit, Types, Idle
<1>3. Entries
  BY ConfigLemma DEF Init, Entries, NoFile
<1>4. QED
  BY <1>2, <1>3 DEF Init, Inv, Subscribed, StopsAnnounced, SnapshotCurrent,
                    FileWritten, FileLoaded, Filling, Entries, Listening,
                    Applying, Written

(* Steps of the manager and of `clean` that leave the shared state alone.  *)
LEMMA ManagerKeepsInv ==
  ASSUME Inv, UNCHANGED appVars,
         \/ \E at, reload, after \in MgrPc \ ApplyPc :
              \/ RevertRemove(at, reload, after) \/ RevertReload(at, after)
              \/ RevertEntries(at, after)
         \/ Snapshot \/ Write \/ Reload \/ Clear \/ Fill \/ Cancelled
         \/ Exit \/ Crash \/ CleanRemove \/ CleanReload \/ CleanEntries
  PROVE  Inv'
<1> USE DEF Inv
<1>1. /\ Stopping' <=> Stopping
      /\ ApplyComing' <=> ApplyComing
      /\ AllDomains(store)' = AllDomains(store)
      /\ bus' = bus
  BY DEF appVars, Stopping, ApplyComing
<1>2. Types'
  <2>1. AllDomains(store) \in SUBSET Domain
    BY AllDomainsLemma DEF Types
  <2>2. mgr' \in [pc : MgrPc, domains : SUBSET Domain, todo : SUBSET Domain]
    <3>1. \/ mgr' = mgr
          \/ \E pc \in MgrPc : mgr' = [mgr EXCEPT !.pc = pc]
          \/ \E d \in mgr.todo : mgr' = [mgr EXCEPT !.todo = @ \ {d}]
          \/ mgr' = [pc |-> "write", domains |-> AllDomains(store),
                     todo |-> AllDomains(store)]
      BY DEF RevertRemove, RevertReload, RevertEntries, Snapshot, Write, Reload,
             Clear, Fill, Cancelled, Exit, Crash, CleanRemove, CleanReload,
             CleanEntries, Goto, MgrPc
    <3>2. QED
      BY <2>1, <3>1 DEF Types, MgrPc
  <2>3. QED
    BY <2>2 DEF Types, appVars
<1>3. Entries' /\ platform' = platform
  <2>1. \/ UNCHANGED <<platform, file, live>>
        \/ UNCHANGED <<platform, file>> /\ live' = file
        \/ UNCHANGED platform /\ platform = "systemd"
        \/ /\ UNCHANGED platform /\ live' = file'
           /\ \E routes : file' = Config(platform, routes)
    BY DEF RevertRemove, RevertReload, RevertEntries, RemoveEntry, Snapshot,
           Write, Reload, Clear, Fill, Cancelled, Exit, Crash, CleanRemove,
           CleanReload, CleanEntries
  <2>2. QED
    BY <2>1, ConfigLemma DEF Entries
<1>4. CASE \E at, reload, after \in MgrPc \ ApplyPc :
             \/ RevertRemove(at, reload, after) \/ RevertReload(at, after)
             \/ RevertEntries(at, after)
  <2>1. mgr'.pc \notin ApplyPc /\ process' # "down" /\ process # "down"
    BY <1>4 DEF RevertRemove, RevertReload, RevertEntries, Goto, MgrAt, Types
  <2>2. QED
    BY <1>1, <1>2, <1>3, <2>1
       DEF ApplyPc, Subscribed, StopsAnnounced, SnapshotCurrent, FileWritten,
           FileLoaded, Filling, Listening, Applying, Written
<1>5. CASE Snapshot
  BY <1>1, <1>2, <1>3, <1>5
     DEF Snapshot, MgrAt, Subscribed, StopsAnnounced, SnapshotCurrent,
         FileWritten, FileLoaded, Filling, ApplyPc, Listening, Applying, Written
<1>6. CASE Write
  BY <1>1, <1>2, <1>3, <1>6
     DEF Write, MgrAt, Goto, Types, Subscribed, StopsAnnounced, SnapshotCurrent,
         FileWritten, FileLoaded, Filling, ApplyPc, Listening, Applying, Written
<1>7. CASE Reload
  BY <1>1, <1>2, <1>3, <1>7
     DEF Reload, MgrAt, Goto, Types, Subscribed, StopsAnnounced, SnapshotCurrent,
         FileWritten, FileLoaded, Filling, ApplyPc, Listening, Applying, Written
<1>8. CASE Clear
  <2>1. /\ process # "down" /\ process' = process /\ mgr.pc = "write"
        /\ platform \in Tables
        /\ mgr'.domains = mgr.domains /\ mgr'.todo = mgr.todo
        /\ mgr.todo = mgr.domains
        /\ mgr'.pc \in {"write", "fill", "failed"}
        /\ mgr'.pc = "fill" /\ ~tampered' => file' = file /\ file.routes = {}
    BY <1>8 DEF Clear, MgrAt, Goto, Types, Filling
  <2>2. Filling'
    <3>1. ASSUME mgr'.pc = "fill", ~tampered'
          PROVE  file' = Config(platform, Routes(platform, mgr.domains \ mgr.todo))
      <4>1. Routes(platform, mgr.domains \ mgr.domains) = {}
        BY DEF Routes
      <4>2. QED
        BY <2>1, <3>1, <4>1 DEF Entries
    <3>2. QED
      BY <1>3, <2>1, <3>1 DEF Filling
  <2>3. QED
    BY <1>1, <1>2, <1>3, <2>1, <2>2
       DEF Subscribed, StopsAnnounced, SnapshotCurrent, FileWritten, FileLoaded,
           ApplyPc, Listening, Applying, Written
<1>9. CASE Fill
  <2>1. /\ process # "down" /\ process' = process /\ mgr.pc = "fill"
        /\ tampered' = tampered
        /\ platform \in Tables /\ mgr.todo \subseteq mgr.domains
        /\ ~tampered =>
             file = Config(platform, Routes(platform, mgr.domains \ mgr.todo))
        /\ mgr'.domains = mgr.domains
    BY <1>9 DEF Fill, MgrAt, Goto, Types, Filling
  <2>2. ASSUME NEW d \in mgr.todo,
               file' = Config(platform, file.routes \cup {RouteOf(platform, d)}),
               mgr' = [mgr EXCEPT !.todo = @ \ {d}]
        PROVE  Filling' /\ FileWritten' /\ FileLoaded' /\ mgr'.pc = "fill"
    <3>1. mgr'.pc = "fill" /\ mgr'.todo = mgr.todo \ {d}
      BY <2>1, <2>2 DEF Types
    <3>2. ~tampered =>
            file' = Config(platform, Routes(platform, mgr.domains \ mgr'.todo))
      <4>1. ASSUME ~tampered
            PROVE  file.routes = Routes(platform, mgr.domains \ mgr.todo)
        BY <2>1, <4>1, ConfigLemma
      <4>2. Routes(platform, mgr.domains \ (mgr.todo \ {d})) =
              Routes(platform, mgr.domains \ mgr.todo) \cup {RouteOf(platform, d)}
        <5>1. mgr.domains \ (mgr.todo \ {d}) = (mgr.domains \ mgr.todo) \cup {d}
          BY <2>1
        <5>2. QED
          BY <5>1 DEF Routes
      <4>3. QED
        BY <2>2, <3>1, <4>1, <4>2
    <3>3. QED
      BY <1>3, <2>1, <3>1, <3>2 DEF Filling, FileWritten, FileLoaded, Written
  <2>3. CASE mgr.todo = {} /\ Goto("recv") /\ UNCHANGED <<file, live>>
    <3>1. mgr'.pc = "recv"
      BY <2>3 DEF Goto, Types
    <3>2. ~tampered => file = Config(platform, Routes(platform, mgr.domains))
      <4>1. mgr.domains \ mgr.todo = mgr.domains
        BY <2>3
      <4>2. QED
        BY <2>1, <4>1
    <3>3. Filling' /\ FileWritten' /\ FileLoaded'
      BY <1>3, <2>1, <2>3, <3>1, <3>2
         DEF Filling, FileWritten, FileLoaded, Written, Entries
    <3>4. QED
      BY <1>1, <1>2, <1>3, <2>1, <3>1, <3>3
         DEF Subscribed, StopsAnnounced, SnapshotCurrent, ApplyPc, Listening,
             Applying
  <2>4. CASE Goto("failed")
    <3>1. mgr'.pc = "failed"
      BY <2>4 DEF Goto, Types
    <3>2. QED
      BY <1>1, <1>2, <1>3, <2>1, <3>1
         DEF Subscribed, StopsAnnounced, SnapshotCurrent, FileWritten, FileLoaded,
             Filling, ApplyPc, Listening, Applying, Written
  <2>5. CASE Filling' /\ FileWritten' /\ FileLoaded' /\ mgr'.pc = "fill"
    BY <1>1, <1>2, <1>3, <2>1, <2>5
       DEF Subscribed, StopsAnnounced, SnapshotCurrent, ApplyPc, Listening,
           Applying
  <2>6. QED
    BY <1>9, <2>2, <2>3, <2>4, <2>5 DEF Fill
<1>10. CASE Cancelled
  BY <1>1, <1>2, <1>3, <1>10
     DEF Cancelled, MgrAt, Goto, Types, Subscribed, StopsAnnounced,
         SnapshotCurrent, FileWritten, FileLoaded, Filling, ApplyPc, Listening,
         Applying, Written
<1>11. CASE Exit \/ Crash
  BY <1>1, <1>2, <1>3, <1>11
     DEF Exit, Crash, Subscribed, StopsAnnounced, SnapshotCurrent, FileWritten,
         FileLoaded, Filling, Listening, Applying, Written
<1>12. CASE CleanRemove \/ CleanReload \/ CleanEntries
  <2>1. /\ mgr' = mgr /\ process' = process
        /\ tampered' \/ (file' = file /\ tampered' = tampered)
        /\ file' = file => live' = live \/ live' = file'
    BY <1>12 DEF CleanRemove, CleanReload, CleanEntries, Entries, RemoveEntry
  <2>2. FileWritten' /\ FileLoaded' /\ Filling'
    BY <1>3, <2>1 DEF FileWritten, FileLoaded, Filling, Written
  <2>3. QED
    BY <1>1, <1>2, <1>3, <2>1, <2>2
       DEF Subscribed, StopsAnnounced, SnapshotCurrent, Listening, Applying
<1>13. QED
  BY <1>4, <1>5, <1>6, <1>7, <1>8, <1>9, <1>10, <1>11, <1>12

-----------------------------------------------------------------------------
(* Steps that change the shared state and nothing of the manager's. *)

(* What the conjuncts about the manager's own files say is untouched. *)
LEMMA SysUnchanged ==
  ASSUME Inv, UNCHANGED sysVars
  PROVE  /\ FileWritten' /\ FileLoaded' /\ Filling' /\ Entries'
         /\ Listening' <=> Listening
         /\ Applying' <=> Applying
         /\ mgr' = mgr /\ process' = process
  BY DEF Inv, sysVars, FileWritten, FileLoaded, Filling, Entries, ApplyPc,
         Listening, Applying, Written

(* A request: a change of the store owes an event, a stop its own. *)
LEMMA RequestKeepsInv ==
  ASSUME Inv, NEW c \in Client, ServeRequest(c)
  PROVE  Inv'
<1>1. UNCHANGED <<sysVars, bus, token>> /\ handler[c].pc = "idle"
  BY DEF ServeRequest, Stop, Mutate
<1>2. /\ FileWritten' /\ FileLoaded' /\ Filling' /\ Entries'
      /\ Listening' <=> Listening
      /\ Applying' <=> Applying
      /\ mgr' = mgr /\ process' = process
  BY <1>1, SysUnchanged
<1>3. Types
  BY DEF Inv
<1>4. ASSUME NEW h, handler' = [handler EXCEPT ![c] = h],
             h = Idle \/ (h.pc = "publish" /\ h.event \in Event)
      PROVE  /\ Stopping' <=> Stopping
             /\ Subscribed' /\ StopsAnnounced'
             /\ ApplyComing => ApplyComing'
  <2>1. /\ \A x \in Client : x # c => handler'[x] = handler[x]
        /\ handler'[c] = h
        /\ h.pc # "cancel"
    BY <1>3, <1>4 DEF Types, Idle
  <2>2. Stopping' <=> Stopping
    BY <1>1, <2>1 DEF Stopping
  <2>3. ApplyComing => ApplyComing'
    BY <1>1, <2>1 DEF ApplyComing
  <2>4. QED
    BY <1>1, <1>2, <2>2, <2>3 DEF Inv, Subscribed, StopsAnnounced
<1>5. CASE Stop(c)
  <2> DEFINE h == [pc |-> "publish", event |-> DaemonStopped]
  <2>1. handler' = [handler EXCEPT ![c] = h] /\ store' = store
    BY <1>5 DEF Stop
  <2>2. h.pc = "publish" /\ h.event \in Event
    BY DEF Event
  <2>3. h \in [pc : {"idle", "publish", "cancel"}, event : Event \cup {None}]
    BY DEF Event
  <2> HIDE DEF h
  <2>4. Types'
    BY <1>1, <1>2, <1>3, <2>1, <2>2, <2>3 DEF Types
  <2>5. SnapshotCurrent'
    BY <1>2, <1>4, <2>1, <2>2 DEF Inv, SnapshotCurrent
  <2>6. QED
    BY <1>2, <1>4, <2>1, <2>2, <2>4, <2>5 DEF Inv
<1>6. ASSUME NEW o \in Request, Mutate(c, o) PROVE Inv'
  <2> DEFINE done == Apply(o, store)
             h == IF done.result = None THEN Idle
                  ELSE [pc |-> "publish",
                        event |-> [kind |-> EventKind(o), rule |-> done.result]]
  <2>1. handler' = [handler EXCEPT ![c] = h] /\ store' = done.store
    BY <1>6 DEF Mutate
  <2>2. o \in Op
    BY RequestAssumption
  <2>3. done.store \in Store /\ WellFormed(done.store) /\ done.result \in Rule \cup {None}
    BY <1>3, <2>2, ApplyLemma DEF Types
  <2>4. EventKind(o) \in {"RuleAdded", "RuleRemoved", "EphemeralAdded",
                          "EphemeralRemoved"}
    BY <2>2 DEF Op, EventKind
  <2>5. CASE done.result = None
    <3>1. h = Idle /\ done.store = store
      BY <1>3, <2>2, <2>5, NoneLeavesStore DEF Types
    <3>2. Types'
      BY <1>1, <1>2, <1>3, <2>1, <3>1 DEF Types, Idle
    <3>3. SnapshotCurrent'
      BY <1>2, <1>4, <2>1, <3>1 DEF Inv, SnapshotCurrent
    <3>4. QED
      BY <1>2, <1>4, <2>1, <3>1, <3>2, <3>3 DEF Inv
  <2>6. CASE done.result # None
    <3> DEFINE e == [kind |-> EventKind(o), rule |-> done.result]
    <3>1. e \in Event /\ IsRuleEvent(e)
      BY <2>3, <2>4, <2>6 DEF Event, RuleEvent, IsRuleEvent
    <3>2. h = [pc |-> "publish", event |-> e]
      BY <2>6
    <3> HIDE DEF e, h, done
    <3>3. /\ h.pc = "publish" /\ h.event = e
          /\ h \in [pc : {"idle", "publish", "cancel"}, event : Event \cup {None}]
      BY <3>1, <3>2
    <3>4. handler'[c] = h
      BY <1>3, <2>1 DEF Types
    <3>5. ApplyComing'
      BY <3>1, <3>3, <3>4 DEF ApplyComing
    <3>6. Types'
      BY <1>1, <1>2, <1>3, <2>1, <2>3, <3>1, <3>3 DEF Types
    <3>7. QED
      BY <1>2, <1>4, <2>1, <3>1, <3>3, <3>5, <3>6 DEF Inv, SnapshotCurrent
  <2>7. QED
    BY <2>5, <2>6
<1>7. QED
  BY <1>5, <1>6 DEF ServeRequest

(* The rest of a handler: the event goes on the channel, the token is      *)
(* cancelled.                                                              *)
LEMMA HandlerKeepsInv ==
  ASSUME Inv, NEW c \in Client, ServeStep(c)
  PROVE  Inv'
<1>1. UNCHANGED sysVars /\ store' = store
  BY DEF ServeStep, Publish, CancelToken
<1>2. /\ FileWritten' /\ FileLoaded' /\ Filling' /\ Entries'
      /\ Listening' <=> Listening
      /\ Applying' <=> Applying
      /\ mgr' = mgr /\ process' = process
  BY <1>1, SysUnchanged
<1>3. Types
  BY DEF Inv
<1>4. CASE Publish(c)
  <2> DEFINE e == handler[c].event
             q == bus'[M].queue
  <2>1. e \in Event /\ bus' = Send(bus, e) /\ token' = token
    BY <1>3, <1>4 DEF Publish, Types
  <2>2. /\ bus' \in [Receiver -> ReceiverOf(Event)]
        /\ bus'[M] = Deliver(bus[M], e)
        /\ bus[M] \in ReceiverOf(Event)
    BY <1>3, <2>1, SendLemma DEF Types
  <2>3. /\ bus'[M].subscribed = bus[M].subscribed
        /\ bus[M].subscribed => \E i \in 1..Len(q) : q[i] = e
        /\ \A i \in 1..Len(q) :
             q[i] = e \/ \E j \in 1..Len(bus[M].queue) : q[i] = bus[M].queue[j]
    BY <2>1, <2>2, DeliverLemma
  <2>4. Subscribed'
    BY <1>2, <2>3 DEF Inv, Subscribed
  <2>5. CASE IsRuleEvent(e)
    <3>1. handler' = [handler EXCEPT ![c] = Idle]
      BY <1>4, <2>5 DEF Publish
    <3>2. Types'
      BY <1>1, <1>2, <1>3, <2>1, <2>2, <3>1 DEF Types, Idle
    <3>3. Stopping' <=> Stopping
      BY <1>3, <1>4, <2>1, <3>1 DEF Stopping, Types, Publish, Idle
    <3>4. StopsAnnounced'
      BY <1>2, <2>3, <2>5, <3>3 DEF Inv, StopsAnnounced, IsRuleEvent
    <3>5. SnapshotCurrent'
      <4>1. Listening => ApplyComing'
        BY <2>2, <2>3, <2>5 DEF Inv, Subscribed, ApplyComing, ToSet, M, ReceiverOf
      <4>2. QED
        BY <1>2, <4>1 DEF SnapshotCurrent, ApplyPc, Listening, Applying
    <3>6. QED
      BY <1>2, <2>4, <3>2, <3>4, <3>5 DEF Inv
  <2>6. CASE ~IsRuleEvent(e)
    <3>1. handler' = [handler EXCEPT ![c] = [@ EXCEPT !.pc = "cancel"]]
      BY <1>4, <2>6 DEF Publish
    <3>2. handler'[c].pc = "cancel"
      BY <1>3, <3>1 DEF Types
    <3>3. Types'
      BY <1>1, <1>2, <1>3, <2>1, <2>2, <3>1 DEF Types
    <3>4. Stopping'
      BY <3>2 DEF Stopping
    <3>5. QED
      BY <1>2, <2>4, <3>3, <3>4 DEF Inv, StopsAnnounced, SnapshotCurrent
  <2>7. QED
    BY <2>5, <2>6
<1>5. CASE CancelToken(c)
  <2>1. token' = TRUE /\ bus' = bus /\ handler' = [handler EXCEPT ![c] = Idle]
    BY <1>5 DEF CancelToken
  <2>2. Types'
    BY <1>1, <1>2, <1>3, <2>1 DEF Types, Idle
  <2>3. Stopping'
    BY <2>1 DEF Stopping
  <2>4. QED
    BY <1>2, <2>1, <2>2, <2>3 DEF Inv, Subscribed, StopsAnnounced, SnapshotCurrent
<1>6. QED
  BY <1>4, <1>5 DEF ServeStep

-----------------------------------------------------------------------------
(* Steps of the manager on its receiver. *)

LEMMA ReceiverKeepsInv ==
  ASSUME Inv, Subscribe \/ Recv \/ Lagged
  PROVE  Inv'
<1>1. /\ store' = store /\ token' = token /\ handler' = handler
      /\ UNCHANGED <<platform, process, file, live, tampered>>
      /\ mgr' \in [pc : MgrPc, domains : SUBSET Domain, todo : SUBSET Domain]
      /\ mgr'.domains = mgr.domains
      /\ process # "down"
      /\ Stopping' <=> Stopping
  BY DEF Inv, Types, Subscribe, Recv, Lagged, sysVars, Goto, MgrAt, MgrPc,
         Stopping
<1>2. bus[M] \in ReceiverOf(Event)
  BY ManagerAssumption DEF Inv, Types, M
<1>3. ASSUME NEW rx \in ReceiverOf(Event), bus' = [bus EXCEPT ![M] = rx]
      PROVE  Types' /\ bus'[M] = rx
  BY <1>1, <1>3, ManagerAssumption DEF Inv, Types, M
<1>4. CASE Subscribe
  <2>1. NewReceiver \in ReceiverOf(Event) /\ NewReceiver.subscribed
        /\ NewReceiver.queue = << >>
    BY DEF NewReceiver, ReceiverOf
  <2>2. Types' /\ bus'[M] = NewReceiver
    BY <1>3, <1>4, <2>1 DEF Subscribe, Receive, M
  <2>3. mgr'.pc = "snapshot"
    BY <1>4 DEF Subscribe, Goto, Inv, Types
  <2>4. QED
    BY <1>1, <2>1, <2>2, <2>3
       DEF Inv, Subscribed, StopsAnnounced, SnapshotCurrent, FileWritten,
           FileLoaded, Filling, Entries, Applying, Written
<1>5. CASE Lagged
  <2> DEFINE rx == TakeLagged(bus[M])
  <2>1. rx \in ReceiverOf(Event) /\ rx.subscribed = bus[M].subscribed
        /\ rx.queue = bus[M].queue
    BY <1>2 DEF TakeLagged, ReceiverOf
  <2>2. bus' = [bus EXCEPT ![M] = rx]
    BY <1>5 DEF Lagged, Receive, M
  <2> HIDE DEF rx
  <2>3. Types' /\ bus'[M] = rx
    BY <1>3, <2>1, <2>2
  <2>4. ApplyComing' <=> ApplyComing
    BY <1>1, <2>1, <2>3 DEF ApplyComing, M
  <2>5. mgr' = mgr
    BY <1>5 DEF Lagged, sysVars
  <2>6. QED
    BY <1>1, <2>1, <2>3, <2>4, <2>5
       DEF Inv, Subscribed, StopsAnnounced, SnapshotCurrent, FileWritten,
           FileLoaded, Filling, Entries, ApplyPc, Listening, Applying, Written
<1>6. CASE Recv
  <2> DEFINE rx == TakeMessage(bus[M])
             q == bus[M].queue
             e == Head(q)
  <2>1. /\ mgr.pc = "recv" /\ q # << >>
        /\ bus' = [bus EXCEPT ![M] = rx]
        /\ mgr'.pc = IF IsRuleEvent(e) THEN "snapshot" ELSE "recv"
    BY <1>6 DEF Recv, MgrAt, HasMessage, Receive, Goto, M, Inv, Types
  <2>2. q \in Seq(Event)
    BY <1>2 DEF ReceiverOf
  <2>3. /\ rx \in ReceiverOf(Event) /\ rx.subscribed = bus[M].subscribed
        /\ rx.queue = Tail(q)
    BY <1>2, <2>1, <2>2 DEF TakeMessage, ReceiverOf
  <2>4. /\ Len(Tail(q)) = Len(q) - 1 /\ Len(q) > 0
        /\ \A i \in 1..Len(Tail(q)) : i + 1 \in 1..Len(q) /\ Tail(q)[i] = q[i + 1]
        /\ e = q[1]
    BY <2>1, <2>2
  <2> HIDE DEF rx, e
  <2>5. Types' /\ bus'[M] = rx
    BY <1>3, <2>1, <2>3
  <2>6. Subscribed'
    BY <1>1, <2>1, <2>3, <2>5 DEF Inv, Subscribed, ApplyPc, Listening
  <2>7. StopsAnnounced'
    BY <1>1, <2>3, <2>4, <2>5 DEF Inv, StopsAnnounced
  <2>8. CASE IsRuleEvent(e)
    BY <1>1, <2>1, <2>5, <2>6, <2>7, <2>8
       DEF Inv, SnapshotCurrent, FileWritten, FileLoaded, Filling, Entries,
           Applying, Written
  <2>9. CASE ~IsRuleEvent(e)
    <3>1. Stopping
      BY <1>1, <2>4, <2>9 DEF Inv, StopsAnnounced, IsRuleEvent
    <3>2. QED
      BY <1>1, <2>1, <2>5, <2>6, <2>7, <2>9, <3>1
         DEF Inv, SnapshotCurrent, FileWritten, FileLoaded, Filling, Entries,
             Applying, Written
  <2>10. QED
    BY <2>8, <2>9
<1>7. QED
  BY <1>4, <1>5, <1>6

(* Steps of the process around the manager. *)
LEMMA ProcessKeepsInv ==
  ASSUME Inv, Boot \/ ShutdownRequested \/ Signal
  PROVE  Inv'
<1>1. CASE Boot
  <2>1. store' \in Store /\ WellFormed(store')
    <3>1. EmptyStore \in Store /\ WellFormed(EmptyStore)
      BY EmptyStoreLemma
    <3>2. store' = [EmptyStore EXCEPT !.persistent = store.persistent]
      BY <1>1 DEF Boot
    <3>3. QED
      BY <3>1, <3>2 DEF Inv, Types, Store, WellFormed
  <2>2. NoReceiver \in ReceiverOf(Event) /\ NoReceiver.queue = << >>
    BY DEF NoReceiver, ReceiverOf
  <2>3. bus' \in [Receiver -> ReceiverOf(Event)] /\ bus'[M] = NoReceiver
    BY <1>1, <2>2, ManagerAssumption DEF Boot, M
  <2>4. handler' \in [Client -> [pc : {"idle", "publish", "cancel"},
                                event : Event \cup {None}]]
        /\ \A c \in Client : handler'[c].pc = "idle"
    BY <1>1 DEF Boot, Idle
  <2>5. mgr' \in [pc : MgrPc, domains : SUBSET Domain, todo : SUBSET Domain]
        /\ mgr'.pc = "cleanup"
        /\ token' = FALSE
    BY <1>1 DEF Boot, NoManager, MgrPc
  <2>6. Types'
    BY <2>1, <2>3, <2>4, <2>5 DEF Types
  <2>7. /\ Subscribed' /\ SnapshotCurrent' /\ FileWritten' /\ FileLoaded'
        /\ Filling' /\ Entries'
    BY <1>1, <2>5 DEF Inv, Boot, Subscribed, SnapshotCurrent, FileWritten,
                      FileLoaded, Filling, Entries, ApplyPc, Listening, Applying,
                      Written
  <2>8. StopsAnnounced'
    BY <2>2, <2>3 DEF StopsAnnounced
  <2>9. QED
    BY <2>6, <2>7, <2>8 DEF Inv
<1>2. CASE ShutdownRequested
  <2>1. DaemonStopped \in Event
    BY DEF Event
  <2>2. /\ bus' = Send(bus, DaemonStopped) /\ token' /\ token' = token
        /\ process # "down" /\ process' # "down"
        /\ UNCHANGED <<store, handler, platform, mgr, file, live, tampered>>
    BY <1>2 DEF ShutdownRequested
  <2>3. /\ bus' \in [Receiver -> ReceiverOf(Event)]
        /\ bus'[M].subscribed = bus[M].subscribed
    BY <2>1, <2>2, SendLemma, DeliverLemma DEF Inv, Types
  <2>4. Types' /\ Stopping'
    BY <2>2, <2>3 DEF Inv, Types, Stopping
  <2>5. QED
    BY <2>2, <2>3, <2>4
       DEF Inv, Subscribed, StopsAnnounced, SnapshotCurrent, FileWritten,
           FileLoaded, Filling, Entries, ApplyPc, Listening, Applying, Written
<1>3. CASE Signal
  <2>1. /\ token' = TRUE /\ process # "down" /\ process' # "down"
        /\ UNCHANGED <<store, bus, handler, platform, mgr, file, live, tampered>>
    BY <1>3 DEF Signal
  <2>2. Types' /\ Stopping'
    BY <2>1 DEF Inv, Types, Stopping
  <2>3. QED
    BY <2>1, <2>2
       DEF Inv, Subscribed, StopsAnnounced, SnapshotCurrent, FileWritten,
           FileLoaded, Filling, Entries, ApplyPc, Listening, Applying, Written
<1>4. QED
  BY <1>1, <1>2, <1>3

-----------------------------------------------------------------------------

(* Every step keeps the invariant. *)
LEMMA NextInv == Inv /\ [Next]_vars => Inv'
<1> SUFFICES ASSUME Inv, [Next]_vars PROVE Inv'
  OBVIOUS
<1>1. CASE UNCHANGED vars
  BY <1>1 DEF vars, appVars, sysVars, Inv, Types, Subscribed, StopsAnnounced,
              SnapshotCurrent, FileWritten, FileLoaded, Filling, Entries, ApplyPc,
              Listening, Applying, Written, Stopping, ApplyComing, MgrAt
<1>2. CASE MgrStep
  <2>1. CASE \/ RevertRemove("cleanup", "cleanup_reload", "subscribe")
             \/ RevertReload("cleanup_reload", "subscribe")
             \/ RevertRemove("revert", "revert_reload", "done")
             \/ RevertReload("revert_reload", "done")
             \/ RevertEntries("cleanup", "subscribe")
             \/ RevertEntries("revert", "done")
    <3>1. UNCHANGED appVars
      BY <2>1 DEF RevertRemove, RevertReload, RevertEntries
    <3>2. \E at, reload, after \in MgrPc \ ApplyPc :
            \/ RevertRemove(at, reload, after) \/ RevertReload(at, after)
            \/ RevertEntries(at, after)
      BY <2>1 DEF MgrPc, ApplyPc
    <3>3. QED
      BY <3>1, <3>2, ManagerKeepsInv
  <2>2. CASE Snapshot \/ Write \/ Reload \/ Clear \/ Fill \/ Cancelled
    <3>1. UNCHANGED appVars
      BY <2>2 DEF Snapshot, Write, Reload, Clear, Fill, Cancelled
    <3>2. QED
      BY <2>2, <3>1, ManagerKeepsInv
  <2>3. CASE Subscribe \/ Recv \/ Lagged
    BY <2>3, ReceiverKeepsInv
  <2>4. QED
    BY <1>2, <2>1, <2>2, <2>3 DEF MgrStep
<1>3. CASE Boot \/ ShutdownRequested \/ Signal
  BY <1>3, ProcessKeepsInv
<1>4. CASE Exit \/ Crash \/ CleanRemove \/ CleanReload \/ CleanEntries
  <2>1. UNCHANGED appVars
    BY <1>4 DEF Exit, Crash, CleanRemove, CleanReload, CleanEntries
  <2>2. QED
    BY <1>4, <2>1, ManagerKeepsInv
<1>5. CASE \E c \in Client : ServeRequest(c) \/ ServeStep(c)
  BY <1>5, RequestKeepsInv, HandlerKeepsInv
<1>6. QED
  BY <1>1, <1>2, <1>3, <1>4, <1>5 DEF Next

(* Whatever the capacity of the channel, the number of clients and the     *)
(* interleaving with failures, crashes, restarts and `sidedns clean`:      *)
(* while the manager waits, the resolver has loaded the routes of the      *)
(* store, or an event that brings them is on its way (sys/mod.rs:65).      *)
THEOREM RoutesAlwaysCurrent == Spec => []RoutesCurrent
<1>1. Inv => RoutesCurrent
  BY DEF Inv, RoutesCurrent, SnapshotCurrent, FileWritten, FileLoaded, Filling,
         Entries, Applying, Written, MgrAt
<1>2. QED
  BY <1>1, InitInv, NextInv, PTL DEF Spec

-----------------------------------------------------------------------------
(* Types: what the argument above did not need. *)

Bounded == \A r \in Receiver : Len(bus[r].queue) <= Capacity

Counted ==
  /\ served \in 0..MaxRequests
  /\ boots \in 0..MaxBoots /\ faults \in 0..MaxFaults /\ cleans \in 0..MaxCleans
  /\ process \in {"down", "up", "joining"} /\ cleaner \in {"idle", "entries", "reload"}

Flagged ==
  /\ stray \in BOOLEAN /\ tampered \in BOOLEAN /\ unreverted \in BOOLEAN
  /\ platform \in Platform

(* The routes of f are those of some domains. *)
Typed(f) == f.present \in BOOLEAN /\ f.routes \subseteq Routes(platform, Domain)

Rest == Bounded /\ Counted /\ Flagged /\ Typed(file) /\ Typed(live)

LEMMA InitRest == Init => Rest
<1> SUFFICES ASSUME Init PROVE Rest
  OBVIOUS
<1>1. Bounded
  BY CapacityAssumption DEF Init, AppInit, Bounded, NoReceiver
<1>2. Counted
  BY BoundsAssumption, MaxRequestsAssumption DEF Init, AppInit, Counted
<1>3. Flagged
  BY DEF Init, Flagged
<1>4. Typed(file) /\ Typed(live)
  BY DEF Init, Typed, NoFile
<1> QED  BY <1>1, <1>2, <1>3, <1>4 DEF Rest

(* A full channel drops as many messages as it takes. *)
LEMMA DeliverBounded ==
  ASSUME NEW rx \in ReceiverOf(Event), NEW m \in Event, Len(rx.queue) <= Capacity
  PROVE  Len(Deliver(rx, m).queue) <= Capacity
<1>0. rx.queue \in Seq(Event) /\ Len(rx.queue) \in Nat /\ Capacity \in Nat \ {0}
  BY CapacityAssumption DEF ReceiverOf
<1>1. CASE ~rx.subscribed
  BY <1>1 DEF Deliver
<1>2. CASE rx.subscribed /\ Full(rx)
  <2>1. Deliver(rx, m).queue = Append(Tail(rx.queue), m)
    BY <1>2 DEF Deliver, ReceiverOf
  <2>2. Tail(rx.queue) \in Seq(Event) /\ Len(Tail(rx.queue)) = Len(rx.queue) - 1
    BY <1>0, <1>2 DEF Full
  <2>3. Len(Append(Tail(rx.queue), m)) = Len(rx.queue)
    BY <1>0, <2>2
  <2> QED  BY <2>1, <2>3
<1>3. CASE rx.subscribed /\ ~Full(rx)
  <2>1. Deliver(rx, m).queue = Append(rx.queue, m)
    BY <1>3 DEF Deliver, ReceiverOf
  <2> QED  BY <1>0, <1>3, <2>1 DEF Full
<1> QED  BY <1>1, <1>2, <1>3

LEMMA NextBounded == Inv /\ Bounded /\ [Next]_vars => Bounded'
<1> SUFFICES ASSUME Inv, Bounded, [Next]_vars PROVE Bounded'
  OBVIOUS
<1>0. bus \in [Receiver -> ReceiverOf(Event)]
  BY DEF Inv, Types
<1>1. ASSUME NEW m \in Event, bus' = Send(bus, m) PROVE Bounded'
  <2>1. \A r \in Receiver : bus'[r] = Deliver(bus[r], m) /\ bus[r] \in ReceiverOf(Event)
    BY <1>0, <1>1 DEF Send
  <2> QED  BY <2>1, DeliverBounded DEF Bounded
<1>2. ASSUME NEW rx, bus' = [bus EXCEPT !["manager"] = rx], Len(rx.queue) <= Capacity
      PROVE  Bounded'
  <2>1. \A r \in Receiver : bus'[r] = rx \/ bus'[r] = bus[r]
    BY <1>0, <1>2
  <2> QED  BY <1>2, <2>1 DEF Bounded
<1>3. CASE bus' = bus
  BY <1>3 DEF Bounded
<1>4. CASE \E c \in Client : ServeStep(c)
  <2>1. PICK c \in Client : ServeStep(c)
    BY <1>4
  <2>2. handler[c].pc = "publish" => handler[c].event \in Event
    BY DEF Inv, Types
  <2> QED  BY <1>1, <1>3, <2>1, <2>2 DEF ServeStep, Publish, CancelToken
<1>5. CASE ShutdownRequested
  BY <1>1, <1>5 DEF ShutdownRequested, Event
<1>6. CASE Boot
  BY <1>6, CapacityAssumption DEF Boot, Bounded, NoReceiver
<1>7. CASE Subscribe
  <2>1. Len(NewReceiver.queue) <= Capacity
    BY CapacityAssumption DEF NewReceiver
  <2> QED  BY <1>2, <1>7, <2>1 DEF Subscribe, Receive
<1>8. bus["manager"] \in ReceiverOf(Event) /\ Len(bus["manager"].queue) <= Capacity
  BY <1>0, ManagerAssumption DEF Bounded
<1>9. CASE Recv
  <2> DEFINE q == bus["manager"].queue
  <2>1. q \in Seq(Event) /\ q # << >> /\ Len(q) <= Capacity
    BY <1>8, <1>9 DEF Recv, HasMessage, ReceiverOf
  <2>2. TakeMessage(bus["manager"]).queue = Tail(q)
    BY <1>8 DEF TakeMessage, ReceiverOf
  <2>3. Len(Tail(q)) <= Capacity
    BY <2>1, CapacityAssumption
  <2> QED  BY <1>2, <1>9, <2>2, <2>3 DEF Recv, Receive
<1>10. CASE Lagged
  <2>1. TakeLagged(bus["manager"]).queue = bus["manager"].queue
    BY <1>8 DEF TakeLagged, ReceiverOf
  <2> QED  BY <1>2, <1>8, <1>10, <2>1 DEF Lagged, Receive
<1> QED
  BY <1>3, <1>4, <1>5, <1>6, <1>7, <1>9, <1>10
  DEF Next, MgrStep, RevertRemove, RevertReload, RevertEntries, Snapshot, Write,
      Reload, Clear, Fill, Cancelled, Signal, Exit, Crash, CleanRemove, CleanReload,
      CleanEntries, ServeRequest, Stop, Mutate, vars, appVars

LEMMA NextCounted == Counted /\ [Next]_vars => Counted'
<1> SUFFICES ASSUME Counted, [Next]_vars PROVE Counted'
  OBVIOUS
<1>0. /\ MaxBoots \in Nat /\ MaxFaults \in Nat /\ MaxCleans \in Nat
      /\ MaxRequests \in Nat
  BY BoundsAssumption, MaxRequestsAssumption
<1>1. /\ process' \in {"down", "up", "joining"}
      /\ cleaner' \in {"idle", "entries", "reload"}
  BY DEF Counted, Next, MgrStep, RevertRemove, RevertReload, RevertEntries, Subscribe, Snapshot,
     Write, Reload, Clear, Fill, Recv, Lagged, Cancelled, Boot, ShutdownRequested,
     Signal, Exit, Crash, CleanRemove, CleanReload, CleanEntries, ServeRequest,
     ServeStep, vars, sysVars
<1>2. faults' = faults \/ Fault
  BY DEF Next, MgrStep, RevertRemove, RevertReload, RevertEntries, Subscribe, Snapshot,
     Write, Reload, Clear, Fill, Recv, Lagged, Cancelled, Boot, ShutdownRequested,
     Signal, Exit, Crash, CleanRemove, CleanReload, CleanEntries, ServeRequest,
     ServeStep, vars, sysVars, NoFault
<1>3. boots' = boots \/ (boots < MaxBoots /\ boots' = boots + 1)
  BY DEF Next, MgrStep, RevertRemove, RevertReload, RevertEntries, Subscribe, Snapshot,
     Write, Reload, Clear, Fill, Recv, Lagged, Cancelled, Boot, ShutdownRequested,
     Signal, Exit, Crash, CleanRemove, CleanReload, CleanEntries, ServeRequest,
     ServeStep, vars, sysVars
<1>4. cleans' = cleans \/ (cleans < MaxCleans /\ cleans' = cleans + 1)
  BY DEF Next, MgrStep, RevertRemove, RevertReload, RevertEntries, Subscribe, Snapshot,
     Write, Reload, Clear, Fill, Recv, Lagged, Cancelled, Boot, ShutdownRequested,
     Signal, Exit, Crash, CleanRemove, CleanReload, CleanEntries, ServeRequest,
     ServeStep, vars, sysVars, Clean
<1>5. served' = served \/ served' = 0 \/ (served < MaxRequests /\ served' = served + 1)
  BY DEF Next, MgrStep, RevertRemove, RevertReload, RevertEntries, Subscribe, Snapshot,
     Write, Reload, Clear, Fill, Recv, Lagged, Cancelled, Boot, ShutdownRequested,
     Signal, Exit, Crash, CleanRemove, CleanReload, CleanEntries, ServeRequest,
     ServeStep, vars, sysVars, appVars, Stop, Mutate,
     Publish, CancelToken
<1> QED  BY <1>0, <1>1, <1>2, <1>3, <1>4, <1>5 DEF Counted, Fault

LEMMA NextFlagged == Flagged /\ [Next]_vars => Flagged'
<1> SUFFICES ASSUME Flagged, [Next]_vars PROVE Flagged'
  OBVIOUS
<1>1. stray' \in BOOLEAN
  BY DEF Flagged, Next, MgrStep, RevertRemove, RevertReload, RevertEntries, Subscribe, Snapshot,
     Write, Reload, Clear, Fill, Recv, Lagged, Cancelled, Boot, ShutdownRequested,
     Signal, Exit, Crash, CleanRemove, CleanReload, CleanEntries, ServeRequest,
     ServeStep, vars, sysVars, CutShort
<1>2. tampered' \in BOOLEAN
  BY DEF Flagged, Next, MgrStep, RevertRemove, RevertReload, RevertEntries, Subscribe, Snapshot,
     Write, Reload, Clear, Fill, Recv, Lagged, Cancelled, Boot, ShutdownRequested,
     Signal, Exit, Crash, CleanRemove, CleanReload, CleanEntries, ServeRequest,
     ServeStep, vars, sysVars
<1>3. unreverted' \in BOOLEAN
  BY DEF Flagged, Next, MgrStep, RevertRemove, RevertReload, RevertEntries, Subscribe, Snapshot,
     Write, Reload, Clear, Fill, Recv, Lagged, Cancelled, Boot, ShutdownRequested,
     Signal, Exit, Crash, CleanRemove, CleanReload, CleanEntries, ServeRequest,
     ServeStep, vars, sysVars
<1>4. platform' = platform
  BY DEF Next, MgrStep, RevertRemove, RevertReload, RevertEntries, Subscribe, Snapshot,
     Write, Reload, Clear, Fill, Recv, Lagged, Cancelled, Boot, ShutdownRequested,
     Signal, Exit, Crash, CleanRemove, CleanReload, CleanEntries, ServeRequest,
     ServeStep, vars, sysVars
<1> QED  BY <1>1, <1>2, <1>3, <1>4 DEF Flagged

LEMMA NextTyped ==
  Inv /\ Typed(file) /\ Typed(live) /\ [Next]_vars => Typed(file)' /\ Typed(live)'
<1> SUFFICES ASSUME Inv, Typed(file), Typed(live), [Next]_vars
             PROVE  Typed(file)' /\ Typed(live)'
  OBVIOUS
<1>0. mgr.domains \subseteq Domain /\ mgr.todo \subseteq Domain
  BY DEF Inv, Types
<1>1. platform' = platform
  BY DEF Next, MgrStep, RevertRemove, RevertReload, RevertEntries, Subscribe, Snapshot,
     Write, Reload, Clear, Fill, Recv, Lagged, Cancelled, Boot, ShutdownRequested,
     Signal, Exit, Crash, CleanRemove, CleanReload, CleanEntries, ServeRequest,
     ServeStep, vars, sysVars
<1>2. ASSUME NEW routes, routes \subseteq Routes(platform, Domain)
      PROVE  /\ Config(platform, routes).present \in BOOLEAN
             /\ Config(platform, routes).routes \subseteq Routes(platform, Domain)
  BY <1>2 DEF Config
<1>3. NoFile.present \in BOOLEAN /\ NoFile.routes = {}
  BY DEF NoFile
<1>4. \/ file' = file \/ file' = NoFile
      \/ \E routes \in SUBSET Routes(platform, Domain) : file' = Config(platform, routes)
  <2>1. ASSUME RemoveEntry
        PROVE  \E routes \in SUBSET Routes(platform, Domain) :
                 file' = Config(platform, routes)
    BY <2>1 DEF RemoveEntry, Typed
  <2>2. CASE Fill
    <3>1. ASSUME NEW d \in mgr.todo
          PROVE  file.routes \cup {RouteOf(platform, d)} \in
                   SUBSET Routes(platform, Domain)
      BY <1>0 DEF Routes, Typed
    <3> QED  BY <2>2, <3>1 DEF Fill
  <2>3. CASE Write
    <3>1. Routes(platform, mgr.domains) \in SUBSET Routes(platform, Domain)
      BY <1>0 DEF Routes
    <3>2. {} \in SUBSET Routes(platform, Domain)
      OBVIOUS
    <3> QED  BY <2>3, <3>1, <3>2 DEF Write
  <2> QED
    BY <2>1, <2>2, <2>3
    DEF Next, MgrStep, RevertRemove, RevertReload, RevertEntries, Subscribe, Snapshot,
        Reload, Clear, Recv, Lagged, Cancelled, Boot, ShutdownRequested, Signal, Exit,
        Crash, CleanRemove, CleanReload, CleanEntries, ServeRequest, ServeStep, vars,
        sysVars
<1>5. live' \in {live, file, file'}
  BY DEF Next, MgrStep, RevertRemove, RevertReload, RevertEntries, RemoveEntry,
     Subscribe, Snapshot, Write, Reload, Clear, Fill, Recv, Lagged, Cancelled, Boot,
     ShutdownRequested, Signal, Exit, Crash, CleanRemove, CleanReload, CleanEntries,
     ServeRequest, ServeStep, vars, sysVars
<1>6. Typed(file)'
  BY <1>1, <1>2, <1>3, <1>4 DEF Typed
<1> QED  BY <1>1, <1>5, <1>6 DEF Typed

(* The daemon's state, the channel within its capacity, and the two copies *)
(* of the routes keep their types, whatever fails.                         *)
THEOREM TypeCorrect == Spec => []TypeOK
<1>1. Inv /\ Rest => TypeOK
  BY DEF Inv, Types, Rest, Bounded, Counted, Flagged, Typed, TypeOK, AppTypeOK
<1>2. Inv /\ Rest /\ [Next]_vars => Rest'
  BY NextBounded, NextCounted, NextFlagged, NextTyped DEF Rest
<1> QED  BY <1>1, <1>2, InitInv, NextInv, InitRest, PTL DEF Spec

-----------------------------------------------------------------------------
(* The last revert.  Once it has removed the file no one writes another    *)
(* before the next start, whatever `clean` does meanwhile.                 *)

LEMMA ConfigPresent ==
  \A p, routes : Config(p, routes).present <=> p = "systemd" \/ routes # {}
BY Zenon DEF Config

Reverted ==
  /\ mgr.pc = "revert_reload" => ~file.present
  /\ mgr.pc = "done" /\ ~unreverted => ~file.present /\ ~live.present

LEMMA InitReverted == Init => Reverted
BY DEF Init, NoManager, Reverted

LEMMA NextReverted == Inv /\ Reverted /\ [Next]_vars => Reverted'
<1> SUFFICES ASSUME Inv, Reverted, [Next]_vars PROVE Reverted'
  OBVIOUS
<1>0. mgr \in [pc : MgrPc, domains : SUBSET Domain, todo : SUBSET Domain]
  BY DEF Inv, Types
<1>1. ~NoFile.present /\ (platform \in Tables => live = file)
      /\ (platform \in Tables /\ file.routes = {} => ~file.present)
  <2>1. "systemd" \notin Tables
    BY DEF Tables
  <2>2. ~NoFile.present
    BY DEF NoFile
  <2> QED  BY <2>1, <2>2, ConfigPresent DEF Inv, Entries
<1>2. CASE RevertRemove("revert", "revert_reload", "done")
  BY <1>0, <1>1, <1>2 DEF RevertRemove, Goto, Reverted
<1>3. CASE RevertReload("revert_reload", "done")
  BY <1>0, <1>3 DEF RevertReload, MgrAt, Goto, Reverted
<1>4. CASE RevertEntries("revert", "done")
  <2>1. mgr.pc = "revert" /\ platform \in Tables
    BY <1>4 DEF RevertEntries, MgrAt
  <2>2. CASE UNCHANGED mgr
    BY <2>1, <2>2 DEF Reverted
  <2>3. CASE file.routes = {} /\ Goto("done") /\ UNCHANGED <<file, live>>
    BY <1>0, <1>1, <2>1, <2>3 DEF Goto, Reverted
  <2>4. CASE unreverted' = TRUE /\ Goto("done")
    BY <1>0, <2>4 DEF Goto, Reverted
  <2> QED  BY <1>4, <2>2, <2>3, <2>4 DEF RevertEntries
<1>5. CASE /\ mgr'.pc \notin {"revert_reload", "done"}
  BY <1>5 DEF Reverted
<1>6. CASE UNCHANGED <<mgr, file, live, unreverted>>
  BY <1>6 DEF Reverted
<1>7. CASE \/ RevertRemove("cleanup", "cleanup_reload", "subscribe")
           \/ RevertReload("cleanup_reload", "subscribe")
           \/ RevertEntries("cleanup", "subscribe")
  <2>1. mgr'.pc \notin {"revert_reload", "done"}
    BY <1>0, <1>7 DEF RevertRemove, RevertReload, RevertEntries, MgrAt, Goto
  <2> QED  BY <1>5, <2>1
<1>8. CASE Subscribe \/ Snapshot \/ Write \/ Reload \/ Clear \/ Fill \/ Recv \/ Cancelled
  <2>1. mgr'.pc \notin {"revert_reload", "done"}
    <3>1. CASE Fill
      <4>1. CASE \E d \in mgr.todo : mgr' = [mgr EXCEPT !.todo = @ \ {d}]
        BY <1>0, <3>1, <4>1 DEF Fill, MgrAt
      <4>2. CASE Goto("recv") \/ Goto("failed")
        BY <1>0, <4>2 DEF Goto
      <4> QED  BY <3>1, <4>1, <4>2 DEF Fill
    <3>2. CASE ~Fill
      BY <1>0, <1>8, <3>2 DEF Subscribe, Snapshot, Write, Reload, Clear, Recv,
         Cancelled, MgrAt, Goto
    <3> QED  BY <3>1, <3>2
  <2> QED  BY <1>5, <2>1
<1>9. CASE Boot \/ Crash
  <2>1. mgr'.pc \notin {"revert_reload", "done"}
    BY <1>0, <1>9 DEF Boot, Crash, NoManager
  <2> QED  BY <1>5, <2>1
<1>10. CASE CleanRemove \/ CleanReload
  BY <1>1, <1>10 DEF CleanRemove, CleanReload, Reverted
<1>11. CASE CleanEntries
  <2>1. ASSUME RemoveEntry, platform \in Tables, ~file.present
        PROVE  FALSE
    <3>1. file.routes # {}
      BY <2>1 DEF RemoveEntry
    <3>2. file.present
      BY <2>1, <3>1, ConfigPresent DEF Inv, Entries
    <3> QED  BY <2>1, <3>2
  <2> QED  BY <1>1, <1>11, <2>1 DEF CleanEntries, Reverted
<1> QED
  BY <1>2, <1>3, <1>4, <1>6, <1>7, <1>8, <1>9, <1>10, <1>11
  DEF Next, MgrStep, Lagged, ShutdownRequested, Signal, Exit, ServeRequest, ServeStep,
      vars, sysVars

(* Whatever failed or crashed before, however the stop interleaves with    *)
(* `sidedns clean`: a stop whose last revert succeeded leaves no file, no  *)
(* entry and no route (sys/mod.rs:101).                                    *)
THEOREM StopAlwaysReverts == Spec => []StopReverts
<1>1. Reverted => StopReverts
  BY DEF Reverted, StopReverts
<1> QED  BY <1>1, InitInv, NextInv, InitReverted, NextReverted, PTL DEF Spec

-----------------------------------------------------------------------------
(* What the routes cover. *)

(* A name some rule answers for is one that a rule of the store matches,   *)
(* and snapshot_all_domains has that rule's domain.                        *)
LEMMA AnswerHasRule ==
  ASSUME NEW s \in Store, WellFormed(s), NEW n \in Name, Resolve(s, n) # None
  PROVE  \E rule \in Rule : rule.domain \in AllDomains(s) /\ Matches(rule, n)
<1>1. ASSUME NEW layer \in Layer, LayerWellFormed(layer),
             Exact(layer, n) # None \/ FindWildcard(layer.wildcard, n) # None
      PROVE  \E rule \in Rule : rule.domain \in LayerDomains(layer) /\ Matches(rule, n)
  <2>1. CASE Exact(layer, n) # None
    <3>1. /\ n \in Domain /\ layer.exact[n] # None /\ layer.exact[n] \in Rule
          /\ layer.exact[n].domain = n /\ ~IsWildcard(n)
      BY <1>1, <2>1 DEF Exact, Layer, LayerWellFormed
    <3>2. Matches(layer.exact[n], n)
      BY <3>1 DEF Matches
    <3>3. layer.exact[n].domain \in LayerDomains(layer)
      BY <3>1 DEF LayerDomains
    <3> QED  BY <3>1, <3>2, <3>3
  <2>2. CASE FindWildcard(layer.wildcard, n) # None
    <3>1. PICK i \in 1..Len(layer.wildcard) : Matches(layer.wildcard[i], n)
      BY <2>2 DEF FindWildcard
    <3>2. layer.wildcard[i] \in Rule
      BY DEF Layer
    <3>3. layer.wildcard[i].domain \in LayerDomains(layer)
      BY DEF LayerDomains
    <3> QED  BY <3>1, <3>2, <3>3
  <2> QED  BY <1>1, <2>1, <2>2
<1>2. /\ s.ephemeral \in Layer /\ LayerWellFormed(s.ephemeral)
      /\ s.persistent \in Layer /\ LayerWellFormed(s.persistent)
  BY DEF Store, WellFormed
<1>3. \E layer \in {s.ephemeral, s.persistent} :
        Exact(layer, n) # None \/ FindWildcard(layer.wildcard, n) # None
  <2> DEFINE e == Exact(s.ephemeral, n)
             ew == FindWildcard(s.ephemeral.wildcard, n)
             p == Exact(s.persistent, n)
             pw == FindWildcard(s.persistent.wildcard, n)
  <2> SUFFICES e # None \/ ew # None \/ p # None \/ pw # None
    OBVIOUS
  <2>1. Resolve(s, n) = CASE e # None -> e
                          [] e = None /\ ew # None -> ew
                          [] e = None /\ ew = None /\ p # None -> p
                          [] OTHER -> pw
    BY DEF Resolve
  <2> HIDE DEF e, ew, p, pw
  <2> QED  BY <2>1
<1> QED  BY <1>1, <1>2, <1>3 DEF AllDomains

(* As each platform writes a domain, it covers the names the rule matches. *)
LEMMA RouteCovers ==
  ASSUME NEW rule \in Rule, NEW n \in Name, Matches(rule, n), NEW p, NEW f,
         RouteOf(p, rule.domain) \in f.routes
  PROVE  Covers(p, f, n)
<1>1. CASE ~IsWildcard(rule.domain)
  <2>1. RouteOf(p, rule.domain) = n
    BY <1>1 DEF RouteOf, Matches
  <2> QED  BY <2>1 DEF Covers
<1>2. CASE IsWildcard(rule.domain) /\ p # "windows"
  BY <1>2 DEF RouteOf, Matches, Covers
<1>3. CASE IsWildcard(rule.domain) /\ p = "windows"
  BY <1>3 DEF RouteOf, Matches, Covers
<1> QED  BY <1>1, <1>2, <1>3

(* For any rules and names: where the resolver's routes are those of the   *)
(* store, no name that a rule answers for passes SideDNS by.               *)
THEOREM RulesAlwaysRouted == Spec => []RulesAreRouted
<1>1. Inv => RulesAreRouted
  <2> SUFFICES ASSUME Inv, NEW n \in Name, Resolve(store, n) # None,
                      live = Config(platform, Routes(platform, AllDomains(store)))
               PROVE  Covers(platform, live, n)
    BY DEF RulesAreRouted
  <2>1. PICK rule \in Rule : rule.domain \in AllDomains(store) /\ Matches(rule, n)
    BY AnswerHasRule DEF Inv, Types
  <2>2. RouteOf(platform, rule.domain) \in live.routes
    BY <2>1, ConfigLemma DEF Routes
  <2> QED  BY <2>1, <2>2, RouteCovers
<1> QED  BY <1>1, InitInv, NextInv, PTL DEF Spec
=============================================================================
